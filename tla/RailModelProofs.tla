--------------------------- MODULE RailModelProofs ---------------------------
(***************************************************************************)
(* Proofs about the rail model, for every number of cores, all turbo bins, *)
(* command lines and fitted parameters.                                    *)
(*                                                                         *)
(* The argument is monotonicity: the power of the package rises with the   *)
(* frequency and the activity of its cores.  It needs facts about the sums *)
(* over the cores (DataProofs) and the piecewise linear curves; the         *)
(* operators of the model follow, then the state machine.                  *)
(***************************************************************************)
EXTENDS RailModel, DataProofs

-----------------------------------------------------------------------------
(* Sums over the cores                                                     *)

(* Total is such a sum.                                                    *)
LEMMA TotalIsSum ==
    ASSUME NEW D, IsFiniteSet(D), NEW fun \in [D -> Nat]
    PROVE  \E g : IsSum(g, D, fun) /\ Total(fun) = g[D]
<1> DEFINE g == CHOOSE h : IsSum(h, D, fun)
<1>1. \E h : IsSum(h, D, fun)
  BY SumExists
<1>2. IsSum(g, D, fun)
  BY <1>1
<1>3. Total(fun) = g[D]
  BY DEF Total, FoldSeq, FoldFunction, FoldFunctionOnSet, MapThenFoldSet, Taken, IsSum
<1> QED BY <1>2, <1>3

LEMMA TotalNat ==
    ASSUME NEW D, IsFiniteSet(D), NEW fun \in [D -> Nat]
    PROVE  Total(fun) \in Nat
  BY TotalIsSum, SumNat

LEMMA TotalCompare ==
    ASSUME NEW D, IsFiniteSet(D),
           NEW a \in [D -> Nat], NEW b \in [D -> Nat], NEW c \in [D -> Nat], NEW d \in [D -> Nat],
           \A i \in D : a[i] + b[i] <= c[i] + d[i]
    PROVE  Total(a) + Total(b) <= Total(c) + Total(d)
<1>1. PICK ga : IsSum(ga, D, a) /\ Total(a) = ga[D]
  BY TotalIsSum
<1>2. PICK gb : IsSum(gb, D, b) /\ Total(b) = gb[D]
  BY TotalIsSum
<1>3. PICK gc : IsSum(gc, D, c) /\ Total(c) = gc[D]
  BY TotalIsSum
<1>4. PICK gd : IsSum(gd, D, d) /\ Total(d) = gd[D]
  BY TotalIsSum
<1>5. ga[D] + gb[D] <= gc[D] + gd[D]
  BY <1>1, <1>2, <1>3, <1>4, SumCompare
<1> QED BY <1>1, <1>2, <1>3, <1>4, <1>5

LEMMA TotalMono ==
    ASSUME NEW D, IsFiniteSet(D), NEW a \in [D -> Nat], NEW c \in [D -> Nat],
           \A i \in D : a[i] <= c[i]
    PROVE  Total(a) <= Total(c)
<1>1. \A i \in D : a[i] + a[i] <= c[i] + c[i]
  OBVIOUS
<1>2. Total(a) + Total(a) <= Total(c) + Total(c)
  BY <1>1, TotalCompare
<1> QED BY <1>2, TotalNat

-----------------------------------------------------------------------------
(* Interpolation                                                           *)

(* Points with growing abscissas whose ordinates do not fall.              *)
Curve(points) ==
    /\ points \in Seq(Nat \X Nat) /\ Len(points) >= 2
    /\ \A i, j \in 1 .. Len(points) :
        i < j => points[i][1] < points[j][1] /\ points[i][2] <= points[j][2]

(* The part of a segment's height reached after a of its length.           *)
LEMMA Slope ==
    ASSUME NEW dx \in Nat \ {0}, NEW dy \in Nat, NEW a \in Nat, NEW b \in Nat,
           a <= b, b <= dx
    PROVE  /\ (a * dy) \div dx \in Nat /\ (b * dy) \div dx \in Nat
           /\ (a * dy) \div dx <= (b * dy) \div dx /\ (b * dy) \div dx <= dy
<1>1. a * dy \in Nat /\ b * dy \in Nat /\ a * dy <= b * dy /\ b * dy <= dx * dy
  OBVIOUS
<1> DEFINE m == a * dy
           n == b * dy
           k == dx * dy
<1>2. k \div dx = dy
  OBVIOUS
<1>3. m \in Nat /\ n \in Nat /\ k \in Nat /\ m <= n /\ n <= k
  BY <1>1
<1> HIDE DEF m, n, k
<1>4. /\ m \div dx \in Nat /\ n \div dx \in Nat
      /\ m \div dx <= n \div dx /\ n \div dx <= k \div dx
  BY <1>3
<1> QED BY <1>2, <1>4 DEF m, n, k

(* Inside of the points the value is on the segment around x.              *)
OnSegment(points, x, k) ==
    /\ points[k][1] <= x /\ x < points[k + 1][1]
    /\ Interpolate(points, x) =
         points[k][2] + ((x - points[k][1]) * (points[k + 1][2] - points[k][2]))
                            \div (points[k + 1][1] - points[k][1])

LEMMA SegmentExists ==
    ASSUME NEW points, Curve(points), NEW x \in Nat,
           points[1][1] < x, x < points[Len(points)][1]
    PROVE  \E k \in 1 .. Len(points) - 1 : OnSegment(points, x, k)
<1> DEFINE n == Len(points)
           Above == {k \in 1 .. n : x < points[k][1]}
<1>0. n \in Nat /\ n >= 2
  BY DEF Curve
<1>1. Above \in SUBSET Nat /\ n \in Above /\ 1 \notin Above
  <2>1. points[1][1] \in Nat
    BY <1>0 DEF Curve
  <2> QED BY <1>0, <2>1
<1>2. PICK m \in Above : \A k \in Above : m <= k
  <2> HIDE DEF Above
  <2> QED BY <1>1, NatLeast
<1>3. m \in 1 .. n /\ x < points[m][1] /\ m # 1
  BY <1>1, <1>2
<1>4. m - 1 \in 1 .. n - 1 /\ m - 1 \notin Above
  BY <1>0, <1>2, <1>3
<1>5. points[m - 1][1] <= x /\ (m - 1) + 1 = m
  <2>1. points[m - 1][1] \in Nat
    BY <1>0, <1>4 DEF Curve
  <2> QED BY <1>0, <1>3, <1>4, <2>1
<1> DEFINE C(k) == points[k][1] <= x /\ x < points[k + 1][1]
           i == CHOOSE k \in 1 .. n - 1 : C(k)
<1>6. i \in 1 .. n - 1 /\ C(i)
  BY <1>3, <1>4, <1>5
<1>7. Interpolate(points, x) =
         points[i][2] + ((x - points[i][1]) * (points[i + 1][2] - points[i][2]))
                            \div (points[i + 1][1] - points[i][1])
  <2>1. ~(x <= points[1][1]) /\ ~(x >= points[n][1])
    <3>1. points[1][1] \in Nat /\ points[n][1] \in Nat
      BY <1>0 DEF Curve
    <3> QED BY <3>1
  <2> QED BY <2>1 DEF Interpolate
<1> HIDE DEF i
<1> QED BY <1>6, <1>7 DEF OnSegment

LEMMA SegmentBounds ==
    ASSUME NEW points, Curve(points), NEW x \in Nat,
           NEW k \in 1 .. Len(points) - 1, OnSegment(points, x, k)
    PROVE  /\ Interpolate(points, x) \in Nat
           /\ points[k][2] <= Interpolate(points, x)
           /\ Interpolate(points, x) <= points[k + 1][2]
<1> DEFINE p1 == points[k][1]
           p2 == points[k][2]
           q1 == points[k + 1][1]
           q2 == points[k + 1][2]
<1>1. /\ p1 \in Nat /\ p2 \in Nat /\ q1 \in Nat /\ q2 \in Nat
      /\ p1 < q1 /\ p2 <= q2
  <2>1. Len(points) \in Nat /\ k \in 1 .. Len(points) /\ k + 1 \in 1 .. Len(points) /\ k < k + 1
    BY DEF Curve
  <2>2. points[k] \in Nat \X Nat /\ points[k + 1] \in Nat \X Nat
    BY <2>1 DEF Curve
  <2> QED BY <2>1, <2>2 DEF Curve
<1>2. /\ p1 <= x /\ x < q1
      /\ Interpolate(points, x) = p2 + ((x - p1) * (q2 - p2)) \div (q1 - p1)
  BY DEF OnSegment
<1> HIDE DEF p1, p2, q1, q2
<1>3. /\ x - p1 \in Nat /\ q2 - p2 \in Nat /\ q1 - p1 \in Nat \ {0} /\ x - p1 <= q1 - p1
  BY <1>1, <1>2
<1>4. /\ ((x - p1) * (q2 - p2)) \div (q1 - p1) \in Nat
      /\ ((x - p1) * (q2 - p2)) \div (q1 - p1) <= q2 - p2
  BY <1>3, Slope
<1>5. /\ Interpolate(points, x) \in Nat
      /\ p2 <= Interpolate(points, x) /\ Interpolate(points, x) <= q2
  BY <1>1, <1>2, <1>4
<1> QED BY <1>5 DEF p2, q2

LEMMA InterpolateBounds ==
    ASSUME NEW points, Curve(points), NEW x \in Nat
    PROVE  /\ Interpolate(points, x) \in Nat
           /\ points[1][2] <= Interpolate(points, x)
           /\ Interpolate(points, x) <= points[Len(points)][2]
<1> DEFINE n == Len(points)
<1>0. n \in Nat /\ n >= 2 /\ 1 \in 1 .. n /\ n \in 1 .. n
  BY DEF Curve
<1>1. points[1] \in Nat \X Nat /\ points[n] \in Nat \X Nat /\ points[1][2] <= points[n][2]
  BY <1>0 DEF Curve
<1>2. CASE x <= points[1][1]
  <2>1. Interpolate(points, x) = points[1][2]
    BY <1>2 DEF Interpolate
  <2> QED BY <1>1, <2>1
<1>3. CASE x > points[1][1] /\ x >= points[n][1]
  <2>1. ~(x <= points[1][1])
    BY <1>1, <1>3
  <2>2. Interpolate(points, x) = points[n][2]
    BY <1>3, <2>1 DEF Interpolate
  <2> QED BY <1>1, <2>2
<1>4. CASE x > points[1][1] /\ x < points[n][1]
  <2>1. PICK k \in 1 .. n - 1 : OnSegment(points, x, k)
    BY <1>1, <1>4, SegmentExists
  <2>2. /\ Interpolate(points, x) \in Nat
        /\ points[k][2] <= Interpolate(points, x)
        /\ Interpolate(points, x) <= points[k + 1][2]
    BY <2>1, SegmentBounds
  <2>3. k \in 1 .. n /\ k + 1 \in 1 .. n /\ (k = 1 \/ 1 < k) /\ (k + 1 = n \/ k + 1 < n)
    BY <1>0
  <2>4. points[1][2] <= points[k][2] /\ points[k + 1][2] <= points[n][2]
    <3>1. points[k] \in Nat \X Nat /\ points[k + 1] \in Nat \X Nat
      BY <2>3 DEF Curve
    <3>2. points[1][2] <= points[k][2]
      <4>1. CASE k = 1
        BY <4>1, <1>1
      <4>2. CASE 1 < k
        BY <4>2, <2>3, <1>0 DEF Curve
      <4> QED BY <4>1, <4>2, <2>3
    <3>3. points[k + 1][2] <= points[n][2]
      <4>1. CASE k + 1 = n
        BY <4>1, <1>1
      <4>2. CASE k + 1 < n
        BY <4>2, <2>3, <1>0 DEF Curve
      <4> QED BY <4>1, <4>2, <2>3
    <3> QED BY <3>2, <3>3
  <2>5. points[k][2] \in Nat /\ points[k + 1][2] \in Nat
    BY <2>3 DEF Curve
  <2> QED BY ONLY <1>1, <2>2, <2>4, <2>5
<1> QED BY <1>1, <1>2, <1>3, <1>4

LEMMA InterpolateMono ==
    ASSUME NEW points, Curve(points), NEW x \in Nat, NEW y \in Nat, x <= y
    PROVE  Interpolate(points, x) <= Interpolate(points, y)
<1> DEFINE n == Len(points)
<1>0. n \in Nat /\ n >= 2 /\ 1 \in 1 .. n /\ n \in 1 .. n
  BY DEF Curve
<1>1. points[1] \in Nat \X Nat /\ points[n] \in Nat \X Nat
  BY <1>0 DEF Curve
<1>2. CASE x <= points[1][1]
  <2>1. Interpolate(points, x) = points[1][2]
    BY <1>2 DEF Interpolate
  <2> QED BY <2>1, InterpolateBounds
<1>3. CASE x > points[1][1] /\ y >= points[n][1]
  <2>1. ~(y <= points[1][1]) /\ y >= points[n][1]
    BY <1>1, <1>3
  <2>2. Interpolate(points, y) = points[n][2]
    BY <2>1 DEF Interpolate
  <2> QED BY <2>2, InterpolateBounds
<1>4. CASE x > points[1][1] /\ y < points[n][1]
  <2>0. /\ points[1][1] \in Nat /\ points[n][1] \in Nat
        /\ points[1][1] < x /\ x < points[n][1] /\ points[1][1] < y /\ y < points[n][1]
    BY <1>1, <1>4
  <2>1. PICK k \in 1 .. n - 1 : OnSegment(points, x, k)
    BY <2>0, SegmentExists
  <2>2. PICK l \in 1 .. n - 1 : OnSegment(points, y, l)
    BY <2>0, SegmentExists
  <2>3. /\ k \in 1 .. n /\ k + 1 \in 1 .. n /\ l \in 1 .. n /\ l + 1 \in 1 .. n
        /\ k \in Nat /\ l \in Nat /\ k < k + 1
    BY <1>0
  <2>a. /\ \A i \in 1 .. n : points[i] \in Nat \X Nat
        /\ \A i, j \in 1 .. n :
             i < j => points[i][1] < points[j][1] /\ points[i][2] <= points[j][2]
    BY DEF Curve
  <2>4. /\ points[k] \in Nat \X Nat /\ points[k + 1] \in Nat \X Nat
        /\ points[l] \in Nat \X Nat /\ points[l + 1] \in Nat \X Nat
    BY <2>3, <2>a
  <2>5. /\ points[k][1] <= x /\ x < points[k + 1][1]
        /\ points[l][1] <= y /\ y < points[l + 1][1]
    BY <2>1, <2>2 DEF OnSegment
  <2>6. CASE k = l
    <3> DEFINE p1 == points[k][1]
               p2 == points[k][2]
               q1 == points[k + 1][1]
               q2 == points[k + 1][2]
    <3>1. /\ p1 \in Nat /\ p2 \in Nat /\ q1 \in Nat /\ q2 \in Nat
          /\ p1 < q1 /\ p2 <= q2 /\ p1 <= x /\ y < q1
      <4>1. p1 < q1 /\ p2 <= q2
        BY <2>3, <2>a
      <4> QED BY <4>1, <2>4, <2>5, <2>6
    <3>2. /\ Interpolate(points, x) = p2 + ((x - p1) * (q2 - p2)) \div (q1 - p1)
          /\ Interpolate(points, y) = p2 + ((y - p1) * (q2 - p2)) \div (q1 - p1)
      BY <2>1, <2>2, <2>6 DEF OnSegment
    <3> HIDE DEF p1, p2, q1, q2
    <3>3. /\ x - p1 \in Nat /\ y - p1 \in Nat /\ q2 - p2 \in Nat /\ q1 - p1 \in Nat \ {0}
          /\ x - p1 <= y - p1 /\ y - p1 <= q1 - p1
      BY <3>1
    <3>4. /\ ((x - p1) * (q2 - p2)) \div (q1 - p1) \in Nat
          /\ ((y - p1) * (q2 - p2)) \div (q1 - p1) \in Nat
          /\ ((x - p1) * (q2 - p2)) \div (q1 - p1) <= ((y - p1) * (q2 - p2)) \div (q1 - p1)
      BY <3>3, Slope
    <3> QED BY <3>1, <3>2, <3>4
  <2>7. CASE k < l
    <3>1. points[k + 1][2] <= points[l][2]
      <4>1. CASE k + 1 = l
        BY <4>1, <2>4
      <4>2. CASE k + 1 < l
        BY <4>2, <2>3 DEF Curve
      <4> QED BY <4>1, <4>2, <2>3, <2>7
    <3>2. /\ Interpolate(points, x) \in Nat /\ Interpolate(points, y) \in Nat
          /\ Interpolate(points, x) <= points[k + 1][2]
          /\ points[l][2] <= Interpolate(points, y)
      BY <2>1, <2>2, SegmentBounds
    <3>3. points[k + 1][2] \in Nat /\ points[l][2] \in Nat
      BY <2>4
    <3> DEFINE a == Interpolate(points, x)
               b == points[k + 1][2]
               c == points[l][2]
               d == Interpolate(points, y)
    <3>4. a \in Nat /\ b \in Nat /\ c \in Nat /\ d \in Nat /\ a <= b /\ b <= c /\ c <= d
      BY ONLY <3>1, <3>2, <3>3
    <3> HIDE DEF a, b, c, d
    <3>5. a <= d
      BY ONLY <3>4
    <3> QED BY ONLY <3>5 DEF a, d
  <2>8. CASE l < k
    <3>1. points[l + 1][1] <= points[k][1]
      <4>1. CASE l + 1 = k
        BY <4>1, <2>4
      <4>2. CASE l + 1 < k
        <5>1. points[l + 1][1] < points[k][1]
          BY <4>2, <2>3 DEF Curve
        <5> QED BY <5>1, <2>4
      <4> QED BY <4>1, <4>2, <2>3, <2>8
    <3>2. points[l + 1][1] \in Nat /\ points[k][1] \in Nat
      BY <2>4
    <3> QED BY <3>1, <3>2, <2>5
  <2> QED BY <2>3, <2>6, <2>7, <2>8
<1> QED BY <1>1, <1>2, <1>3, <1>4

LEMMA AnchorsAreCurves == Curve(VF_ANCHORS) /\ Curve(LEAK_ANCHORS)
<1>1. Curve(VF_ANCHORS)
  BY DEF Curve, VF_ANCHORS
<1>2. Curve(LEAK_ANCHORS)
  BY DEF Curve, LEAK_ANCHORS
<1> QED BY <1>1, <1>2

-----------------------------------------------------------------------------
(* The terms of the power                                                  *)

Params == [C_eff : Nat \ {0}, k_leak : Nat, p_sa_floor : Nat]

LEMMA ProductMono ==
    ASSUME NEW a \in Nat, NEW b \in Nat, NEW c \in Nat, NEW d \in Nat, a <= c, b <= d
    PROVE  a * b \in Nat /\ c * d \in Nat /\ a * b <= c * d
<1>1. a * b <= c * b /\ a * b \in Nat /\ c * b \in Nat
  OBVIOUS
<1>2. c * b <= c * d /\ c * d \in Nat
  OBVIOUS
<1> QED BY <1>1, <1>2

LEMMA QuotientMono ==
    ASSUME NEW a \in Nat, NEW b \in Nat, NEW k \in Nat \ {0}, a <= b
    PROVE  a \div k \in Nat /\ b \div k \in Nat /\ a \div k <= b \div k
  OBVIOUS

LEMMA QuotientFalls ==
    ASSUME NEW w \in Nat, NEW a \in Nat \ {0}, NEW b \in Nat \ {0}, a <= b
    PROVE  w \div a \in Nat /\ w \div b \in Nat /\ w \div b <= w \div a
<1> DEFINE q == w \div a
           r == w \div b
<1>1. q \in Nat /\ r \in Nat
  OBVIOUS
<1>2. w < a * (q + 1) /\ b * r <= w
  OBVIOUS
<1> HIDE DEF q, r
<1>3. SUFFICES ASSUME q < r PROVE FALSE
  BY <1>1 DEF q, r
<1>4. a * (q + 1) <= b * r /\ a * (q + 1) \in Nat /\ b * r \in Nat
  <2>1. q + 1 <= r /\ q + 1 \in Nat
    BY <1>1, <1>3
  <2> QED BY <1>1, <2>1, ProductMono
<1> QED BY <1>2, <1>4

LEMMA VoltageNat ==
    ASSUME NEW f \in Nat
    PROVE  v_of_f(f) \in Nat
  BY InterpolateBounds, AnchorsAreCurves DEF v_of_f

LEMMA VoltageMono ==
    ASSUME NEW f \in Nat, NEW g \in Nat, f <= g
    PROVE  v_of_f(f) <= v_of_f(g)
  BY InterpolateMono, AnchorsAreCurves DEF v_of_f

(* No core asks for less than one at F_MIN.                                *)
LEMMA VoltageFloor ==
    ASSUME NEW f \in Nat
    PROVE  v_of_f(F_MIN) <= v_of_f(f)
<1>1. VF_ANCHORS[1] = <<400, 650>>
  BY DEF VF_ANCHORS
<1>2. v_of_f(F_MIN) = VF_ANCHORS[1][2]
  <2>1. F_MIN <= VF_ANCHORS[1][1]
    BY <1>1 DEF F_MIN
  <2>2. Interpolate(VF_ANCHORS, F_MIN) = VF_ANCHORS[1][2]
    BY ONLY <2>1 DEF Interpolate
  <2> QED BY <2>2 DEF v_of_f
<1> QED BY <1>2, InterpolateBounds, AnchorsAreCurves DEF v_of_f

LEMMA ShapeNat ==
    ASSUME NEW v \in Nat
    PROVE  leak_shape(v) \in Nat
  BY InterpolateBounds, AnchorsAreCurves DEF leak_shape

LEMMA ShapeMono ==
    ASSUME NEW v \in Nat, NEW w \in Nat, v <= w
    PROVE  leak_shape(v) <= leak_shape(w)
  BY InterpolateMono, AnchorsAreCurves DEF leak_shape

(* A higher voltage leaks more, and an active core more than one in C6.    *)
LEMMA LeakMono ==
    ASSUME NEW p \in Params, NEW temp, leak_temp_factor(temp) \in Nat,
           NEW v \in Nat, NEW w \in Nat, v <= w,
           NEW x \in BOOLEAN, NEW y \in BOOLEAN, x => y
    PROVE  /\ core_leakage(p, v, x, temp) \in Nat /\ core_leakage(p, w, y, temp) \in Nat
           /\ core_leakage(p, v, x, temp) <= core_leakage(p, w, y, temp)
<1> DEFINE k == p.k_leak
           t == leak_temp_factor(temp)
           a1 == k * leak_shape(v)
           b1 == k * leak_shape(w)
           a2 == a1 \div 100
           b2 == b1 \div 100
           a3 == a2 * t
           b3 == b2 * t
           a == a3 \div 10000
           b == b3 \div 10000
<1>1. k \in Nat /\ t \in Nat
  BY DEF Params
<1>2. /\ leak_shape(v) \in Nat /\ leak_shape(w) \in Nat
      /\ leak_shape(v) <= leak_shape(w)
  BY ShapeNat, ShapeMono
<1>3. a1 \in Nat /\ b1 \in Nat /\ a1 <= b1
  BY <1>1, <1>2, ProductMono
<1>4. a2 \in Nat /\ b2 \in Nat /\ a2 <= b2
  <2> HIDE DEF a1, b1
  <2> QED BY <1>3, QuotientMono
<1>5. a3 \in Nat /\ b3 \in Nat /\ a3 <= b3
  <2> HIDE DEF a2, b2, t
  <2> QED BY <1>1, <1>4, ProductMono
<1>6. a \in Nat /\ b \in Nat /\ a <= b
  <2> HIDE DEF a3, b3
  <2> QED BY <1>5, QuotientMono
<1>7. /\ core_leakage(p, v, x, temp) = IF x THEN a ELSE (a * RESIDUAL) \div 100
      /\ core_leakage(p, w, y, temp) = IF y THEN b ELSE (b * RESIDUAL) \div 100
  BY DEF core_leakage
<1> HIDE DEF a, b
<1>8. /\ (a * RESIDUAL) \div 100 \in Nat /\ (b * RESIDUAL) \div 100 \in Nat
      /\ (a * RESIDUAL) \div 100 <= (b * RESIDUAL) \div 100
      /\ (a * RESIDUAL) \div 100 <= a
  BY <1>6 DEF RESIDUAL
<1> QED BY <1>6, <1>7, <1>8

(* So does a higher frequency or activity switch more.                     *)
LEMMA SwitchingMono ==
    ASSUME NEW c \in Nat, NEW v \in Nat, NEW w \in Nat, v <= w,
           NEW f \in Nat, NEW g \in Nat, f <= g
    PROVE  /\ Switching(c, v, f) \in Nat /\ Switching(c, w, g) \in Nat
           /\ Switching(c, v, f) <= Switching(c, w, g)
<1> DEFINE a0 == c * v
           b0 == c * w
           a1 == a0 * v
           b1 == b0 * w
           a2 == a1 \div 10000
           b2 == b1 \div 10000
           a3 == a2 * f
           b3 == b2 * g
<1>1. a0 \in Nat /\ b0 \in Nat /\ a0 <= b0
  BY ProductMono
<1>2. a1 \in Nat /\ b1 \in Nat /\ a1 <= b1
  <2> HIDE DEF a0, b0
  <2> QED BY <1>1, ProductMono
<1>3. a2 \in Nat /\ b2 \in Nat /\ a2 <= b2
  <2> HIDE DEF a1, b1
  <2> QED BY <1>2, QuotientMono
<1>4. a3 \in Nat /\ b3 \in Nat /\ a3 <= b3
  <2> HIDE DEF a2, b2
  <2> QED BY <1>3, ProductMono
<1>5. a3 \div 1000 \in Nat /\ b3 \div 1000 \in Nat /\ a3 \div 1000 <= b3 \div 1000
  <2> HIDE DEF a3, b3
  <2> QED BY <1>4, QuotientMono
<1> QED BY <1>5 DEF Switching

LEMMA DynamicMono ==
    ASSUME NEW c \in Nat, NEW v \in Nat, NEW w \in Nat, v <= w,
           NEW f \in Nat, NEW g \in Nat, f <= g, NEW x \in Nat, NEW y \in Nat, x <= y
    PROVE  /\ Dynamic(c, v, f, x) \in Nat /\ Dynamic(c, w, g, y) \in Nat
           /\ Dynamic(c, v, f, x) <= Dynamic(c, w, g, y)
<1> DEFINE a == Switching(c, v, f) * x
           b == Switching(c, w, g) * y
<1>1. a \in Nat /\ b \in Nat /\ a <= b
  BY SwitchingMono, ProductMono
<1> HIDE DEF a, b
<1>2. a \div (10 * Unit) \in Nat /\ b \div (10 * Unit) \in Nat
      /\ a \div (10 * Unit) <= b \div (10 * Unit)
  BY <1>1 DEF Unit
<1> QED BY <1>2 DEF Dynamic, a, b

(* A core in C6 does not switch.                                           *)
LEMMA DynamicIdle ==
    ASSUME NEW c \in Nat, NEW v \in Nat, NEW f \in Nat
    PROVE  Dynamic(c, v, f, 0) = 0
<1>1. Switching(c, v, f) \in Nat
  BY SwitchingMono
<1>2. Switching(c, v, f) * 0 = 0
  BY <1>1
<1> QED BY <1>2 DEF Dynamic, Unit

LEMMA RingMono ==
    ASSUME NEW f \in Nat, NEW g \in Nat, f <= g
    PROVE  Ring(f) \in Nat /\ Ring(g) \in Nat /\ Ring(f) <= Ring(g)
<1>1. FRing(f) \in Nat /\ FRing(g) \in Nat /\ FRing(f) <= FRing(g)
  BY DEF FRing, AtMost, AtLeast, F_RING_MIN, F_RING_MAX
<1>2. /\ v_of_f(FRing(f)) \in Nat /\ v_of_f(FRing(g)) \in Nat
      /\ v_of_f(FRing(f)) <= v_of_f(FRing(g))
  BY <1>1, VoltageNat, VoltageMono
<1>3. C_RING \in Nat /\ Unit \in Nat /\ Unit <= Unit
  BY DEF C_RING, Unit
<1> DEFINE a == FRing(f)
           b == FRing(g)
           v == v_of_f(a)
           w == v_of_f(b)
<1> HIDE DEF a, b, v, w
<1>4. /\ Dynamic(C_RING, v, a, Unit) \in Nat /\ Dynamic(C_RING, w, b, Unit) \in Nat
      /\ Dynamic(C_RING, v, a, Unit) <= Dynamic(C_RING, w, b, Unit)
  <2>1. a \in Nat /\ b \in Nat /\ a <= b /\ v \in Nat /\ w \in Nat /\ v <= w
    BY <1>1, <1>2 DEF a, b, v, w
  <2> QED BY <1>3, <2>1, DynamicMono
<1> QED BY <1>4 DEF Ring, a, b, v, w

-----------------------------------------------------------------------------
(* The power of a package                                                  *)

CoreStates(n) == [1 .. n -> Nat \X Nat]

(* Finitely many natural numbers have a bound.                             *)
LEMMA FiniteBounded ==
    ASSUME NEW S \in SUBSET Nat, IsFiniteSet(S)
    PROVE  \E b \in Nat : \A x \in S : x <= b
<1> DEFINE Bounded(s) == \E b \in Nat : \A x \in s : x <= b
           Bad == {n \in Nat : \E s \in SUBSET S : Cardinality(s) = n /\ ~Bounded(s)}
<1>1. ASSUME Bad # {} PROVE FALSE
  <2>1. PICK n \in Bad : \A m \in Bad : n <= m
    <3>1. Bad \in SUBSET Nat
      OBVIOUS
    <3> HIDE DEF Bad
    <3> QED BY <1>1, <3>1, NatLeast
  <2>2. PICK s \in SUBSET S : Cardinality(s) = n /\ ~Bounded(s)
    OBVIOUS
  <2>3. s # {}
    BY <2>2
  <2> DEFINE x == Taken(s)
             r == s \ {x}
  <2>4. /\ x \in s /\ r \in SUBSET S
        /\ Cardinality(r) = n - 1 /\ n \in Nat /\ n # 0
    BY <2>2, <2>3, Taking
  <2>5. x \in Nat /\ \A y \in s : y = x \/ y \in r
    BY <2>4
  <2> HIDE DEF x, r
  <2>6. n - 1 \notin Bad /\ n - 1 \in Nat
    <3> HIDE DEF Bad
    <3> QED BY <2>1, <2>4
  <2>7. Bounded(r)
    BY <2>4, <2>6
  <2>8. PICK b \in Nat : \A y \in r : y <= b
    BY <2>7
  <2>9. b + x \in Nat /\ \A y \in s : y <= b + x
    BY <2>4, <2>5, <2>8
  <2> QED BY <2>2, <2>9
<1>2. SUFFICES ASSUME ~Bounded(S) PROVE FALSE
  OBVIOUS
<1>3. Cardinality(S) \in Nat /\ S \in SUBSET S
  BY FS_CardinalityType
<1>4. Cardinality(S) \in Bad
  BY <1>2, <1>3
<1> QED BY <1>1, <1>4

LEMMA CoresFinite ==
    ASSUME NEW n \in Nat
    PROVE  IsFiniteSet(1 .. n)
  BY FS_Interval

(* f_max_active is the frequency of an active core and none is faster.     *)
LEMMA FastestCore ==
    ASSUME NEW n \in Nat, NEW cores \in CoreStates(n), ActiveCores(cores) # {}
    PROVE  /\ FMaxActive(cores) \in Nat
           /\ \E i \in ActiveCores(cores) : cores[i][1] = FMaxActive(cores)
           /\ \A i \in ActiveCores(cores) : cores[i][1] <= FMaxActive(cores)
<1> DEFINE S == {cores[i][1] : i \in ActiveCores(cores)}
<1>0. ActiveCores(cores) \in SUBSET (1 .. n)
  BY DEF ActiveCores, CoreStates
<1>1. S \in SUBSET Nat /\ S # {}
  BY <1>0 DEF CoreStates
<1>2. IsFiniteSet(S)
  <2>1. IsFiniteSet(ActiveCores(cores))
    BY <1>0, CoresFinite, FS_Subset
  <2> DEFINE h == [i \in ActiveCores(cores) |-> cores[i][1]]
  <2>2. h \in Surjection(ActiveCores(cores), S)
    BY DEF Surjection
  <2> QED BY <2>1, <2>2, FS_Surjection
<1>3. PICK b \in Nat : \A x \in S : x <= b
  <2> HIDE DEF S
  <2> QED BY <1>1, <1>2, FiniteBounded
<1>4. Max(S) \in S /\ \A x \in S : x <= Max(S)
  <2> HIDE DEF S
  <2> QED BY <1>1, <1>3, MaxNat
<1>5. FMaxActive(cores) = Max(S)
  BY DEF FMaxActive
<1> QED BY <1>0, <1>1, <1>4, <1>5

(* The voltage a core pays for.                                            *)
LEMMA RailVoltageNat ==
    ASSUME NEW n \in Nat, NEW cores \in CoreStates(n), ActiveCores(cores) # {},
           NEW shared \in BOOLEAN, NEW i \in 1 .. n
    PROVE  RailVoltage(cores, shared, i) \in Nat
<1>1. FMaxActive(cores) \in Nat
  BY FastestCore
<1>2. (IF Active(cores[i]) THEN cores[i][1] ELSE F_MIN) \in Nat
  BY DEF CoreStates, F_MIN
<1> QED BY <1>1, <1>2, VoltageNat DEF RailVoltage

DynOf(p, cores, shared) ==
    [i \in DOMAIN cores |->
        Dynamic(p.C_eff, RailVoltage(cores, shared, i), cores[i][1], cores[i][2])]
LeakOf(p, cores, shared, temp) ==
    [i \in DOMAIN cores |->
        core_leakage(p, RailVoltage(cores, shared, i), Active(cores[i]), temp)]
WorkOf(cores) == [i \in DOMAIN cores |-> cores[i][1] * cores[i][2]]

LEMMA PartsNat ==
    ASSUME NEW p \in Params, NEW temp, leak_temp_factor(temp) \in Nat,
           NEW n \in Nat, NEW cores \in CoreStates(n), ActiveCores(cores) # {},
           NEW shared \in BOOLEAN
    PROVE  /\ DynOf(p, cores, shared) \in [1 .. n -> Nat]
           /\ LeakOf(p, cores, shared, temp) \in [1 .. n -> Nat]
<1>1. DOMAIN cores = 1 .. n
  BY DEF CoreStates
<1>2. ASSUME NEW i \in 1 .. n
      PROVE  /\ Dynamic(p.C_eff, RailVoltage(cores, shared, i), cores[i][1], cores[i][2]) \in Nat
             /\ core_leakage(p, RailVoltage(cores, shared, i), Active(cores[i]), temp) \in Nat
  <2>1. RailVoltage(cores, shared, i) \in Nat
    BY RailVoltageNat
  <2>2. p.C_eff \in Nat /\ cores[i][1] \in Nat /\ cores[i][2] \in Nat
    BY DEF Params, CoreStates
  <2>3. Active(cores[i]) \in BOOLEAN
    BY DEF Active
  <2> DEFINE v == RailVoltage(cores, shared, i)
             x == Active(cores[i])
  <2> HIDE DEF v, x
  <2>4. core_leakage(p, v, x, temp) \in Nat
    <3>1. v \in Nat /\ v <= v /\ x \in BOOLEAN /\ (x => x)
      BY <2>1, <2>3 DEF v, x
    <3> QED BY <3>1, LeakMono
  <2>5. Dynamic(p.C_eff, v, cores[i][1], cores[i][2]) \in Nat
    <3> DEFINE c == p.C_eff
               f == cores[i][1]
               a == cores[i][2]
    <3>1. c \in Nat /\ v \in Nat /\ f \in Nat /\ a \in Nat /\ v <= v /\ f <= f /\ a <= a
      BY <2>1, <2>2 DEF v
    <3> HIDE DEF c, f, a
    <3>2. Dynamic(c, v, f, a) \in Nat
      BY <3>1, DynamicMono
    <3> QED BY <3>2 DEF c, f, a
  <2> QED BY <2>4, <2>5 DEF v, x
<1> QED BY <1>1, <1>2 DEF DynOf, LeakOf

LEMMA WorkNat ==
    ASSUME NEW n \in Nat, NEW cores \in CoreStates(n)
    PROVE  /\ WorkOf(cores) \in [1 .. n -> Nat]
           /\ Traffic(cores) \in Nat
<1>1. DOMAIN cores = 1 .. n
  BY DEF CoreStates
<1>2. \A i \in 1 .. n : cores[i][1] * cores[i][2] \in Nat
  BY DEF CoreStates
<1>3. WorkOf(cores) \in [1 .. n -> Nat]
  BY <1>1, <1>2 DEF WorkOf
<1>4. Total(WorkOf(cores)) \in Nat
  BY <1>3, CoresFinite, TotalNat
<1> DEFINE t == Total(WorkOf(cores))
<1> HIDE DEF t
<1>5. (K_TRAFFIC * t) \div (100 * Unit) \in Nat
  BY <1>4 DEF K_TRAFFIC, Unit, t
<1> QED BY <1>3, <1>5 DEF t, Traffic, WorkOf

(* With an active core the power is the sum of the terms.                  *)
LEMMA WattsIs ==
    ASSUME NEW p, NEW temp, NEW cores, NEW shared, ActiveCores(cores) # {}
    PROVE  Watts(p, cores, shared, temp) =
             Total(DynOf(p, cores, shared)) + Total(LeakOf(p, cores, shared, temp))
               + (p.p_sa_floor + Ring(FMaxActive(cores)) + Traffic(cores))
  BY DEF Watts, PowerTotal, package_power, DynOf, LeakOf

LEMMA WattsNat ==
    ASSUME NEW p \in Params, NEW temp, leak_temp_factor(temp) \in Nat,
           NEW n \in Nat, NEW cores \in CoreStates(n), NEW shared \in BOOLEAN
    PROVE  Watts(p, cores, shared, temp) \in Nat
<1>1. CASE ActiveCores(cores) = {}
  <2> DEFINE g == core_leakage(p, v_of_f(F_MIN), FALSE, temp)
  <2>1. g \in Nat
    <3> DEFINE v == v_of_f(F_MIN)
    <3>1. v \in Nat /\ v <= v
      BY VoltageNat DEF F_MIN
    <3> HIDE DEF v
    <3>2. core_leakage(p, v, FALSE, temp) \in Nat
      BY <3>1, LeakMono
    <3> QED BY <3>2 DEF v
  <2>2. Watts(p, cores, shared, temp) = 0 + Len(cores) * g + P_PKG_C6
    BY <1>1 DEF Watts, PowerTotal, package_power
  <2>3. cores \in Seq(Nat \X Nat) /\ Len(cores) \in Nat
    BY DEF CoreStates
  <2> DEFINE k == Len(cores)
  <2>4. k * g \in Nat
    <3> HIDE DEF g, k
    <3> QED BY <2>1, <2>3 DEF k
  <2> DEFINE q == k * g
  <2>5. Watts(p, cores, shared, temp) = 0 + q + P_PKG_C6 /\ q \in Nat
    BY <2>2, <2>4
  <2> HIDE DEF q
  <2> QED BY <2>5 DEF P_PKG_C6
<1>2. CASE ActiveCores(cores) # {}
  <2> DEFINE d == Total(DynOf(p, cores, shared))
             l == Total(LeakOf(p, cores, shared, temp))
             r == Ring(FMaxActive(cores))
             t == Traffic(cores)
             s == p.p_sa_floor
  <2>1. d \in Nat /\ l \in Nat
    BY <1>2, PartsNat, CoresFinite, TotalNat
  <2>2. r \in Nat
    <3> DEFINE f == FMaxActive(cores)
    <3>1. f \in Nat /\ f <= f
      BY <1>2, FastestCore
    <3> HIDE DEF f
    <3> QED BY <3>1, RingMono DEF f
  <2>3. t \in Nat /\ s \in Nat
    BY WorkNat DEF Params
  <2>4. Watts(p, cores, shared, temp) = d + l + (s + r + t)
    BY <1>2, WattsIs
  <2> HIDE DEF d, l, r, t, s
  <2> QED BY <2>1, <2>2, <2>3, <2>4
<1> QED BY <1>1, <1>2

(* No core of B does less than the same core of A.                         *)
Below(A, B, n) == \A i \in 1 .. n :
    A[i][2] <= B[i][2] /\ (Active(A[i]) => A[i][1] <= B[i][1])

LEMMA BelowFastest ==
    ASSUME NEW n \in Nat, NEW A \in CoreStates(n), NEW B \in CoreStates(n),
           Below(A, B, n), ActiveCores(A) # {}
    PROVE  /\ ActiveCores(A) \in SUBSET ActiveCores(B) /\ ActiveCores(B) # {}
           /\ FMaxActive(A) \in Nat /\ FMaxActive(B) \in Nat
           /\ FMaxActive(A) <= FMaxActive(B)
<1>1. ActiveCores(A) \in SUBSET (1 .. n)
  BY DEF ActiveCores, CoreStates
<1>2. ActiveCores(A) \in SUBSET ActiveCores(B)
  <2> SUFFICES ASSUME NEW i \in ActiveCores(A) PROVE i \in ActiveCores(B)
    OBVIOUS
  <2>1. i \in 1 .. n /\ A[i][2] > 0
    BY <1>1 DEF ActiveCores, Active
  <2>2. DOMAIN B = 1 .. n /\ A[i][2] \in Nat /\ B[i][2] \in Nat
    BY <2>1 DEF CoreStates
  <2>3. A[i][2] <= B[i][2]
    BY <2>1 DEF Below
  <2> QED BY <2>1, <2>2, <2>3 DEF ActiveCores, Active
<1>3. PICK i \in ActiveCores(A) : A[i][1] = FMaxActive(A)
  BY FastestCore
<1>4. A[i][1] <= B[i][1] /\ A[i][1] \in Nat /\ B[i][1] \in Nat
  BY <1>1 DEF ActiveCores, Below, CoreStates
<1>5. B[i][1] <= FMaxActive(B)
  BY <1>2, FastestCore
<1>6. FMaxActive(A) \in Nat /\ FMaxActive(B) \in Nat
  BY <1>2, FastestCore
<1> QED BY <1>2, <1>3, <1>4, <1>5, <1>6

LEMMA BelowVoltage ==
    ASSUME NEW n \in Nat, NEW A \in CoreStates(n), NEW B \in CoreStates(n),
           Below(A, B, n), ActiveCores(A) # {}, NEW shared \in BOOLEAN, NEW i \in 1 .. n
    PROVE  RailVoltage(A, shared, i) <= RailVoltage(B, shared, i)
<1>1. CASE shared
  BY <1>1, BelowFastest, VoltageMono DEF RailVoltage
<1>2. CASE ~shared
  <2>1. A[i][1] \in Nat /\ A[i][2] \in Nat /\ B[i][1] \in Nat /\ B[i][2] \in Nat
    BY DEF CoreStates
  <2>2. CASE Active(A[i])
    <3>1. Active(B[i]) /\ A[i][1] <= B[i][1]
      BY <2>1, <2>2 DEF Below, Active
    <3> QED BY <1>2, <2>1, <2>2, <3>1, VoltageMono DEF RailVoltage
  <2>3. CASE ~Active(A[i])
    <3>1. RailVoltage(A, shared, i) = v_of_f(F_MIN)
      BY <1>2, <2>3 DEF RailVoltage
    <3> DEFINE f == IF Active(B[i]) THEN B[i][1] ELSE F_MIN
    <3>2. f \in Nat /\ RailVoltage(B, shared, i) = v_of_f(f)
      BY <1>2, <2>1 DEF RailVoltage, F_MIN
    <3> HIDE DEF f
    <3> QED BY <3>1, <3>2, VoltageFloor
  <2> QED BY <2>2, <2>3
<1> QED BY <1>1, <1>2

(* More work never takes less power, on the shared rail or on split ones.  *)
LEMMA WattsMono ==
    ASSUME NEW p \in Params, NEW temp, leak_temp_factor(temp) \in Nat,
           NEW n \in Nat, NEW A \in CoreStates(n), NEW B \in CoreStates(n),
           Below(A, B, n), ActiveCores(A) # {}, NEW shared \in BOOLEAN
    PROVE  Watts(p, A, shared, temp) <= Watts(p, B, shared, temp)
<1>1. ActiveCores(B) # {} /\ DOMAIN A = 1 .. n /\ DOMAIN B = 1 .. n
  BY BelowFastest DEF CoreStates
<1>2. ASSUME NEW i \in 1 .. n
      PROVE  /\ DynOf(p, A, shared)[i] <= DynOf(p, B, shared)[i]
             /\ LeakOf(p, A, shared, temp)[i] <= LeakOf(p, B, shared, temp)[i]
             /\ WorkOf(A)[i] <= WorkOf(B)[i]
  <2> DEFINE v == RailVoltage(A, shared, i)
             w == RailVoltage(B, shared, i)
             f == A[i][1]
             g == B[i][1]
             a == A[i][2]
             b == B[i][2]
             c == p.C_eff
             x == Active(A[i])
             y == Active(B[i])
  <2>1. /\ DynOf(p, A, shared)[i] = Dynamic(c, v, f, a)
        /\ DynOf(p, B, shared)[i] = Dynamic(c, w, g, b)
        /\ LeakOf(p, A, shared, temp)[i] = core_leakage(p, v, x, temp)
        /\ LeakOf(p, B, shared, temp)[i] = core_leakage(p, w, y, temp)
        /\ WorkOf(A)[i] = f * a /\ WorkOf(B)[i] = g * b
    BY <1>1 DEF DynOf, LeakOf, WorkOf
  <2>2. v \in Nat /\ w \in Nat /\ v <= w
    BY <1>1, RailVoltageNat, BelowVoltage
  <2>3. f \in Nat /\ g \in Nat /\ a \in Nat /\ b \in Nat /\ c \in Nat
    BY DEF CoreStates, Params
  <2>4. a <= b /\ (x => f <= g)
    BY DEF Below
  <2>5. x \in BOOLEAN /\ y \in BOOLEAN /\ (x => y) /\ (~x => a = 0)
    BY <2>3, <2>4 DEF Active
  <2> HIDE DEF v, w, f, g, a, b, c, x, y
  <2>6. core_leakage(p, v, x, temp) <= core_leakage(p, w, y, temp)
    BY <2>2, <2>5, LeakMono
  <2>7. CASE x
    <3>1. f <= g
      BY <2>4, <2>7
    <3>2. Dynamic(c, v, f, a) <= Dynamic(c, w, g, b)
      BY <2>2, <2>3, <2>4, <3>1, DynamicMono
    <3>3. f * a <= g * b
      BY <2>3, <2>4, <3>1, ProductMono
    <3> QED BY <2>1, <2>6, <3>2, <3>3
  <2>8. CASE ~x
    <3>0. a = 0
      BY <2>5, <2>8
    <3>1. Dynamic(c, v, f, a) = 0
      BY <2>2, <2>3, <3>0, DynamicIdle
    <3>2. Dynamic(c, w, g, b) \in Nat
      <4>1. w <= w /\ g <= g /\ b <= b
        BY <2>2, <2>3
      <4> QED BY <2>2, <2>3, <4>1, DynamicMono
    <3>3. f * a = 0 /\ g * b \in Nat
      BY <2>3, <3>0
    <3> QED BY <2>1, <2>6, <3>1, <3>2, <3>3
  <2> QED BY <2>7, <2>8
<1>3. /\ DynOf(p, A, shared) \in [1 .. n -> Nat] /\ DynOf(p, B, shared) \in [1 .. n -> Nat]
      /\ LeakOf(p, A, shared, temp) \in [1 .. n -> Nat]
      /\ LeakOf(p, B, shared, temp) \in [1 .. n -> Nat]
      /\ WorkOf(A) \in [1 .. n -> Nat] /\ WorkOf(B) \in [1 .. n -> Nat]
  BY <1>1, PartsNat, WorkNat
<1> DEFINE da == Total(DynOf(p, A, shared))
           db == Total(DynOf(p, B, shared))
           la == Total(LeakOf(p, A, shared, temp))
           lb == Total(LeakOf(p, B, shared, temp))
           ra == Ring(FMaxActive(A))
           rb == Ring(FMaxActive(B))
           wa == Total(WorkOf(A))
           wb == Total(WorkOf(B))
           ta == Traffic(A)
           tb == Traffic(B)
           s == p.p_sa_floor
<1>4. /\ da \in Nat /\ db \in Nat /\ la \in Nat /\ lb \in Nat /\ wa \in Nat /\ wb \in Nat
      /\ s \in Nat
  BY <1>3, CoresFinite, TotalNat DEF Params
<1>5. da <= db
  BY <1>2, <1>3, CoresFinite, TotalMono
<1>6. la <= lb
  BY <1>2, <1>3, CoresFinite, TotalMono
<1>7. wa <= wb
  BY <1>2, <1>3, CoresFinite, TotalMono
<1>8. ra \in Nat /\ rb \in Nat /\ ra <= rb
  BY BelowFastest, RingMono
<1>9. ta \in Nat /\ tb \in Nat /\ ta <= tb
  <2>1. ta = (K_TRAFFIC * wa) \div (100 * Unit) /\ tb = (K_TRAFFIC * wb) \div (100 * Unit)
    BY DEF Traffic, WorkOf
  <2> HIDE DEF wa, wb, ta, tb
  <2> QED BY <1>4, <1>7, <2>1 DEF K_TRAFFIC, Unit
<1>10. /\ Watts(p, A, shared, temp) = da + la + (s + ra + ta)
       /\ Watts(p, B, shared, temp) = db + lb + (s + rb + tb)
  BY <1>1, WattsIs
<1> HIDE DEF da, db, la, lb, ra, rb, ta, tb, s
<1> QED BY <1>4, <1>5, <1>6, <1>8, <1>9, <1>10

-----------------------------------------------------------------------------
(* Experiment B                                                            *)

(* A row is under way.                                                     *)
RowLeft == Len(rows_b) < 2 * (N_PHYS_CORES + 1)

LEMMA TurboNat ==
    ASSUME NEW n \in Nat
    PROVE  turbo_limit(n) \in Nat /\ turbo_limit(n) >= F_MIN
  BY TurboAssumption, CoreAssumption DEF turbo_limit, AtMost, F_MIN

LEMMA RowNumbers ==
    ASSUME TypeOK, RowLeft
    PROVE  /\ n_big \in 0 .. N_PHYS_CORES /\ n_little \in 0 .. N_PHYS_CORES
           /\ n_work \in 1 .. N_PHYS_CORES
           /\ f_ceiling \in Nat /\ f_ceiling >= F_MIN
           /\ f_bg \in Nat /\ f_bg > 0 /\ n_bg \in Nat /\ n_bg > 0
           /\ a_bg \in Nat /\ shared_rail \in BOOLEAN
<1> DEFINE l == Len(rows_b)
<1>1. l \in Nat /\ l < 2 * (N_PHYS_CORES + 1)
  BY DEF TypeOK, RowLeft
<1>2. n_big \in 0 .. N_PHYS_CORES
  <2>1. n_big = l \div 2
    BY DEF n_big
  <2> HIDE DEF l
  <2> QED BY <1>1, <2>1, CoreAssumption
<1>3. n_little \in 0 .. N_PHYS_CORES /\ n_work \in 1 .. N_PHYS_CORES
  BY <1>2, CoreAssumption DEF n_little, n_work
<1>4. f_ceiling \in Nat /\ f_ceiling >= F_MIN
  <2>1. turbo_limit(n_big) \in Nat /\ turbo_limit(n_big) >= F_MIN
    BY <1>2, TurboNat
  <2> QED BY <2>1 DEF f_ceiling, F_LITTLE, F_MIN
<1>5. f_bg \in Nat /\ f_bg > 0
  BY <1>4 DEF f_bg, F_LITTLE, F_MIN
<1>6. n_bg \in Nat /\ n_bg > 0
  <2>1. n_little > 0 \/ n_big > 0
    BY <1>2, CoreAssumption DEF n_little
  <2> QED BY <1>2, <1>3, <2>1 DEF n_bg, AtMost, N_LIGHT_TASKS
<1>7. a_bg \in Nat
  <2> DEFINE capacity == n_bg * f_bg * HORIZON
             need == N_LIGHT_TASKS * W_LIGHT_PER_TASK * Unit + capacity - 1
  <2>1. n_bg * f_bg \in Nat /\ n_bg * f_bg > 0
    BY <1>5, <1>6
  <2>2. capacity \in Nat /\ capacity > 0
    BY <2>1 DEF HORIZON
  <2> HIDE DEF capacity
  <2>3. need \in Nat
    BY <2>2 DEF N_LIGHT_TASKS, W_LIGHT_PER_TASK, Unit
  <2> HIDE DEF need
  <2>4. need \div capacity \in Nat
    BY <2>2, <2>3
  <2>5. a_needed = need \div capacity
    BY DEF a_needed, capacity, need
  <2> QED BY <2>4, <2>5 DEF a_bg, AtMost, Unit
<1> QED BY <1>2, <1>3, <1>4, <1>5, <1>6, <1>7 DEF shared_rail

LEMMA BackgroundType ==
    ASSUME TypeOK, RowLeft, NEW first, NEW i
    PROVE  Background(first, i) \in Nat \X Nat
  BY RowNumbers DEF Background, Idle, F_MIN

LEMMA PhasesType ==
    ASSUME TypeOK, RowLeft, NEW f \in Nat
    PROVE  /\ Phase1(f) \in CoreStates(N_PHYS_CORES)
           /\ Phase2 \in CoreStates(N_PHYS_CORES)
           /\ ActiveCores(Phase1(f)) # {}
<1>1. ASSUME NEW i \in 1 .. N_PHYS_CORES
      PROVE  (IF i <= n_work THEN <<f, Unit>> ELSE Background(n_work + 1, i)) \in Nat \X Nat
  BY BackgroundType DEF Unit
<1>2. Phase1(f) \in CoreStates(N_PHYS_CORES)
  BY <1>1 DEF Phase1, CoreStates
<1>3. Phase2 \in CoreStates(N_PHYS_CORES)
  BY BackgroundType DEF Phase2, CoreStates
<1>4. 1 \in 1 .. N_PHYS_CORES /\ 1 <= n_work
  BY RowNumbers, CoreAssumption
<1>5. Phase1(f)[1] = <<f, Unit>>
  BY <1>4 DEF Phase1
<1>6. 1 \in ActiveCores(Phase1(f))
  <2>1. 1 \in DOMAIN Phase1(f)
    BY <1>4 DEF Phase1
  <2> QED BY <2>1, <1>5 DEF ActiveCores, Active, Unit
<1> QED BY <1>2, <1>3, <1>6

(* The cores freq_under_power_cap is given are the cores of the row.       *)
LEMMA CandidateIsPhase1 ==
    ASSUME TypeOK, RowLeft, NEW f \in Nat
    PROVE  Candidate(f) = Phase1(f)
<1> DEFINE w == n_work
           s == Copies(w, <<f, Unit>>)
           m == N_PHYS_CORES - w
           t == [i \in 1 .. m |-> Background(1, i)]
           T == Nat \X Nat
<1>1. w \in Nat /\ w >= 1 /\ w <= N_PHYS_CORES /\ N_PHYS_CORES \in Nat /\ n_bg \in Nat
  BY RowNumbers, CoreAssumption
<1>2. s \in Seq(T) /\ Len(s) = w /\ \A i \in 1 .. w : s[i] = <<f, Unit>>
  BY <1>1 DEF Copies, Unit
<1>3. m \in Nat
  BY <1>1
<1>4. t \in Seq(T) /\ Len(t) = m /\ \A i \in 1 .. m : t[i] = Background(1, i)
  <2> HIDE DEF m
  <2>1. t \in [1 .. m -> T]
    BY BackgroundType
  <2> QED BY <1>3, <2>1
<1>5. Candidate(f) = s \o t
  BY DEF Candidate
<1> HIDE DEF s, t
<1>6. /\ s \o t \in Seq(T) /\ Len(s \o t) = N_PHYS_CORES
      /\ DOMAIN (s \o t) = 1 .. N_PHYS_CORES
      /\ \A i \in 1 .. N_PHYS_CORES : (s \o t)[i] = IF i <= w THEN s[i] ELSE t[i - w]
  <2>1. /\ s \o t \in Seq(T) /\ Len(s \o t) = Len(s) + Len(t)
        /\ \A i \in 1 .. Len(s) + Len(t) :
             (s \o t)[i] = IF i <= Len(s) THEN s[i] ELSE t[i - Len(s)]
    <3> HIDE DEF T
    <3> QED BY <1>2, <1>4, ConcatProperties
  <2>3. Len(s) = w /\ Len(s) + Len(t) = N_PHYS_CORES /\ w + m = N_PHYS_CORES
    BY <1>1, <1>2, <1>4
  <2>4. DOMAIN (s \o t) = 1 .. Len(s \o t)
    BY <2>1
  <2> QED BY <2>1, <2>3, <2>4
<1>7. ASSUME NEW i \in 1 .. N_PHYS_CORES
      PROVE  (s \o t)[i] = Phase1(f)[i]
  <2>1. Phase1(f)[i] = IF i <= w THEN <<f, Unit>> ELSE Background(w + 1, i)
    BY DEF Phase1
  <2>2. CASE i <= w
    BY <1>1, <1>2, <1>6, <2>1, <2>2
  <2>3. CASE ~(i <= w)
    <3>1. i - w \in 1 .. m /\ i \in Nat
      BY <1>1, <2>3
    <3>2. i - w \in 1 .. 1 + n_bg - 1 <=> i \in w + 1 .. (w + 1) + n_bg - 1
      BY <1>1, <2>3, <3>1
    <3>3. Background(1, i - w) = Background(w + 1, i)
      BY <3>2 DEF Background
    <3> QED BY <1>4, <1>6, <2>1, <2>3, <3>1, <3>3
  <2> QED BY <2>2, <2>3
<1>8. DOMAIN Phase1(f) = 1 .. N_PHYS_CORES /\ Phase1(f) \in [1 .. N_PHYS_CORES -> T]
  BY PhasesType DEF CoreStates
<1> DEFINE u == s \o t
           q == Phase1(f)
<1>9. /\ u \in Seq(T) /\ DOMAIN u = 1 .. N_PHYS_CORES
      /\ DOMAIN q = 1 .. N_PHYS_CORES /\ q \in [1 .. N_PHYS_CORES -> T]
      /\ \A i \in 1 .. N_PHYS_CORES : u[i] = q[i]
  BY <1>6, <1>7, <1>8
<1> HIDE DEF u, q, T
<1>10. u = q
  <2>1. u = [i \in DOMAIN u |-> u[i]]
    BY <1>9
  <2>2. q = [i \in DOMAIN q |-> q[i]]
    BY <1>9
  <2> QED BY <1>9, <2>1, <2>2
<1> QED BY <1>5, <1>10 DEF u, q

(* What every search under the cap relies on: the power of the row does    *)
(* not fall with the frequency of the compile.                             *)
LEMMA CapPower ==
    ASSUME TypeOK, RowLeft, NEW f \in Nat, NEW g \in Nat, f <= g
    PROVE  /\ p_at(f) = Watts(params, Phase1(f), shared_rail, args.temp_c)
           /\ p_at(f) \in Nat /\ p_at(g) \in Nat /\ p_at(f) <= p_at(g)
<1> DEFINE n == N_PHYS_CORES
           A == Phase1(f)
           B == Phase1(g)
<1>1. params \in Params /\ leak_temp_factor(args.temp_c) \in Nat
  BY TempAssumption DEF TypeOK, Params
<1>2. n \in Nat /\ A \in CoreStates(n) /\ B \in CoreStates(n) /\ ActiveCores(A) # {}
  BY PhasesType, CoreAssumption
<1>3. shared_rail \in BOOLEAN
  BY RowNumbers
<1>4. ASSUME NEW i \in 1 .. n
      PROVE  A[i][2] <= B[i][2] /\ (Active(A[i]) => A[i][1] <= B[i][1])
  <2>1. CASE i <= n_work
    <3>1. A[i] = <<f, Unit>> /\ B[i] = <<g, Unit>>
      BY <2>1 DEF Phase1
    <3> QED BY <3>1 DEF Unit
  <2>2. CASE ~(i <= n_work)
    <3>1. A[i] = Background(n_work + 1, i) /\ B[i] = A[i]
      BY <2>2 DEF Phase1
    <3>2. A[i] \in Nat \X Nat
      BY <3>1, BackgroundType
    <3> QED BY <3>1, <3>2
  <2> QED BY <2>1, <2>2
<1>5. Below(A, B, n)
  BY <1>4 DEF Below
<1>6. p_at(f) = Watts(params, A, shared_rail, args.temp_c)
  BY CandidateIsPhase1 DEF p_at
<1>7. p_at(g) = Watts(params, B, shared_rail, args.temp_c)
  BY CandidateIsPhase1 DEF p_at
<1> HIDE DEF A, B, n
<1>8. /\ Watts(params, A, shared_rail, args.temp_c) \in Nat
      /\ Watts(params, B, shared_rail, args.temp_c) \in Nat
  BY <1>1, <1>2, <1>3, WattsNat
<1>9. Watts(params, A, shared_rail, args.temp_c) <= Watts(params, B, shared_rail, args.temp_c)
  BY <1>1, <1>2, <1>3, <1>5, WattsMono
<1> QED BY <1>6, <1>7, <1>8, <1>9 DEF A

LEMMA RowType ==
    ASSUME TypeOK, RowLeft
    PROVE  Row \in [n_big : Nat, shared : BOOLEAN, f_work : Nat, f_bg : Nat, a_bg : Nat,
                    t_compile : Nat, feasible : BOOLEAN, p1 : Nat, p2 : Nat, energy : Nat]
<1> DEFINE p1 == Watts(params, Phase1(lo), shared_rail, args.temp_c)
           p2 == Watts(params, Phase2, shared_rail, args.temp_c)
           work == n_work * lo
           t == (W_COMPILE * 1000) \div work
           t2 == AtLeast(HORIZON * 1000 - t, 0)
<1>1. params \in Params /\ leak_temp_factor(args.temp_c) \in Nat /\ lo \in Nat /\ lo >= F_MIN
  BY TempAssumption DEF TypeOK, Params
<1>2. p1 \in Nat /\ p2 \in Nat
  BY <1>1, PhasesType, RowNumbers, WattsNat, CoreAssumption
<1>3. work \in Nat /\ work > 0
  <2>1. n_work \in Nat /\ n_work > 0 /\ lo > 0
    BY <1>1, RowNumbers DEF F_MIN
  <2> QED BY <1>1, <2>1
<1>4. t \in Nat
  <2> HIDE DEF work
  <2> QED BY <1>3 DEF W_COMPILE
<1>5. t2 \in Nat
  <2> HIDE DEF t
  <2> QED BY <1>4 DEF AtLeast, HORIZON
<1> DEFINE fe == t <= HORIZON * 1000
           en == Energy(p1, t) + Energy(p2, t2)
<1>6. fe \in BOOLEAN
  OBVIOUS
<1>7. en \in Nat
  <2> HIDE DEF p1, p2, t, t2
  <2>1. t \div 10 \in Nat /\ t2 \div 10 \in Nat
    BY <1>4, <1>5
  <2>2. p1 * (t \div 10) \in Nat /\ p2 * (t2 \div 10) \in Nat
    BY <1>2, <2>1
  <2>3. (p1 * (t \div 10)) \div 100 \in Nat /\ (p2 * (t2 \div 10)) \div 100 \in Nat
    <3> DEFINE x == p1 * (t \div 10)
               y == p2 * (t2 \div 10)
    <3> HIDE DEF x, y
    <3>1. x \in Nat /\ y \in Nat
      BY <2>2 DEF x, y
    <3>2. x \div 100 \in Nat /\ y \div 100 \in Nat
      BY <3>1
    <3> QED BY <3>2 DEF x, y
  <2> QED BY <2>3 DEF Energy
<1>8. Row = [n_big |-> n_big, shared |-> shared_rail, f_work |-> lo, f_bg |-> f_bg,
             a_bg |-> a_bg, t_compile |-> t, feasible |-> fe, p1 |-> p1, p2 |-> p2,
             energy |-> en]
  BY DEF Row
<1>9. n_big \in Nat /\ shared_rail \in BOOLEAN /\ f_bg \in Nat /\ a_bg \in Nat
  BY RowNumbers
<1> HIDE DEF p1, p2, t, fe, en
<1> QED BY <1>1, <1>2, <1>4, <1>6, <1>7, <1>8, <1>9

-----------------------------------------------------------------------------
(* Experiment A                                                            *)

RowA(n) ==
    [shared |-> Marginal(n, args.f_little, TRUE),
     split |-> Marginal(n, args.f_little, FALSE),
     no_partition |-> Marginal(n, F_BIG, TRUE)]

Threads(n, core) == {k \in 0 .. n - 1 : CoreOfThread(k) = core}

LEMMA ThreadsFinite ==
    ASSUME NEW n \in Nat, NEW core
    PROVE  IsFiniteSet(Threads(n, core)) /\ Cardinality(Threads(n, core)) \in Nat
<1>1. IsFiniteSet(0 .. n - 1)
  BY FS_Interval
<1>2. Threads(n, core) \in SUBSET (0 .. n - 1)
  BY DEF Threads
<1> QED BY <1>1, <1>2, FS_Subset, FS_CardinalityType

LEMMA LightMono ==
    ASSUME TypeOK, ArgsOk, NEW m \in Nat, NEW n \in Nat, m <= n, NEW core
    PROVE  /\ LightActivity(m, core) \in Nat /\ LightActivity(n, core) \in Nat
           /\ LightActivity(m, core) <= LightActivity(n, core)
<1> DEFINE a == args.light_activity
           b == Cardinality(Threads(m, core))
           c == Cardinality(Threads(n, core))
<1>1. a \in Nat
  BY ArgsAssumption DEF ArgsOk, TypeOK
<1>2. b \in Nat /\ c \in Nat /\ b <= c
  <2>1. Threads(m, core) \in SUBSET Threads(n, core)
    BY DEF Threads
  <2> QED BY <2>1, ThreadsFinite, FS_Subset
<1>3. /\ LightActivity(m, core) = AtMost(Unit, a * b)
      /\ LightActivity(n, core) = AtMost(Unit, a * c)
  BY DEF LightActivity, Threads
<1> HIDE DEF a, b, c
<1>4. a * b \in Nat /\ a * c \in Nat /\ a * b <= a * c
  BY <1>1, <1>2
<1> QED BY <1>3, <1>4 DEF AtMost, Unit

LEMMA NoLight ==
    ASSUME TypeOK, ArgsOk, NEW core
    PROVE  LightActivity(0, core) = 0
<1>1. Threads(0, core) = {}
  BY DEF Threads
<1>2. Cardinality(Threads(0, core)) = 0
  BY <1>1, FS_EmptySet
<1>3. args.light_activity \in Int
  BY ArgsAssumption DEF TypeOK
<1>4. args.light_activity * 0 = 0
  BY <1>3
<1>5. LightActivity(0, core) = AtMost(Unit, args.light_activity * 0)
  BY <1>2 DEF LightActivity, Threads
<1> QED BY <1>4, <1>5 DEF AtMost, Unit

LEMMA BigCore == F_BIG \in Nat
  BY TurboNat DEF F_BIG

(* A core of WithLight.                                                    *)
LEMMA LightCore ==
    ASSUME NEW n, NEW f, NEW i \in 1 .. N_PHYS_CORES
    PROVE  /\ i = 1 => WithLight(n, f)[i] = <<F_BIG, Unit>>
           /\ i # 1 => WithLight(n, f)[i] =
                IF LightActivity(n, i - 1) > 0 THEN <<f, LightActivity(n, i - 1)>> ELSE Idle
  BY DEF WithLight

LEMMA WithLightType ==
    ASSUME TypeOK, ArgsOk, NEW n \in Nat, NEW f \in Nat
    PROVE  /\ WithLight(n, f) \in CoreStates(N_PHYS_CORES)
           /\ ActiveCores(WithLight(n, f)) # {}
<1>1. ASSUME NEW i \in 1 .. N_PHYS_CORES
      PROVE  (IF i = 1 THEN <<F_BIG, Unit>>
              ELSE IF LightActivity(n, i - 1) > 0 THEN <<f, LightActivity(n, i - 1)>>
              ELSE Idle) \in Nat \X Nat
  <2>1. LightActivity(n, i - 1) \in Nat
    BY LightMono
  <2> QED BY <2>1, BigCore DEF Idle, F_MIN, Unit
<1>2. WithLight(n, f) \in CoreStates(N_PHYS_CORES)
  BY <1>1 DEF WithLight, CoreStates
<1>3. 1 \in 1 .. N_PHYS_CORES
  BY CoreAssumption
<1>4. 1 \in ActiveCores(WithLight(n, f))
  <2>1. WithLight(n, f)[1] = <<F_BIG, Unit>>
    BY <1>3, LightCore
  <2>2. DOMAIN WithLight(n, f) = 1 .. N_PHYS_CORES
    BY DEF WithLight
  <2> QED BY <1>3, <2>1, <2>2 DEF ActiveCores, Active, Unit
<1> QED BY <1>2, <1>4

(* One light thread more, or a higher frequency of them all.               *)
LEMMA LightBelow ==
    ASSUME TypeOK, ArgsOk, NEW m \in Nat, NEW n \in Nat, m <= n,
           NEW f \in Nat, NEW g \in Nat, f <= g
    PROVE  Below(WithLight(m, f), WithLight(n, g), N_PHYS_CORES)
<1> DEFINE A == WithLight(m, f)
           B == WithLight(n, g)
<1>1. ASSUME NEW i \in 1 .. N_PHYS_CORES
      PROVE  A[i][2] <= B[i][2] /\ (Active(A[i]) => A[i][1] <= B[i][1])
  <2>1. CASE i = 1
    <3>1. A[i] = <<F_BIG, Unit>> /\ B[i] = <<F_BIG, Unit>>
      BY <2>1, LightCore
    <3> HIDE DEF A, B
    <3> QED BY <3>1, BigCore DEF Unit
  <2>2. CASE i # 1
    <3> DEFINE a == LightActivity(m, i - 1)
               b == LightActivity(n, i - 1)
    <3>1. a \in Nat /\ b \in Nat /\ a <= b
      BY LightMono
    <3>2. /\ A[i] = IF a > 0 THEN <<f, a>> ELSE Idle
          /\ B[i] = IF b > 0 THEN <<g, b>> ELSE Idle
      BY <2>2, LightCore
    <3> HIDE DEF A, B, a, b
    <3> QED BY <3>1, <3>2 DEF Active, Idle, F_MIN
  <2> QED BY <2>1, <2>2
<1> QED BY <1>1 DEF Below

(* Without light threads their frequency does not matter.                  *)
LEMMA NoLightSame ==
    ASSUME TypeOK, ArgsOk, NEW f, NEW g
    PROVE  WithLight(0, f) = WithLight(0, g)
<1>1. \A i \in 1 .. N_PHYS_CORES : ~(LightActivity(0, i - 1) > 0)
  BY NoLight
<1> QED BY <1>1 DEF WithLight

(* The threads after 2 * N_FREE land on the big core.                      *)
LEMMA SiblingOfBig ==
    ASSUME NEW n \in Nat, n > 2 * N_FREE, n > 1, NEW f
    PROVE  WithLight(n, f) = WithLight(n - 1, f)
<1>0. N_FREE \in Nat
  BY CoreAssumption DEF N_FREE
<1>1. ASSUME NEW core \in Nat \ {0}
      PROVE  Threads(n, core) = Threads(n - 1, core)
  <2>1. CoreOfThread(n - 1) = 0
    BY <1>0 DEF CoreOfThread
  <2>2. 0 .. n - 1 = (0 .. (n - 1) - 1) \cup {n - 1}
    OBVIOUS
  <2> QED BY <2>1, <2>2 DEF Threads
<1>2. ASSUME NEW i \in 1 .. N_PHYS_CORES, i # 1
      PROVE  LightActivity(n, i - 1) = LightActivity(n - 1, i - 1)
  <2>1. i - 1 \in Nat \ {0}
    BY <1>2
  <2>2. Threads(n, i - 1) = Threads(n - 1, i - 1)
    BY <2>1, <1>1
  <2>3. /\ LightActivity(n, i - 1) =
             AtMost(Unit, args.light_activity * Cardinality(Threads(n, i - 1)))
        /\ LightActivity(n - 1, i - 1) =
             AtMost(Unit, args.light_activity * Cardinality(Threads(n - 1, i - 1)))
    BY DEF LightActivity, Threads
  <2> QED BY <2>2, <2>3
<1> QED BY <1>2 DEF WithLight

LEMMA LightWatts ==
    ASSUME TypeOK, ArgsOk, NEW n \in Nat, NEW f \in Nat, NEW shared \in BOOLEAN
    PROVE  /\ Watts(params, WithLight(n, f), shared, args.temp_c) \in Nat
           /\ Marginal(n, f, shared) \in Int
<1>1. params \in Params /\ leak_temp_factor(args.temp_c) \in Nat /\ N_PHYS_CORES \in Nat
  BY TempAssumption, CoreAssumption DEF TypeOK, Params
<1>2. ASSUME NEW k \in Nat PROVE Watts(params, WithLight(k, f), shared, args.temp_c) \in Nat
  BY <1>1, WithLightType, WattsNat
<1> QED BY <1>2 DEF Marginal

LEMMA MarginalMono ==
    ASSUME TypeOK, ArgsOk, NEW m \in Nat, NEW n \in Nat, m <= n,
           NEW f \in Nat, NEW g \in Nat, f <= g, NEW shared \in BOOLEAN
    PROVE  Marginal(m, f, shared) <= Marginal(n, g, shared)
<1> DEFINE W(k, h) == Watts(params, WithLight(k, h), shared, args.temp_c)
<1>1. params \in Params /\ leak_temp_factor(args.temp_c) \in Nat /\ N_PHYS_CORES \in Nat
  BY TempAssumption, CoreAssumption DEF TypeOK, Params
<1>2. /\ WithLight(m, f) \in CoreStates(N_PHYS_CORES)
      /\ WithLight(n, g) \in CoreStates(N_PHYS_CORES)
      /\ ActiveCores(WithLight(m, f)) # {}
  BY WithLightType
<1>3. Below(WithLight(m, f), WithLight(n, g), N_PHYS_CORES)
  BY LightBelow
<1>4. W(m, f) <= W(n, g)
  BY <1>1, <1>2, <1>3, WattsMono
<1>5. W(0, f) = W(0, g)
  BY NoLightSame
<1>6. W(m, f) \in Nat /\ W(n, g) \in Nat /\ W(0, f) \in Nat
  BY LightWatts
<1>7. Marginal(m, f, shared) = W(m, f) - W(0, f) /\ Marginal(n, g, shared) = W(n, g) - W(0, g)
  BY DEF Marginal
<1> HIDE DEF W
<1> QED BY <1>4, <1>5, <1>6, <1>7

LEMMA LightFastest ==
    ASSUME TypeOK, ArgsOk, NEW n \in Nat, NEW f \in Nat, f <= F_BIG
    PROVE  FMaxActive(WithLight(n, f)) = F_BIG
<1> DEFINE A == WithLight(n, f)
           N == N_PHYS_CORES
<1>1. N \in Nat /\ 1 \in 1 .. N /\ A \in CoreStates(N) /\ ActiveCores(A) # {}
  BY CoreAssumption, WithLightType
<1>2. A[1] = <<F_BIG, Unit>> /\ 1 \in ActiveCores(A)
  <2>1. A[1] = <<F_BIG, Unit>>
    BY <1>1, LightCore
  <2>2. DOMAIN A = 1 .. N
    BY DEF WithLight
  <2> QED BY <1>1, <2>1, <2>2 DEF ActiveCores, Active, Unit
<1>3. ASSUME NEW i \in ActiveCores(A) PROVE A[i][1] <= F_BIG
  <2>1. i \in 1 .. N /\ Active(A[i])
    BY DEF ActiveCores, WithLight
  <2>2. CASE i = 1
    BY <1>2, <2>2, BigCore
  <2>3. CASE i # 1
    <3>1. A[i] = IF LightActivity(n, i - 1) > 0 THEN <<f, LightActivity(n, i - 1)>> ELSE Idle
      BY <2>1, <2>3, LightCore
    <3>2. ~Active(Idle)
      BY DEF Active, Idle
    <3>3. A[i] = <<f, LightActivity(n, i - 1)>>
      BY <2>1, <3>1, <3>2
    <3> HIDE DEF A
    <3> QED BY <3>3
  <2> QED BY <2>2, <2>3
<1>4. /\ FMaxActive(A) \in Nat
      /\ \E i \in ActiveCores(A) : A[i][1] = FMaxActive(A)
      /\ \A i \in ActiveCores(A) : A[i][1] <= FMaxActive(A)
  <2> HIDE DEF A
  <2> QED BY <1>1, FastestCore
<1>5. FMaxActive(A) <= F_BIG
  BY <1>3, <1>4
<1>6. F_BIG <= FMaxActive(A)
  <2>1. A[1][1] = F_BIG
    BY <1>2
  <2> QED BY <1>2, <1>4, <2>1
<1> QED BY <1>4, <1>5, <1>6, BigCore

(* The comparison of the rails, core by core: a core that the light        *)
(* threads leave alone pays the same on both; one that wakes up for them   *)
(* switches at a lower voltage on its own rail, and what it leaks is the   *)
(* condition of SplitLeaksLess.                                            *)
Cheaper(p, A, Z, temp, i) ==
    /\ DynOf(p, A, FALSE)[i] + DynOf(p, Z, TRUE)[i]
         <= DynOf(p, Z, FALSE)[i] + DynOf(p, A, TRUE)[i]
    /\ LeakOf(p, A, FALSE, temp)[i] + LeakOf(p, Z, TRUE, temp)[i]
         <= LeakOf(p, Z, FALSE, temp)[i] + LeakOf(p, A, TRUE, temp)[i]

LeaksLess(p, f, top, temp) ==
    core_leakage(p, v_of_f(f), TRUE, temp) - core_leakage(p, v_of_f(F_MIN), FALSE, temp)
      <= core_leakage(p, v_of_f(top), TRUE, temp) - core_leakage(p, v_of_f(top), FALSE, temp)

LEMMA LeakNat ==
    ASSUME NEW p \in Params, NEW temp, leak_temp_factor(temp) \in Nat,
           NEW v \in Nat, NEW x \in BOOLEAN
    PROVE  core_leakage(p, v, x, temp) \in Nat
<1>1. v <= v /\ (x => x)
  OBVIOUS
<1> QED BY <1>1, LeakMono

LEMMA CheaperAlone ==
    ASSUME NEW p \in Params, NEW temp, leak_temp_factor(temp) \in Nat, NEW n \in Nat,
           NEW A \in CoreStates(n), ActiveCores(A) # {},
           NEW Z \in CoreStates(n), ActiveCores(Z) # {},
           FMaxActive(A) = FMaxActive(Z), NEW i \in 1 .. n, A[i] = Z[i]
    PROVE  Cheaper(p, A, Z, temp, i)
<1>1. DOMAIN A = 1 .. n /\ DOMAIN Z = 1 .. n
  BY DEF CoreStates
<1>2. /\ RailVoltage(A, FALSE, i) = RailVoltage(Z, FALSE, i)
      /\ RailVoltage(A, TRUE, i) = RailVoltage(Z, TRUE, i)
  BY DEF RailVoltage
<1>3. /\ DynOf(p, A, FALSE)[i] = DynOf(p, Z, FALSE)[i]
      /\ DynOf(p, A, TRUE)[i] = DynOf(p, Z, TRUE)[i]
      /\ LeakOf(p, A, FALSE, temp)[i] = LeakOf(p, Z, FALSE, temp)[i]
      /\ LeakOf(p, A, TRUE, temp)[i] = LeakOf(p, Z, TRUE, temp)[i]
  BY <1>1, <1>2 DEF DynOf, LeakOf
<1> DEFINE da == DynOf(p, A, FALSE)
           db == DynOf(p, Z, TRUE)
           la == LeakOf(p, A, FALSE, temp)
           lb == LeakOf(p, Z, TRUE, temp)
<1>4. /\ da \in [1 .. n -> Nat] /\ db \in [1 .. n -> Nat]
      /\ la \in [1 .. n -> Nat] /\ lb \in [1 .. n -> Nat]
  BY PartsNat
<1>5. /\ Cheaper(p, A, Z, temp, i) <=> da[i] + db[i] <= da[i] + db[i] /\ la[i] + lb[i] <= la[i] + lb[i]
  BY <1>3 DEF Cheaper
<1> HIDE DEF da, db, la, lb
<1>6. da[i] \in Nat /\ db[i] \in Nat /\ la[i] \in Nat /\ lb[i] \in Nat
  BY <1>4
<1> QED BY <1>5, <1>6

LEMMA CheaperAwake ==
    ASSUME NEW p \in Params, NEW temp, leak_temp_factor(temp) \in Nat, NEW n \in Nat,
           NEW A \in CoreStates(n), NEW Z \in CoreStates(n), NEW top \in Nat,
           FMaxActive(A) = top, FMaxActive(Z) = top, NEW f \in Nat, f <= top,
           NEW a \in Nat \ {0}, NEW i \in 1 .. n, A[i] = <<f, a>>, Z[i] = Idle,
           LeaksLess(p, f, top, temp)
    PROVE  Cheaper(p, A, Z, temp, i)
<1>1. DOMAIN A = 1 .. n /\ DOMAIN Z = 1 .. n
  BY DEF CoreStates
<1>2. /\ A[i][1] = f /\ A[i][2] = a /\ Active(A[i]) = TRUE
      /\ Z[i][1] = F_MIN /\ Z[i][2] = 0 /\ Active(Z[i]) = FALSE
  BY DEF Active, Idle
<1>3. /\ RailVoltage(A, FALSE, i) = v_of_f(f) /\ RailVoltage(Z, FALSE, i) = v_of_f(F_MIN)
      /\ RailVoltage(A, TRUE, i) = v_of_f(top) /\ RailVoltage(Z, TRUE, i) = v_of_f(top)
  BY <1>2 DEF RailVoltage
<1> DEFINE v == v_of_f(f)
           w == v_of_f(top)
           u == v_of_f(F_MIN)
           c == p.C_eff
<1>4. v \in Nat /\ w \in Nat /\ u \in Nat /\ v <= w /\ c \in Nat
  BY VoltageNat, VoltageMono DEF Params, F_MIN
<1>5. /\ DynOf(p, A, FALSE)[i] = Dynamic(c, v, f, a)
      /\ DynOf(p, A, TRUE)[i] = Dynamic(c, w, f, a)
      /\ DynOf(p, Z, FALSE)[i] = Dynamic(c, u, F_MIN, 0)
      /\ DynOf(p, Z, TRUE)[i] = Dynamic(c, w, F_MIN, 0)
  BY <1>1, <1>2, <1>3 DEF DynOf
<1>6. /\ LeakOf(p, A, FALSE, temp)[i] = core_leakage(p, v, TRUE, temp)
      /\ LeakOf(p, A, TRUE, temp)[i] = core_leakage(p, w, TRUE, temp)
      /\ LeakOf(p, Z, FALSE, temp)[i] = core_leakage(p, u, FALSE, temp)
      /\ LeakOf(p, Z, TRUE, temp)[i] = core_leakage(p, w, FALSE, temp)
  BY <1>1, <1>2, <1>3 DEF LeakOf
<1>7. core_leakage(p, v, TRUE, temp) - core_leakage(p, u, FALSE, temp)
        <= core_leakage(p, w, TRUE, temp) - core_leakage(p, w, FALSE, temp)
  BY DEF LeaksLess
<1> HIDE DEF v, w, u, c
<1>8. /\ core_leakage(p, v, TRUE, temp) \in Nat /\ core_leakage(p, w, TRUE, temp) \in Nat
      /\ core_leakage(p, u, FALSE, temp) \in Nat /\ core_leakage(p, w, FALSE, temp) \in Nat
  BY <1>4, LeakNat
<1>9. /\ Dynamic(c, v, f, a) \in Nat /\ Dynamic(c, w, f, a) \in Nat
      /\ Dynamic(c, v, f, a) <= Dynamic(c, w, f, a)
  <2>1. f <= f /\ a <= a /\ a \in Nat
    OBVIOUS
  <2> QED BY <1>4, <2>1, DynamicMono
<1>10. Dynamic(c, u, F_MIN, 0) = 0 /\ Dynamic(c, w, F_MIN, 0) = 0
  <2>1. F_MIN \in Nat
    BY DEF F_MIN
  <2> QED BY <1>4, <2>1, DynamicIdle
<1> DEFINE d == Dynamic(c, v, f, a)
           e == Dynamic(c, w, f, a)
           lv == core_leakage(p, v, TRUE, temp)
           lw == core_leakage(p, w, TRUE, temp)
           lu == core_leakage(p, u, FALSE, temp)
           li == core_leakage(p, w, FALSE, temp)
<1>11. Cheaper(p, A, Z, temp, i) <=> d + 0 <= 0 + e /\ lv + li <= lu + lw
  BY <1>5, <1>6, <1>10 DEF Cheaper
<1> HIDE DEF d, e, lv, lw, lu, li
<1>12. lv - lu <= lw - li /\ d <= e
  BY <1>7, <1>9 DEF d, e, lv, lw, lu, li
<1>13. /\ d \in Nat /\ e \in Nat /\ lv \in Nat /\ lw \in Nat /\ lu \in Nat /\ li \in Nat
  BY <1>8, <1>9 DEF d, e, lv, lw, lu, li
<1> QED BY <1>11, <1>12, <1>13

LEMMA Balance ==
    ASSUME NEW a \in Nat, NEW b \in Nat, NEW c \in Nat, NEW d \in Nat, a + b <= c + d,
           NEW k \in Nat, NEW l \in Nat, NEW m \in Nat, NEW o \in Nat, k + l <= m + o,
           NEW u \in Nat, NEW z \in Nat
    PROVE  (a + k + u) - (c + m + z) <= (d + o + u) - (b + l + z)
  OBVIOUS

LEMMA CheaperInAll ==
    ASSUME NEW p \in Params, NEW temp, leak_temp_factor(temp) \in Nat, NEW n \in Nat,
           NEW A \in CoreStates(n), ActiveCores(A) # {},
           NEW Z \in CoreStates(n), ActiveCores(Z) # {},
           FMaxActive(A) = FMaxActive(Z), \A i \in 1 .. n : Cheaper(p, A, Z, temp, i)
    PROVE  Watts(p, A, FALSE, temp) - Watts(p, Z, FALSE, temp)
             <= Watts(p, A, TRUE, temp) - Watts(p, Z, TRUE, temp)
<1> DEFINE da == DynOf(p, A, FALSE)
           db == DynOf(p, Z, TRUE)
           dc == DynOf(p, Z, FALSE)
           dd == DynOf(p, A, TRUE)
           la == LeakOf(p, A, FALSE, temp)
           lb == LeakOf(p, Z, TRUE, temp)
           lc == LeakOf(p, Z, FALSE, temp)
           ld == LeakOf(p, A, TRUE, temp)
           ua == p.p_sa_floor + Ring(FMaxActive(A)) + Traffic(A)
           uz == p.p_sa_floor + Ring(FMaxActive(Z)) + Traffic(Z)
<1>1. /\ da \in [1 .. n -> Nat] /\ db \in [1 .. n -> Nat]
      /\ dc \in [1 .. n -> Nat] /\ dd \in [1 .. n -> Nat]
      /\ la \in [1 .. n -> Nat] /\ lb \in [1 .. n -> Nat]
      /\ lc \in [1 .. n -> Nat] /\ ld \in [1 .. n -> Nat]
  BY PartsNat
<1>2. \A i \in 1 .. n : da[i] + db[i] <= dc[i] + dd[i]
  BY DEF Cheaper
<1>3. \A i \in 1 .. n : la[i] + lb[i] <= lc[i] + ld[i]
  BY DEF Cheaper
<1>4. ua \in Nat /\ uz \in Nat
  <2>1. FMaxActive(A) \in Nat /\ FMaxActive(Z) \in Nat
    BY FastestCore
  <2>2. Ring(FMaxActive(A)) \in Nat
    <3>1. FMaxActive(A) <= FMaxActive(A)
      BY <2>1
    <3> QED BY <2>1, <3>1, RingMono
  <2>3. Traffic(A) \in Nat /\ Traffic(Z) \in Nat /\ p.p_sa_floor \in Nat
    BY WorkNat DEF Params
  <2>4. Ring(FMaxActive(Z)) \in Nat
    BY <2>2
  <2> QED BY <2>2, <2>3, <2>4
<1>5. /\ Watts(p, A, FALSE, temp) = Total(da) + Total(la) + ua
      /\ Watts(p, Z, TRUE, temp) = Total(db) + Total(lb) + uz
      /\ Watts(p, Z, FALSE, temp) = Total(dc) + Total(lc) + uz
      /\ Watts(p, A, TRUE, temp) = Total(dd) + Total(ld) + ua
  BY WattsIs
<1> HIDE DEF da, db, dc, dd, la, lb, lc, ld, ua, uz
<1>6. Total(da) + Total(db) <= Total(dc) + Total(dd)
  BY <1>1, <1>2, CoresFinite, TotalCompare
<1>7. Total(la) + Total(lb) <= Total(lc) + Total(ld)
  BY <1>1, <1>3, CoresFinite, TotalCompare
<1>8. /\ Total(da) \in Nat /\ Total(db) \in Nat /\ Total(dc) \in Nat /\ Total(dd) \in Nat
      /\ Total(la) \in Nat /\ Total(lb) \in Nat /\ Total(lc) \in Nat /\ Total(ld) \in Nat
  BY <1>1, CoresFinite, TotalNat
<1>9. (Total(da) + Total(la) + ua) - (Total(dc) + Total(lc) + uz)
        <= (Total(dd) + Total(ld) + ua) - (Total(db) + Total(lb) + uz)
  BY <1>4, <1>6, <1>7, <1>8, Balance
<1> QED BY <1>5, <1>9

LEMMA SplitIsCheaper ==
    ASSUME TypeOK, ArgsOk, args.f_little <= F_BIG, SplitLeaksLess, NEW n \in Nat
    PROVE  Marginal(n, args.f_little, FALSE) <= Marginal(n, args.f_little, TRUE)
<1> DEFINE f == args.f_little
           temp == args.temp_c
           A == WithLight(n, f)
           Z == WithLight(0, f)
<1>0. /\ f \in Nat /\ N_PHYS_CORES \in Nat /\ F_BIG \in Nat /\ f <= F_BIG /\ 0 \in Nat
      /\ params \in Params /\ leak_temp_factor(temp) \in Nat
  BY ArgsAssumption, TempAssumption, CoreAssumption, BigCore DEF TypeOK, Params
<1>1. /\ A \in CoreStates(N_PHYS_CORES) /\ ActiveCores(A) # {} /\ FMaxActive(A) = F_BIG
      /\ Z \in CoreStates(N_PHYS_CORES) /\ ActiveCores(Z) # {} /\ FMaxActive(Z) = F_BIG
  BY <1>0, WithLightType, LightFastest
<1>2. LeaksLess(params, f, F_BIG, temp)
  BY DEF SplitLeaksLess, LeaksLess
<1>3. ASSUME NEW i \in 1 .. N_PHYS_CORES PROVE Cheaper(params, A, Z, temp, i)
  <2> DEFINE a == LightActivity(n, i - 1)
  <2>1. i = 1 => A[i] = <<F_BIG, Unit>> /\ Z[i] = <<F_BIG, Unit>>
    BY <1>0, LightCore
  <2>2. a \in Nat
    BY LightMono
  <2>3. i # 1 => Z[i] = Idle
    <3>1. LightActivity(0, i - 1) = 0
      BY NoLight
    <3>2. i # 1 => Z[i] = IF LightActivity(0, i - 1) > 0
                          THEN <<f, LightActivity(0, i - 1)>> ELSE Idle
      BY LightCore
    <3> HIDE DEF Z, f
    <3> QED BY <3>1, <3>2
  <2>4. i # 1 => A[i] = IF a > 0 THEN <<f, a>> ELSE Idle
    BY <1>0, LightCore
  <2> HIDE DEF A, Z, a, f, temp
  <2>5. CASE A[i] = Z[i]
    BY <1>0, <1>1, <2>5, CheaperAlone
  <2>6. CASE A[i] # Z[i]
    <3>1. i # 1 /\ Z[i] = Idle /\ A[i] = <<f, a>> /\ a \in Nat \ {0}
      BY <2>1, <2>2, <2>3, <2>4, <2>6
    <3> QED BY <1>0, <1>1, <1>2, <3>1, CheaperAwake
  <2> QED BY <2>5, <2>6
<1>4. /\ Marginal(n, f, FALSE) = Watts(params, A, FALSE, temp) - Watts(params, Z, FALSE, temp)
      /\ Marginal(n, f, TRUE) = Watts(params, A, TRUE, temp) - Watts(params, Z, TRUE, temp)
  BY DEF Marginal
<1> HIDE DEF A, Z, temp
<1>5. Watts(params, A, FALSE, temp) - Watts(params, Z, FALSE, temp)
        <= Watts(params, A, TRUE, temp) - Watts(params, Z, TRUE, temp)
  BY <1>0, <1>1, <1>3, CheaperInAll
<1> QED BY <1>4, <1>5

------------------------------------------------------------------------------
(* Experiment C                                                            *)

(* The frequency Cheapest answers with, on a curve over a set of numbers.  *)
LEMMA CheapestIs ==
    ASSUME NEW D \in SUBSET Nat, D # {}, NEW curve \in [D -> Nat]
    PROVE  /\ Cheapest(curve) \in D
           /\ \A f \in D : curve[Cheapest(curve)] <= curve[f]
           /\ \A f \in D : curve[f] <= curve[Cheapest(curve)] => Cheapest(curve) <= f
<1> DEFINE V == {curve[f] : f \in D}
           least == Min(V)
           S == {f \in D : curve[f] = least}
<1>1. V \in SUBSET Nat /\ V # {}
  OBVIOUS
<1>2. least \in V /\ \A m \in V : least <= m
  <2> HIDE DEF V
  <2> QED BY <1>1, MinNat
<1>3. S \in SUBSET Nat /\ S # {}
  BY <1>2
<1>4. Min(S) \in S /\ \A m \in S : Min(S) <= m
  <2> HIDE DEF S
  <2> QED BY <1>3, MinNat
<1>5. Cheapest(curve) = Min(S)
  BY DEF Cheapest
<1> DEFINE x == Min(S)
<1> HIDE DEF x
<1>6. x \in D /\ curve[x] = least /\ \A m \in S : x <= m
  BY <1>4 DEF x
<1>7. \A f \in D : least <= curve[f] /\ curve[f] \in Nat
  BY <1>2
<1>8. least \in Nat
  BY <1>1, <1>2
<1> HIDE DEF least
<1>9. \A f \in D : curve[f] <= least => curve[f] = least
  BY <1>7, <1>8
<1> QED BY <1>5, <1>6, <1>7, <1>9 DEF x

(* A part s of the power that is paid for the whole of a run time that     *)
(* falls with the frequency moves the cheapest frequency up.               *)
LEMMA FloorShifts ==
    ASSUME NEW D \in SUBSET Nat, D # {}, NEW s \in Nat,
           NEW without \in [D -> Nat], NEW with \in [D -> Nat], NEW t \in [D -> Nat],
           \A f \in D : with[f] = without[f] + s * t[f],
           \A f, g \in D : f <= g => t[g] <= t[f]
    PROVE  Cheapest(without) <= Cheapest(with)
<1> DEFINE x == Cheapest(without)
           y == Cheapest(with)
<1>1. x \in D /\ \A f \in D : without[f] <= without[x] => x <= f
  BY CheapestIs
<1>2. y \in D /\ \A f \in D : with[y] <= with[f]
  BY CheapestIs
<1> HIDE DEF x, y
<1>a. x \in Nat /\ y \in Nat
  BY <1>1, <1>2
<1>b. SUFFICES x <= y
  BY DEF x, y
<1>3. SUFFICES ASSUME y < x PROVE FALSE
  BY <1>a
<1>4. without[x] < without[y]
  BY <1>1, <1>2, <1>3
<1>5. t[x] <= t[y] /\ t[x] \in Nat /\ t[y] \in Nat
  BY <1>1, <1>2, <1>3
<1>6. s * t[x] <= s * t[y] /\ s * t[x] \in Nat /\ s * t[y] \in Nat
  BY <1>5, ProductMono
<1>7. with[x] < with[y]
  <2> DEFINE a == s * t[x]
             b == s * t[y]
  <2>1. with[x] = without[x] + a /\ with[y] = without[y] + b
    BY <1>1, <1>2
  <2>2. without[x] \in Nat /\ without[y] \in Nat
    BY <1>1, <1>2
  <2>3. a <= b /\ a \in Nat /\ b \in Nat
    BY <1>6
  <2> HIDE DEF a, b
  <2> QED BY <1>4, <2>1, <2>2, <2>3
<1>8. with[y] <= with[x] /\ with[x] \in Nat /\ with[y] \in Nat
  BY <1>1, <1>2
<1> QED BY <1>7, <1>8

(* The run time and the cores of experiment C.                             *)
RunTime(f) == ((W_COMPILE * 1000) \div (args.exp_c_cores * f)) \div 10

CompileCores(f) ==
    Copies(args.exp_c_cores, <<f, Unit>>) \o Copies(N_PHYS_CORES - args.exp_c_cores, Idle)

LEMMA SweepType ==
    ASSUME TypeOK, ArgsOk
    PROVE  /\ Sweep \in SUBSET Nat /\ Sweep # {}
           /\ \A f \in Sweep : f >= F_MIN
<1>1. args.exp_c_cores \in Nat
  BY DEF ArgsOk
<1>2. turbo_limit(args.exp_c_cores) \in Nat /\ turbo_limit(args.exp_c_cores) >= F_MIN
  BY <1>1, TurboNat
<1>3. F_MIN \in Sweep
  BY <1>2 DEF Sweep, F_MIN, FREQ_SWEEP_STEP
<1> QED BY <1>2, <1>3 DEF Sweep, F_MIN

LEMMA RunTimeFalls ==
    ASSUME TypeOK, ArgsOk, NEW f \in Nat, NEW g \in Nat, F_MIN <= f, f <= g
    PROVE  RunTime(f) \in Nat /\ RunTime(g) \in Nat /\ RunTime(g) <= RunTime(f)
<1> DEFINE c == args.exp_c_cores
           a == c * f
           b == c * g
<1>1. c \in Nat /\ c >= 1 /\ f > 0 /\ g > 0
  BY DEF ArgsOk, F_MIN
<1>2. a \in Nat /\ b \in Nat /\ a > 0 /\ b > 0 /\ a <= b
  <2> HIDE DEF c
  <2>1. c <= c
    BY <1>1
  <2>2. a \in Nat /\ b \in Nat /\ a <= b
    BY <1>1, <2>1, ProductMono
  <2>3. a > 0
    BY <1>1
  <2> QED BY <2>2, <2>3
<1> DEFINE w == W_COMPILE * 1000
<1>3. w \in Nat
  BY DEF W_COMPILE
<1>4. RunTime(f) = (w \div a) \div 10 /\ RunTime(g) = (w \div b) \div 10
  BY DEF RunTime
<1> HIDE DEF w, a, b
<1> DEFINE q == w \div a
           r == w \div b
<1>5. q \in Nat /\ r \in Nat /\ r <= q
  BY <1>2, <1>3, QuotientFalls
<1> HIDE DEF q, r
<1>6. q \div 10 \in Nat /\ r \div 10 \in Nat /\ r \div 10 <= q \div 10
  BY <1>5, QuotientMono
<1> QED BY <1>4, <1>6 DEF q, r

LEMMA CompileCoresType ==
    ASSUME TypeOK, ArgsOk, NEW f \in Nat
    PROVE  /\ CompileCores(f) \in CoreStates(N_PHYS_CORES)
           /\ ActiveCores(CompileCores(f)) # {}
<1> DEFINE c == args.exp_c_cores
           d == N_PHYS_CORES - c
           s == Copies(c, <<f, Unit>>)
           t == Copies(d, Idle)
<1>1. c \in Nat /\ c >= 1 /\ d \in Nat /\ c + d = N_PHYS_CORES /\ N_PHYS_CORES \in Nat
  BY CoreAssumption DEF ArgsOk
<1>2. <<f, Unit>> \in Nat \X Nat /\ Idle \in Nat \X Nat
  BY DEF Unit, Idle, F_MIN
<1>3. /\ s \in Seq(Nat \X Nat) /\ Len(s) = c /\ t \in Seq(Nat \X Nat) /\ Len(t) = d
  <2> HIDE DEF c, d
  <2> QED BY <1>1, <1>2 DEF Copies
<1>4. s[1] = <<f, Unit>>
  BY <1>1 DEF Copies
<1> DEFINE u == s \o t
<1>5. CompileCores(f) = u
  BY DEF CompileCores
<1> HIDE DEF c, d, s, t
<1>6. u \in Seq(Nat \X Nat) /\ Len(u) = N_PHYS_CORES /\ u[1] = s[1]
  BY <1>1, <1>3, ConcatProperties
<1> HIDE DEF u
<1>7. u \in [1 .. N_PHYS_CORES -> Nat \X Nat] /\ 1 \in DOMAIN u
  BY <1>1, <1>6
<1>8. 1 \in ActiveCores(u)
  BY <1>4, <1>6, <1>7 DEF ActiveCores, Active, Unit
<1> QED BY <1>5, <1>7, <1>8 DEF CoreStates

(* What a run at f takes: natural numbers all, the floor included.         *)
LEMMA RunAtIs ==
    ASSUME TypeOK, ArgsOk, NEW f \in Nat
    PROVE  /\ RunAt(f).uncore_sa = params.p_sa_floor
           /\ RunAt(f).dyn + RunAt(f).leak \in Nat
           /\ PowerTotal(RunAt(f)) - params.p_sa_floor \in Nat
           /\ PowerTotal(RunAt(f)) \in Nat
<1> DEFINE A == CompileCores(f)
           n == N_PHYS_CORES
           temp == args.temp_c
           d == Total(DynOf(params, A, TRUE))
           l == Total(LeakOf(params, A, TRUE, temp))
           u == Ring(FMaxActive(A))
           v == Traffic(A)
           s == params.p_sa_floor
<1>1. /\ params \in Params /\ leak_temp_factor(temp) \in Nat /\ n \in Nat /\ s \in Nat
  BY TempAssumption, CoreAssumption DEF TypeOK, Params
<1>2. A \in CoreStates(n) /\ ActiveCores(A) # {}
  BY CompileCoresType
<1>3. RunAt(f) = package_power(params, A, TRUE, temp)
  BY DEF RunAt, CompileCores
<1>4. /\ RunAt(f).uncore_sa = s /\ RunAt(f).dyn = d /\ RunAt(f).leak = l
      /\ RunAt(f).uncore = s + u + v
  <2> DEFINE k == s + u + v
  <2>1. RunAt(f) = [dyn |-> d, leak |-> l, uncore |-> k, uncore_sa |-> s,
                    v_rail |-> v_of_f(FMaxActive(A))]
    BY <1>2, <1>3 DEF package_power, DynOf, LeakOf
  <2> HIDE DEF d, l, k, s
  <2>2. /\ RunAt(f).uncore_sa = s /\ RunAt(f).dyn = d /\ RunAt(f).leak = l
        /\ RunAt(f).uncore = k
    BY <2>1
  <2> QED BY <2>2 DEF k
<1>5. d \in Nat /\ l \in Nat
  <2> DEFINE e == DynOf(params, A, TRUE)
             g == LeakOf(params, A, TRUE, temp)
  <2> HIDE DEF A, n, temp
  <2>1. e \in [1 .. n -> Nat] /\ g \in [1 .. n -> Nat]
    BY <1>1, <1>2, PartsNat
  <2> HIDE DEF e, g
  <2>2. Total(e) \in Nat /\ Total(g) \in Nat
    BY <1>1, <2>1, CoresFinite, TotalNat
  <2> QED BY <2>2 DEF e, g
<1>6. u \in Nat /\ v \in Nat
  <2> HIDE DEF A, n
  <2>1. FMaxActive(A) \in Nat
    BY <1>1, <1>2, FastestCore
  <2>2. FMaxActive(A) <= FMaxActive(A)
    BY <2>1
  <2> QED BY <1>1, <1>2, <2>1, <2>2, RingMono, WorkNat
<1> HIDE DEF d, l, u, v, s
<1>7. PowerTotal(RunAt(f)) = d + l + (s + u + v)
  BY <1>4 DEF PowerTotal
<1>8. PowerTotal(RunAt(f)) - s \in Nat /\ PowerTotal(RunAt(f)) \in Nat
  BY <1>1, <1>5, <1>6, <1>7
<1>9. RunAt(f).dyn + RunAt(f).leak \in Nat
  BY <1>4, <1>5
<1> QED BY <1>4, <1>8, <1>9 DEF s


LEMMA ExperimentC ==
    ASSUME TypeOK, ArgsOk
    PROVE  LET w == [f \in Sweep |-> RunAt(f)]
               crossover == Cheapest([f \in Sweep |-> EnergyAt(f, PowerTotal(w[f]))])
               no_floor == Cheapest([f \in Sweep |-> EnergyAt(f, PowerTotal(w[f]) - w[f].uncore_sa)])
               core_only == Cheapest([f \in Sweep |-> EnergyAt(f, w[f].dyn + w[f].leak)])
           IN  /\ crossover \in Nat /\ no_floor \in Nat /\ core_only \in Nat
               /\ no_floor <= crossover
<1> DEFINE D == Sweep
           w == [f \in D |-> RunAt(f)]
           s == params.p_sa_floor
           x == [f \in D |-> EnergyAt(f, PowerTotal(w[f]))]
           y == [f \in D |-> EnergyAt(f, PowerTotal(w[f]) - w[f].uncore_sa)]
           z == [f \in D |-> EnergyAt(f, w[f].dyn + w[f].leak)]
           t == [f \in D |-> RunTime(f)]
<1>1. D \in SUBSET Nat /\ D # {} /\ \A f \in D : F_MIN <= f
  BY SweepType DEF F_MIN
<1>2. s \in Nat
  BY DEF TypeOK
<1>3. ASSUME NEW f \in D
      PROVE  /\ x[f] \in Nat /\ y[f] \in Nat /\ z[f] \in Nat /\ t[f] \in Nat
             /\ x[f] = y[f] + s * t[f]
  <2> DEFINE r == RunTime(f)
             p == PowerTotal(RunAt(f))
             q == RunAt(f).dyn + RunAt(f).leak
  <2>1. f \in Nat /\ F_MIN <= f /\ f <= f
    BY <1>1
  <2>2. r \in Nat
    BY <2>1, RunTimeFalls
  <2>3. p \in Nat /\ p - s \in Nat /\ q \in Nat /\ RunAt(f).uncore_sa = s
    BY <2>1, RunAtIs
  <2>4. x[f] = p * r /\ y[f] = (p - s) * r /\ z[f] = q * r /\ t[f] = r
    BY <2>3 DEF EnergyAt, RunTime
  <2> HIDE DEF r, p, q, s, x, y, z, t
  <2>5. p * r \in Nat /\ (p - s) * r \in Nat /\ q * r \in Nat
    BY <1>2, <2>2, <2>3
  <2>6. p * r = (p - s) * r + s * r
    BY <1>2, <2>2, <2>3
  <2> QED BY <2>2, <2>4, <2>5, <2>6
<1>4. \A f, g \in D : f <= g => t[g] <= t[f]
  <2>1. ASSUME NEW f \in D, NEW g \in D, f <= g PROVE RunTime(g) <= RunTime(f)
    <3>1. f \in Nat /\ g \in Nat /\ F_MIN <= f
      BY <1>1
    <3> QED BY <2>1, <3>1, RunTimeFalls
  <2> QED BY <2>1
<1>5. x \in [D -> Nat] /\ y \in [D -> Nat] /\ z \in [D -> Nat] /\ t \in [D -> Nat]
  <2>1. /\ \A f \in D : x[f] \in Nat /\ y[f] \in Nat /\ z[f] \in Nat /\ t[f] \in Nat
    BY <1>3
  <2> QED BY <2>1
<1>6. \A f \in D : x[f] = y[f] + s * t[f]
  BY <1>3
<1> HIDE DEF x, y, z, t, s, D
<1>7. Cheapest(y) <= Cheapest(x)
  BY <1>1, <1>2, <1>4, <1>5, <1>6, FloorShifts
<1>8. Cheapest(x) \in Nat /\ Cheapest(y) \in Nat /\ Cheapest(z) \in Nat
  BY <1>1, <1>5, CheapestIs
<1> QED BY <1>7, <1>8 DEF x, y, z, D

------------------------------------------------------------------------------
(* The state machine                                                       *)

(* The bisection keeps the cap between its two ends.                       *)
Bracket ==
    pc = "bisect" =>
        /\ Capped /\ lo < hi /\ hi <= f_ceiling
        /\ p_at(lo) <= PL1 /\ PL1 < p_at(hi)

(* CapMet, of the cores the search was given.                              *)
Found ==
    pc = "row" /\ Capped =>
        /\ p_at(lo) <= PL1 \/ lo = F_MIN
        /\ \A f \in lo + TOL .. f_ceiling : PL1 <= p_at(f)

(* The rows of experiment A are the ones the final parameters give.        *)
RowsAreCurrent ==
    /\ pc \in {"main", "usage", "calibrate"} => rows_a = <<>>
    /\ \A n \in DOMAIN rows_a : rows_a[n] = RowA(n)

ArgsChecked == pc \notin {"main", "usage"} => ArgsOk

RowsLeft == pc \in {"main", "calibrate", "a", "b", "bisect", "row"} => RowLeft

RailInv ==
    TypeOK /\ ArgsChecked /\ RowsLeft /\ RowsAreCurrent /\ Bracket /\ Found /\ FloorRaisesOptimum

LEMMA SameCores ==
    ASSUME args' = args, params' = params, NEW n, NEW f
    PROVE  WithLight(n, f)' = WithLight(n, f)
<1>1. ASSUME NEW core PROVE LightActivity(n, core)' = LightActivity(n, core)
  BY DEF LightActivity
<1>2. F_BIG' = F_BIG
  BY DEF F_BIG, turbo_limit
<1> QED BY <1>1, <1>2 DEF WithLight

LEMMA SameRowA ==
    ASSUME args' = args, params' = params, NEW n
    PROVE  RowA(n)' = RowA(n)
<1>1. ASSUME NEW f, NEW shared \in BOOLEAN PROVE Marginal(n, f, shared)' = Marginal(n, f, shared)
  <2>1. WithLight(n, f)' = WithLight(n, f) /\ WithLight(0, f)' = WithLight(0, f)
    BY SameCores
  <2> QED BY <2>1 DEF Marginal
<1> QED BY <1>1 DEF RowA

LEMMA SameRow ==
    ASSUME args' = args, params' = params, rows_b' = rows_b
    PROVE  /\ f_ceiling' = f_ceiling /\ (Capped' <=> Capped)
           /\ \A f : p_at(f)' = p_at(f)
           /\ p_at(lo)' = p_at(lo') /\ p_at(hi)' = p_at(hi')
<1>1. /\ n_big' = n_big /\ (shared_rail' <=> shared_rail)
  BY DEF n_big, shared_rail
<1>2. n_little' = n_little
  BY <1>1 DEF n_little
<1>3. n_work' = n_work /\ f_ceiling' = f_ceiling
  BY <1>1, <1>2 DEF n_work, f_ceiling
<1>4. f_bg' = f_bg /\ n_bg' = n_bg
  BY <1>1, <1>2, <1>3 DEF f_bg, n_bg
<1>5. a_bg' = a_bg
  BY <1>4 DEF a_bg, a_needed
<1>6. ASSUME NEW i PROVE Background(1, i)' = Background(1, i)
  BY <1>4, <1>5 DEF Background
<1>7. ASSUME NEW f PROVE p_at(f)' = p_at(f)
  <2>1. Candidate(f)' = Candidate(f)
    BY <1>3, <1>6 DEF Candidate
  <2> QED BY <1>1, <2>1 DEF p_at
<1>8. Capped' <=> Capped
  BY <1>1 DEF Capped
<1>9. p_at(lo)' = p_at(lo')
  <2>1. Candidate(lo)' = Candidate(lo')
    BY <1>3, <1>6 DEF Candidate
  <2> QED BY <1>1, <2>1 DEF p_at
<1>10. p_at(hi)' = p_at(hi')
  <2>1. Candidate(hi)' = Candidate(hi')
    BY <1>3, <1>6 DEF Candidate
  <2> QED BY <1>1, <2>1 DEF p_at
<1> QED BY <1>3, <1>7, <1>8, <1>9, <1>10

LEMMA RailInit == Init => RailInv
<1> SUFFICES ASSUME Init PROVE RailInv
  OBVIOUS
<1>1. TypeOK
  <2>1. params \in [C_eff : Nat \ {0}, k_leak : Nat, p_sa_floor : Nat]
    BY DEF Init, Prior
  <2>2. /\ rows_a \in Seq([shared : Int, split : Int, no_partition : Int]) /\ Len(rows_a) = 0
        /\ rows_b \in Seq([n_big : Nat, shared : BOOLEAN, f_work : Nat, f_bg : Nat, a_bg : Nat,
                           t_compile : Nat, feasible : BOOLEAN, p1 : Nat, p2 : Nat, energy : Nat])
        /\ Len(rows_b) = 0
    BY DEF Init
  <2>3. summary_c \in [crossover : Nat, no_floor : Nat, core_only : Nat]
    BY DEF Init, None
  <2>4. pc \in Pc /\ args \in Args /\ lo \in Nat /\ hi \in Nat /\ F_MIN <= lo /\ lo <= hi
    BY DEF Init, Pc, F_MIN
  <2> QED BY <2>1, <2>2, <2>3, <2>4, CoreAssumption DEF TypeOK, MAX_LIGHT
<1>2. ArgsChecked /\ Bracket /\ Found /\ FloorRaisesOptimum
  BY DEF Init, ArgsChecked, Bracket, Found, FloorRaisesOptimum
<1>3. RowsLeft /\ RowsAreCurrent
  BY CoreAssumption DEF Init, RowsLeft, RowLeft, RowsAreCurrent
<1> QED BY <1>1, <1>2, <1>3 DEF RailInv

(* The parts of the invariant that a step leaves alone.                    *)
LEMMA KeptRowsA ==
    ASSUME RailInv, args' = args, params' = params, rows_a' = rows_a,
           pc' \notin {"main", "usage", "calibrate"}
    PROVE  RowsAreCurrent'
<1>1. \A n : RowA(n)' = RowA(n)
  BY SameRowA
<1>2. \A n \in DOMAIN rows_a : rows_a[n] = RowA(n)
  BY DEF RailInv, RowsAreCurrent
<1> QED BY <1>1, <1>2 DEF RowsAreCurrent

LEMMA KeptArgs ==
    ASSUME RailInv, pc # "main", pc # "usage", args' = args
    PROVE  ArgsOk /\ ArgsChecked'
  BY DEF RailInv, ArgsChecked, ArgsOk

LEMMA RailMain == RailInv /\ main => RailInv'
<1> SUFFICES ASSUME RailInv, main PROVE RailInv'
  OBVIOUS
<1>0. /\ pc = "main" /\ pc' \in {"usage", "calibrate", "a"}
      /\ pc' # "usage" => ArgsOk
      /\ UNCHANGED <<args, csv, params, samples, rows_a, rows_b, lo, hi, summary_c>>
  BY DEF main
<1>1. TypeOK'
  BY <1>0 DEF RailInv, TypeOK, Pc, Over
<1>2. ArgsChecked'
  BY <1>0 DEF ArgsChecked, ArgsOk
<1>3. RowsLeft'
  BY <1>0 DEF RailInv, RowsLeft, RowLeft
<1>4. RowsAreCurrent'
  <2>1. rows_a' = <<>>
    BY <1>0 DEF RailInv, RowsAreCurrent
  <2> QED BY <2>1 DEF RowsAreCurrent
<1>5. Bracket' /\ Found' /\ FloorRaisesOptimum'
  BY <1>0 DEF Bracket, Found, FloorRaisesOptimum
<1> QED BY <1>1, <1>2, <1>3, <1>4, <1>5 DEF RailInv

LEMMA RailCalibrate == RailInv /\ calibrate => RailInv'
<1> SUFFICES ASSUME RailInv, calibrate PROVE RailInv'
  OBVIOUS
<1>0. /\ pc = "calibrate" /\ pc' \in {"died", "a"}
      /\ UNCHANGED <<args, csv, rows_a, rows_b, lo, hi, summary_c>>
      /\ params' = params \/ \E fit \in Fits : params' = Physical(fit)
  BY DEF calibrate
<1>1. TypeOK'
  <2>1. params' \in [C_eff : Nat \ {0}, k_leak : Nat, p_sa_floor : Nat]
    <3>1. CASE params' = params
      BY <3>1 DEF RailInv, TypeOK
    <3>2. ASSUME NEW fit \in Fits, params' = Physical(fit)
          PROVE  params' \in [C_eff : Nat \ {0}, k_leak : Nat, p_sa_floor : Nat]
      <4>1. fit.C_eff \in Int /\ fit.k_leak \in Int /\ fit.p_sa_floor \in Int
        BY FitsAssumption
      <4>2. AtLeast(fit.k_leak, 0) \in Nat /\ AtLeast(fit.p_sa_floor, 0) \in Nat
        BY <4>1 DEF AtLeast
      <4> QED BY <3>2, <4>1, <4>2 DEF Physical, Prior
    <3> QED BY <1>0, <3>1, <3>2
  <2> QED BY <1>0, <2>1 DEF RailInv, TypeOK, Pc, Over
<1>2. ArgsChecked'
  BY <1>0, KeptArgs
<1>3. RowsLeft'
  BY <1>0 DEF RailInv, RowsLeft, RowLeft
<1>4. RowsAreCurrent'
  <2>1. rows_a' = <<>>
    BY <1>0 DEF RailInv, RowsAreCurrent
  <2> QED BY <2>1 DEF RowsAreCurrent
<1>5. Bracket' /\ Found' /\ FloorRaisesOptimum'
  BY <1>0 DEF Bracket, Found, FloorRaisesOptimum
<1> QED BY <1>1, <1>2, <1>3, <1>4, <1>5 DEF RailInv

LEMMA RailExperimentA == RailInv /\ experiment_a => RailInv'
<1> SUFFICES ASSUME RailInv, experiment_a PROVE RailInv'
  OBVIOUS
<1> DEFINE n == Len(rows_a) + 1
           RowsA == [shared : Int, split : Int, no_partition : Int]
<1>0. /\ pc = "a" /\ pc' \in {"a", "b"} /\ UNCHANGED <<args, params, rows_b, lo, hi, summary_c>>
      /\ \/ Len(rows_a) < MAX_LIGHT /\ rows_a' = Append(rows_a, RowA(n))
         \/ rows_a' = rows_a
  BY DEF experiment_a, RowA
<1>1. ArgsOk /\ ArgsChecked'
  BY <1>0, KeptArgs
<1>2. rows_a \in Seq(RowsA) /\ Len(rows_a) \in Nat /\ n \in Nat /\ RowA(n) \in RowsA
  <2>1. rows_a \in Seq(RowsA) /\ args.f_little \in Nat
    BY ArgsAssumption DEF RailInv, TypeOK
  <2>2. Len(rows_a) \in Nat /\ n \in Nat
    BY <2>1
  <2>3. ASSUME NEW f \in Nat, NEW shared \in BOOLEAN PROVE Marginal(n, f, shared) \in Int
    BY <1>1, <2>2, LightWatts DEF RailInv
  <2> QED BY <2>1, <2>2, <2>3, BigCore DEF RowA
<1>3. rows_a' \in Seq(RowsA) /\ Len(rows_a') <= MAX_LIGHT
  <2>1. CASE Len(rows_a) < MAX_LIGHT /\ rows_a' = Append(rows_a, RowA(n))
    BY <1>2, <2>1 DEF MAX_LIGHT
  <2>2. CASE rows_a' = rows_a
    BY <2>2 DEF RailInv, TypeOK
  <2> QED BY <1>0, <2>1, <2>2
<1>4. TypeOK'
  BY <1>0, <1>3 DEF RailInv, TypeOK, Pc
<1>5. RowsLeft'
  BY <1>0 DEF RailInv, RowsLeft, RowLeft
<1>6. RowsAreCurrent'
  <2>1. CASE rows_a' = rows_a
    BY <1>0, <2>1, KeptRowsA
  <2>2. CASE rows_a' = Append(rows_a, RowA(n))
    <3>1. ASSUME NEW k \in DOMAIN rows_a' PROVE rows_a'[k] = RowA(k)'
      <4>1. k \in 1 .. n
        BY <1>2, <2>2
      <4>2. RowA(k)' = RowA(k)
        BY <1>0, SameRowA
      <4>3. CASE k = n
        BY <1>2, <2>2, <4>2, <4>3
      <4>4. CASE k # n
        <5>1. k \in DOMAIN rows_a /\ rows_a'[k] = rows_a[k]
          BY <1>2, <2>2, <4>1, <4>4
        <5>2. rows_a[k] = RowA(k)
          BY <5>1 DEF RailInv, RowsAreCurrent
        <5> QED BY <4>2, <5>1, <5>2
      <4> QED BY <4>3, <4>4
    <3> QED BY <1>0, <3>1 DEF RowsAreCurrent
  <2> QED BY <1>0, <2>1, <2>2
<1>7. Bracket' /\ Found' /\ FloorRaisesOptimum'
  BY <1>0 DEF Bracket, Found, FloorRaisesOptimum
<1> QED BY <1>1, <1>4, <1>5, <1>6, <1>7 DEF RailInv

LEMMA RailStartRow == RailInv /\ StartRow => RailInv'
<1> SUFFICES ASSUME RailInv, StartRow PROVE RailInv'
  OBVIOUS
<1>0. /\ pc = "b" /\ pc' \in {"row", "bisect"}
      /\ UNCHANGED <<args, params, rows_a, rows_b, summary_c>>
  BY DEF StartRow
<1>1. TypeOK /\ RowLeft
  BY <1>0 DEF RailInv, RowsLeft
<1>2. /\ f_ceiling \in Nat /\ f_ceiling >= F_MIN /\ F_MIN \in Nat
  BY <1>1, RowNumbers DEF F_MIN
<1>3. /\ f_ceiling' = f_ceiling /\ (Capped' <=> Capped) /\ \A f : p_at(f)' = p_at(f)
      /\ p_at(lo)' = p_at(lo') /\ p_at(hi)' = p_at(hi')
  BY <1>0, SameRow
<1>4. \/ /\ lo' = f_ceiling /\ hi' = f_ceiling /\ pc' = "row"
         /\ ~Capped \/ p_at(f_ceiling) <= PL1
      \/ lo' = F_MIN /\ hi' = F_MIN /\ pc' = "row" /\ p_at(F_MIN) >= PL1
      \/ /\ lo' = F_MIN /\ hi' = f_ceiling /\ pc' = "bisect"
         /\ Capped /\ ~(p_at(F_MIN) >= PL1) /\ ~(p_at(f_ceiling) <= PL1)
  BY DEF StartRow
<1>5. p_at(F_MIN) \in Nat /\ p_at(f_ceiling) \in Nat /\ PL1 \in Nat
  BY <1>1, <1>2, CapPower DEF PL1
<1>6. TypeOK'
  <2>1. lo' \in Nat /\ hi' \in Nat /\ F_MIN <= lo' /\ lo' <= hi'
    BY <1>2, <1>4
  <2> QED BY <1>0, <1>1, <2>1 DEF TypeOK, Pc
<1>7. ArgsChecked' /\ RowsAreCurrent'
  BY <1>0, KeptArgs, KeptRowsA
<1>8. RowsLeft'
  BY <1>0, <1>1 DEF RowsLeft, RowLeft
<1>9. Bracket'
  <2>1. SUFFICES ASSUME pc' = "bisect"
                 PROVE  /\ Capped' /\ lo' < hi' /\ hi' <= f_ceiling'
                        /\ p_at(lo)' <= PL1 /\ PL1 < p_at(hi)'
    BY DEF Bracket
  <2>2. /\ lo' = F_MIN /\ hi' = f_ceiling /\ Capped
        /\ p_at(F_MIN) < PL1 /\ PL1 < p_at(f_ceiling)
    BY <1>4, <1>5, <2>1
  <2>3. F_MIN # f_ceiling
    BY <1>5, <2>2
  <2> QED BY <1>2, <1>3, <1>5, <2>2, <2>3
<1>10. Found'
  <2>1. SUFFICES ASSUME pc' = "row", Capped
                 PROVE  /\ p_at(lo)' <= PL1 \/ lo' = F_MIN
                        /\ \A f \in lo' + TOL .. f_ceiling' : PL1 <= p_at(f)'
    BY <1>3 DEF Found
  <2>2. CASE lo' = f_ceiling /\ p_at(f_ceiling) <= PL1
    BY <1>2, <1>3, <2>2 DEF TOL
  <2>3. CASE lo' = F_MIN /\ p_at(F_MIN) >= PL1
    <3>1. ASSUME NEW f \in F_MIN + TOL .. f_ceiling PROVE PL1 <= p_at(f)
      <4>1. f \in Nat /\ F_MIN <= f
        BY <1>2 DEF TOL
      <4>2. p_at(F_MIN) <= p_at(f) /\ p_at(f) \in Nat
        BY <1>1, <1>2, <4>1, CapPower
      <4> QED BY <1>5, <2>3, <4>2
    <3> QED BY <1>3, <2>3, <3>1
  <2> QED BY <1>4, <2>1, <2>2, <2>3
<1>11. FloorRaisesOptimum'
  BY <1>0 DEF FloorRaisesOptimum
<1> QED BY <1>6, <1>7, <1>8, <1>9, <1>10, <1>11 DEF RailInv

LEMMA RailBisect == RailInv /\ Bisect => RailInv'
<1> SUFFICES ASSUME RailInv, Bisect PROVE RailInv'
  OBVIOUS
<1> DEFINE mid == (lo + hi) \div 2
<1>0. /\ pc = "bisect" /\ pc' \in {"row", "bisect"}
      /\ UNCHANGED <<args, params, rows_a, rows_b, summary_c>>
  BY DEF Bisect
<1>1. TypeOK /\ RowLeft
  BY <1>0 DEF RailInv, RowsLeft
<1>2. /\ f_ceiling \in Nat /\ lo \in Nat /\ hi \in Nat /\ F_MIN <= lo /\ F_MIN \in Nat
  BY <1>1, RowNumbers DEF TypeOK, F_MIN
<1>3. /\ f_ceiling' = f_ceiling /\ (Capped' <=> Capped) /\ \A f : p_at(f)' = p_at(f)
      /\ p_at(lo)' = p_at(lo') /\ p_at(hi)' = p_at(hi')
  BY <1>0, SameRow
<1>4. Capped /\ lo < hi /\ hi <= f_ceiling /\ p_at(lo) <= PL1 /\ PL1 < p_at(hi)
  BY <1>0 DEF RailInv, Bracket
<1>5. \/ hi - lo <= TOL /\ pc' = "row" /\ lo' = lo /\ hi' = hi
      \/ hi - lo > TOL /\ p_at(mid) > PL1 /\ hi' = mid /\ lo' = lo /\ pc' = "bisect"
      \/ hi - lo > TOL /\ ~(p_at(mid) > PL1) /\ lo' = mid /\ hi' = hi /\ pc' = "bisect"
  BY <1>0, <1>2 DEF Bisect, TOL
<1>6. hi - lo > TOL => mid \in Nat /\ lo < mid /\ mid < hi
  BY <1>2, <1>4 DEF TOL
<1> HIDE DEF mid
<1>7. TypeOK'
  <2>1. lo' \in Nat /\ hi' \in Nat /\ F_MIN <= lo' /\ lo' <= hi'
    BY <1>2, <1>4, <1>5, <1>6
  <2> QED BY <1>0, <1>1, <2>1 DEF TypeOK, Pc
<1>8. ArgsChecked' /\ RowsAreCurrent'
  BY <1>0, KeptArgs, KeptRowsA
<1>9. RowsLeft'
  BY <1>0, <1>1 DEF RowsLeft, RowLeft
<1>10. Bracket'
  <2>1. SUFFICES ASSUME pc' = "bisect"
                 PROVE  /\ Capped' /\ lo' < hi' /\ hi' <= f_ceiling'
                        /\ p_at(lo)' <= PL1 /\ PL1 < p_at(hi)'
    BY DEF Bracket
  <2>2. hi - lo > TOL /\ mid \in Nat /\ lo < mid /\ mid < hi
    BY <1>5, <1>6, <2>1
  <2>3. p_at(mid) \in Nat /\ PL1 \in Nat
    <3>1. mid <= mid
      BY <2>2
    <3> QED BY <1>1, <2>2, <3>1, CapPower DEF PL1
  <2>4. CASE p_at(mid) > PL1 /\ hi' = mid /\ lo' = lo
    BY <1>2, <1>3, <1>4, <2>2, <2>3, <2>4
  <2>5. CASE ~(p_at(mid) > PL1) /\ lo' = mid /\ hi' = hi
    BY <1>2, <1>3, <1>4, <2>2, <2>3, <2>5
  <2> QED BY <1>5, <2>1, <2>4, <2>5
<1>11. Found'
  <2>1. SUFFICES ASSUME pc' = "row"
                 PROVE  /\ p_at(lo)' <= PL1
                        /\ \A f \in lo' + TOL .. f_ceiling' : PL1 <= p_at(f)'
    BY DEF Found
  <2>2. hi - lo <= TOL /\ lo' = lo
    BY <1>5, <2>1
  <2>3. ASSUME NEW f \in lo + TOL .. f_ceiling PROVE PL1 <= p_at(f)
    <3>1. f \in Nat /\ hi <= f
      BY <1>2, <1>4, <2>2 DEF TOL
    <3>2. p_at(hi) <= p_at(f) /\ p_at(f) \in Nat /\ p_at(hi) \in Nat /\ PL1 \in Nat
      BY <1>1, <1>2, <3>1, CapPower DEF PL1
    <3> QED BY <1>4, <3>2
  <2> QED BY <1>3, <1>4, <2>2, <2>3
<1>12. FloorRaisesOptimum'
  BY <1>0 DEF FloorRaisesOptimum
<1> QED BY <1>7, <1>8, <1>9, <1>10, <1>11, <1>12 DEF RailInv

LEMMA RailFinishRow == RailInv /\ FinishRow => RailInv'
<1> SUFFICES ASSUME RailInv, FinishRow PROVE RailInv'
  OBVIOUS
<1> DEFINE RowsB == [n_big : Nat, shared : BOOLEAN, f_work : Nat, f_bg : Nat, a_bg : Nat,
                     t_compile : Nat, feasible : BOOLEAN, p1 : Nat, p2 : Nat, energy : Nat]
<1>0. /\ pc = "row" /\ pc' = (IF Len(rows_b') < 2 * (N_PHYS_CORES + 1) THEN "b" ELSE "c")
      /\ rows_b' = Append(rows_b, Row)
      /\ UNCHANGED <<args, params, rows_a, lo, hi, summary_c>>
  BY DEF FinishRow
<1>1. TypeOK /\ RowLeft
  BY <1>0 DEF RailInv, RowsLeft
<1>2. rows_b' \in Seq(RowsB) /\ Len(rows_b') <= 2 * (N_PHYS_CORES + 1)
  <2>1. Row \in RowsB
    BY <1>1, RowType
  <2>2. rows_b \in Seq(RowsB) /\ Len(rows_b) \in Nat
    BY <1>1 DEF TypeOK
  <2> HIDE DEF RowsB
  <2>3. rows_b' \in Seq(RowsB) /\ Len(rows_b') = Len(rows_b) + 1
    BY <1>0, <2>1, <2>2
  <2> QED BY <1>1, <2>2, <2>3, CoreAssumption DEF RowLeft
<1>3. TypeOK'
  BY <1>0, <1>1, <1>2 DEF TypeOK, Pc
<1>4. ArgsChecked' /\ RowsAreCurrent'
  BY <1>0, KeptArgs, KeptRowsA
<1>5. RowsLeft'
  BY <1>0 DEF RowsLeft, RowLeft
<1>6. Bracket' /\ Found' /\ FloorRaisesOptimum'
  BY <1>0 DEF Bracket, Found, FloorRaisesOptimum
<1> QED BY <1>3, <1>4, <1>5, <1>6 DEF RailInv

LEMMA RailExperimentC == RailInv /\ experiment_c => RailInv'
<1> SUFFICES ASSUME RailInv, experiment_c PROVE RailInv'
  OBVIOUS
<1>0. /\ pc = "c" /\ pc' = "done"
      /\ UNCHANGED <<args, params, rows_a, rows_b, lo, hi>>
  BY DEF experiment_c
<1>1. TypeOK /\ ArgsOk /\ ArgsChecked'
  BY <1>0, KeptArgs DEF RailInv
<1>2. /\ summary_c' \in [crossover : Nat, no_floor : Nat, core_only : Nat]
      /\ summary_c'.no_floor <= summary_c'.crossover
  <2> DEFINE w == [f \in Sweep |-> RunAt(f)]
             x == Cheapest([f \in Sweep |-> EnergyAt(f, PowerTotal(w[f]))])
             y == Cheapest([f \in Sweep |-> EnergyAt(f, PowerTotal(w[f]) - w[f].uncore_sa)])
             z == Cheapest([f \in Sweep |-> EnergyAt(f, w[f].dyn + w[f].leak)])
  <2>1. x \in Nat /\ y \in Nat /\ z \in Nat /\ y <= x
    BY <1>1, ExperimentC
  <2>2. summary_c' = [crossover |-> x, no_floor |-> y, core_only |-> z]
    BY DEF experiment_c
  <2> HIDE DEF x, y, z
  <2> QED BY <2>1, <2>2
<1>3. TypeOK'
  BY <1>0, <1>1, <1>2 DEF TypeOK, Pc, Over
<1>4. RowsAreCurrent'
  BY <1>0, KeptRowsA
<1>5. RowsLeft' /\ Bracket' /\ Found'
  BY <1>0 DEF RowsLeft, Bracket, Found
<1>6. FloorRaisesOptimum'
  BY <1>2 DEF FloorRaisesOptimum
<1> QED BY <1>1, <1>3, <1>4, <1>5, <1>6 DEF RailInv

LEMMA RailStutter == RailInv /\ UNCHANGED vars => RailInv'
<1> SUFFICES ASSUME RailInv, UNCHANGED vars PROVE RailInv'
  OBVIOUS
<1>0. UNCHANGED <<pc, args, params, rows_a, rows_b, lo, hi, summary_c>>
  BY DEF vars
<1>1. TypeOK' /\ ArgsChecked' /\ RowsLeft' /\ FloorRaisesOptimum'
  BY <1>0 DEF RailInv, TypeOK, ArgsChecked, ArgsOk, RowsLeft, RowLeft, FloorRaisesOptimum
<1>2. RowsAreCurrent'
  <2>1. \A n : RowA(n)' = RowA(n)
    BY <1>0, SameRowA
  <2> QED BY <1>0, <2>1 DEF RailInv, RowsAreCurrent
<1>3. /\ f_ceiling' = f_ceiling /\ (Capped' <=> Capped) /\ \A f : p_at(f)' = p_at(f)
      /\ p_at(lo)' = p_at(lo') /\ p_at(hi)' = p_at(hi')
  BY <1>0, SameRow
<1>4. Bracket' /\ Found'
  <2>1. Bracket'
    BY <1>0, <1>3 DEF RailInv, Bracket
  <2>2. Found'
    BY <1>0, <1>3 DEF RailInv, Found
  <2> QED BY <2>1, <2>2
<1> QED BY <1>1, <1>2, <1>4 DEF RailInv

LEMMA RailInductive == Spec => []RailInv
<1>1. Init => RailInv
  BY RailInit
<1>2. RailInv /\ [Next]_vars => RailInv'
  BY RailMain, RailCalibrate, RailExperimentA, RailStartRow, RailBisect, RailFinishRow,
     RailExperimentC, RailStutter DEF Next, Done
<1> QED BY <1>1, <1>2, PTL DEF Spec

LEMMA RowAFields ==
    ASSUME NEW n
    PROVE  /\ RowA(n).shared = Marginal(n, args.f_little, TRUE)
           /\ RowA(n).split = Marginal(n, args.f_little, FALSE)
           /\ RowA(n).no_partition = Marginal(n, F_BIG, TRUE)
<1> DEFINE x == Marginal(n, args.f_little, TRUE)
           y == Marginal(n, args.f_little, FALSE)
           z == Marginal(n, F_BIG, TRUE)
<1>1. RowA(n) = [shared |-> x, split |-> y, no_partition |-> z]
  BY DEF RowA
<1> HIDE DEF x, y, z
<1>2. RowA(n).shared = x /\ RowA(n).split = y /\ RowA(n).no_partition = z
  BY <1>1
<1> QED BY <1>2 DEF x, y, z

LEMMA OrderedRows ==
    ASSUME RailInv
    PROVE  MarginalOrder
<1> SUFFICES ASSUME args.f_little <= F_BIG, NEW n \in DOMAIN rows_a
             PROVE  /\ SplitLeaksLess => rows_a[n].split <= rows_a[n].shared
                    /\ rows_a[n].shared <= rows_a[n].no_partition
                    /\ n > 1 => rows_a[n - 1].shared <= rows_a[n].shared
                    /\ n > 1 /\ n > 2 * N_FREE => rows_a[n] = rows_a[n - 1]
  BY DEF MarginalOrder
<1>1. TypeOK /\ ArgsOk
  BY DEF RailInv, RowsAreCurrent, ArgsChecked
<1>2. /\ n \in Nat /\ n >= 1 /\ rows_a[n] = RowA(n)
      /\ n > 1 => n - 1 \in Nat /\ rows_a[n - 1] = RowA(n - 1)
  <2>1. rows_a \in Seq([shared : Int, split : Int, no_partition : Int])
    BY <1>1 DEF TypeOK
  <2>2. n \in 1 .. Len(rows_a) /\ Len(rows_a) \in Nat /\ DOMAIN rows_a = 1 .. Len(rows_a)
    BY <2>1
  <2> QED BY <2>2 DEF RailInv, RowsAreCurrent
<1>3. args.f_little \in Nat /\ F_BIG \in Nat
  BY <1>1, ArgsAssumption, BigCore DEF TypeOK
<1>4. SplitLeaksLess => rows_a[n].split <= rows_a[n].shared
  <2>1. SplitLeaksLess => Marginal(n, args.f_little, FALSE) <= Marginal(n, args.f_little, TRUE)
    BY <1>1, <1>2, SplitIsCheaper
  <2> QED BY <1>2, <2>1, RowAFields
<1>5. rows_a[n].shared <= rows_a[n].no_partition
  <2>1. n <= n
    BY <1>2
  <2>2. Marginal(n, args.f_little, TRUE) <= Marginal(n, F_BIG, TRUE)
    BY <1>1, <1>2, <1>3, <2>1, MarginalMono
  <2> QED BY <1>2, <2>2, RowAFields
<1>6. ASSUME n > 1 PROVE rows_a[n - 1].shared <= rows_a[n].shared
  <2>1. n - 1 <= n /\ args.f_little <= args.f_little /\ n - 1 \in Nat
    BY <1>2, <1>3, <1>6
  <2>2. Marginal(n - 1, args.f_little, TRUE) <= Marginal(n, args.f_little, TRUE)
    BY <1>1, <1>2, <1>3, <2>1, MarginalMono
  <2> QED BY <1>2, <1>6, <2>2, RowAFields
<1>7. ASSUME n > 1, n > 2 * N_FREE PROVE rows_a[n] = rows_a[n - 1]
  <2>1. ASSUME NEW f PROVE WithLight(n, f) = WithLight(n - 1, f)
    BY <1>1, <1>2, <1>7, SiblingOfBig
  <2>2. ASSUME NEW f, NEW shared PROVE Marginal(n, f, shared) = Marginal(n - 1, f, shared)
    BY <2>1 DEF Marginal
  <2> QED BY <1>2, <1>7, <2>2 DEF RowA
<1> QED BY <1>4, <1>5, <1>6, <1>7

(* Whatever the command line, the sample file and the solution of the      *)
(* normal equations: the parameters stay physical, and no row of either    *)
(* experiment has a negative power, time or energy.                        *)
THEOREM RailTypeCorrect == Spec => []TypeOK
<1>1. RailInv => TypeOK
  BY DEF RailInv
<1> QED BY <1>1, RailInductive, PTL

(* The bisection of freq_under_power_cap finds the highest frequency that  *)
(* keeps PL1, for any number of cores, any turbo bins and any parameters:  *)
(* the power of the row's own cores rises with the frequency of the        *)
(* compile, and they are the cores the search was given.                   *)
THEOREM CapIsMet == Spec => []CapMet
<1>1. RailInv => CapMet
  <2> SUFFICES ASSUME RailInv, pc = "row", Capped PROVE CapMet
    BY DEF CapMet
  <2>1. TypeOK /\ RowLeft
    BY DEF RailInv, RowsLeft
  <2>2. ASSUME NEW f \in Nat
        PROVE  p_at(f) = Watts(params, Phase1(f), shared_rail, args.temp_c) /\ p_at(f) \in Nat
    <3>1. f <= f
      OBVIOUS
    <3> QED BY <2>1, <3>1, CapPower
  <2>3. lo \in Nat /\ f_ceiling \in Nat
    BY <2>1, RowNumbers DEF TypeOK
  <2>4. \A f \in lo + TOL .. f_ceiling : f \in Nat
    BY <2>3 DEF TOL
  <2>5. /\ p_at(lo) <= PL1 \/ lo = F_MIN
        /\ \A f \in lo + TOL .. f_ceiling : PL1 <= p_at(f)
    BY DEF RailInv, Found
  <2>6. \A f \in lo + TOL .. f_ceiling : p_at(f) >= PL1
    BY <2>2, <2>4, <2>5 DEF PL1
  <2> QED BY <2>2, <2>3, <2>4, <2>5, <2>6 DEF CapMet
<1> QED BY <1>1, RailInductive, PTL

(* Experiment A orders its three columns as the printed text says: the     *)
(* power of any cores rises with their frequency and activity, and the     *)
(* difference between the rails is what SplitLeaksLess says per core.      *)
THEOREM MarginalsAreOrdered == Spec => []MarginalOrder
<1>1. RailInv => MarginalOrder
  BY OrderedRows
<1> QED BY <1>1, RailInductive, PTL

(* The floor of the package moves the crossover of experiment C up: the    *)
(* run time falls with the frequency, so the floor adds more below.        *)
THEOREM FloorRaises == Spec => []FloorRaisesOptimum
<1>1. RailInv => FloorRaisesOptimum
  BY DEF RailInv
<1> QED BY <1>1, RailInductive, PTL

-----------------------------------------------------------------------------
(* The two rails of experiment B                                           *)

(* A core on its own rail pays for no more than the fastest one.           *)
LEMMA SplitVoltage ==
    ASSUME NEW n \in Nat, NEW cores \in CoreStates(n), ActiveCores(cores) # {}, NEW i \in 1 .. n
    PROVE  RailVoltage(cores, FALSE, i) <= RailVoltage(cores, TRUE, i)
<1>1. cores[i][1] \in Nat
  BY DEF CoreStates
<1>2. FMaxActive(cores) \in Nat /\ RailVoltage(cores, TRUE, i) = v_of_f(FMaxActive(cores))
  BY FastestCore DEF RailVoltage
<1>3. CASE Active(cores[i])
  <2>1. i \in ActiveCores(cores)
    BY <1>3 DEF ActiveCores, CoreStates
  <2>2. cores[i][1] <= FMaxActive(cores)
    BY <2>1, FastestCore
  <2>3. RailVoltage(cores, FALSE, i) = v_of_f(cores[i][1])
    BY <1>3 DEF RailVoltage
  <2> QED BY <1>1, <1>2, <2>2, <2>3, VoltageMono
<1>4. CASE ~Active(cores[i])
  <2>1. RailVoltage(cores, FALSE, i) = v_of_f(F_MIN)
    BY <1>4 DEF RailVoltage
  <2> QED BY <1>2, <2>1, VoltageFloor
<1> QED BY <1>3, <1>4

LEMMA SplitWatts ==
    ASSUME NEW p \in Params, NEW temp, leak_temp_factor(temp) \in Nat,
           NEW n \in Nat, NEW cores \in CoreStates(n)
    PROVE  /\ Watts(p, cores, FALSE, temp) \in Nat /\ Watts(p, cores, TRUE, temp) \in Nat
           /\ Watts(p, cores, FALSE, temp) <= Watts(p, cores, TRUE, temp)
<1> DEFINE low == Watts(p, cores, FALSE, temp)
           high == Watts(p, cores, TRUE, temp)
<1>1. low \in Nat /\ high \in Nat
  BY WattsNat
<1>2. CASE ActiveCores(cores) = {}
  <2>1. package_power(p, cores, FALSE, temp) = package_power(p, cores, TRUE, temp)
    BY <1>2 DEF package_power
  <2>2. low = high
    BY <2>1 DEF Watts
  <2> HIDE DEF low, high
  <2>3. low <= high
    BY <1>1, <2>2
  <2> QED BY <1>1, <2>3 DEF low, high
<1>3. CASE ActiveCores(cores) # {}
  <2> DEFINE df == DynOf(p, cores, FALSE)
             dt == DynOf(p, cores, TRUE)
             lf == LeakOf(p, cores, FALSE, temp)
             lt == LeakOf(p, cores, TRUE, temp)
             u == p.p_sa_floor + Ring(FMaxActive(cores)) + Traffic(cores)
  <2>1. ASSUME NEW i \in 1 .. n PROVE df[i] <= dt[i] /\ lf[i] <= lt[i]
    <3> DEFINE v == RailVoltage(cores, FALSE, i)
               w == RailVoltage(cores, TRUE, i)
               f == cores[i][1]
               a == cores[i][2]
               c == p.C_eff
               x == Active(cores[i])
    <3>1. /\ df[i] = Dynamic(c, v, f, a) /\ dt[i] = Dynamic(c, w, f, a)
          /\ lf[i] = core_leakage(p, v, x, temp) /\ lt[i] = core_leakage(p, w, x, temp)
      BY DEF DynOf, LeakOf, CoreStates
    <3>2. v \in Nat /\ w \in Nat /\ v <= w
      BY <1>3, RailVoltageNat, SplitVoltage
    <3>3. f \in Nat /\ a \in Nat /\ c \in Nat /\ f <= f /\ a <= a
      BY DEF CoreStates, Params
    <3>4. x \in BOOLEAN
      BY DEF Active
    <3> HIDE DEF v, w, f, a, c, x, df, dt, lf, lt
    <3>5. Dynamic(c, v, f, a) <= Dynamic(c, w, f, a)
      BY <3>2, <3>3, DynamicMono
    <3>6. core_leakage(p, v, x, temp) <= core_leakage(p, w, x, temp)
      BY <3>2, <3>4, LeakMono
    <3> QED BY <3>1, <3>5, <3>6
  <2>2. /\ df \in [1 .. n -> Nat] /\ dt \in [1 .. n -> Nat]
        /\ lf \in [1 .. n -> Nat] /\ lt \in [1 .. n -> Nat]
    BY <1>3, PartsNat
  <2>3. low = Total(df) + Total(lf) + u /\ high = Total(dt) + Total(lt) + u
    BY <1>3, WattsIs
  <2>4. u \in Nat
    <3>1. FMaxActive(cores) \in Nat /\ FMaxActive(cores) <= FMaxActive(cores)
      BY <1>3, FastestCore
    <3>2. Ring(FMaxActive(cores)) \in Nat
      BY <3>1, RingMono
    <3>3. p.p_sa_floor \in Nat
      BY DEF Params
    <3> QED BY <3>2, <3>3, WorkNat
  <2> HIDE DEF df, dt, lf, lt, u
  <2>5. /\ Total(df) \in Nat /\ Total(dt) \in Nat
        /\ Total(lf) \in Nat /\ Total(lt) \in Nat
    BY <2>2, CoresFinite, TotalNat
  <2>6. Total(df) <= Total(dt)
    BY <2>1, <2>2, CoresFinite, TotalMono
  <2>7. Total(lf) <= Total(lt)
    BY <2>1, <2>2, CoresFinite, TotalMono
  <2> HIDE DEF low, high
  <2>8. low <= high
    BY <2>3, <2>4, <2>5, <2>6, <2>7
  <2> QED BY <1>1, <2>8 DEF low, high
<1> QED BY <1>2, <1>3

(* A row as a function of the rail and of the frequency of the compile.    *)
PowerAt(shared, f) == Watts(params, Phase1(f), shared, args.temp_c)
RestAt(shared) == Watts(params, Phase2, shared, args.temp_c)
TimeAt(f) == (W_COMPILE * 1000) \div (n_work * f)
EnergyOf(shared, f) ==
    Energy(PowerAt(shared, f), TimeAt(f))
      + Energy(RestAt(shared), AtLeast(HORIZON * 1000 - TimeAt(f), 0))
RowAt(shared, f) ==
    [n_big |-> n_big, shared |-> shared, f_work |-> f, f_bg |-> f_bg, a_bg |-> a_bg,
     t_compile |-> TimeAt(f), feasible |-> TimeAt(f) <= HORIZON * 1000,
     p1 |-> PowerAt(shared, f), p2 |-> RestAt(shared), energy |-> EnergyOf(shared, f)]

LEMMA RowIs == Row = RowAt(shared_rail, lo)
  BY DEF Row, RowAt, PowerAt, RestAt, TimeAt, EnergyOf

LEMMA RowPower ==
    ASSUME TypeOK, RowLeft, NEW f \in Nat
    PROVE  /\ PowerAt(TRUE, f) \in Nat /\ PowerAt(FALSE, f) \in Nat
           /\ PowerAt(FALSE, f) <= PowerAt(TRUE, f)
           /\ RestAt(TRUE) \in Nat /\ RestAt(FALSE) \in Nat /\ RestAt(FALSE) <= RestAt(TRUE)
           /\ p_at(f) = PowerAt(shared_rail, f)
<1>1. params \in Params /\ leak_temp_factor(args.temp_c) \in Nat
  BY TempAssumption DEF TypeOK, Params
<1>2. /\ N_PHYS_CORES \in Nat
      /\ Phase1(f) \in CoreStates(N_PHYS_CORES) /\ Phase2 \in CoreStates(N_PHYS_CORES)
  BY PhasesType, CoreAssumption
<1>3. /\ PowerAt(TRUE, f) \in Nat /\ PowerAt(FALSE, f) \in Nat
      /\ PowerAt(FALSE, f) <= PowerAt(TRUE, f)
  BY <1>1, <1>2, SplitWatts DEF PowerAt
<1>4. RestAt(TRUE) \in Nat /\ RestAt(FALSE) \in Nat /\ RestAt(FALSE) <= RestAt(TRUE)
  BY <1>1, <1>2, SplitWatts DEF RestAt
<1>5. p_at(f) = PowerAt(shared_rail, f)
  <2>1. f <= f
    OBVIOUS
  <2> QED BY <2>1, CapPower DEF PowerAt
<1> QED BY <1>3, <1>4, <1>5

(* What a row on the shared rail is next to the one on split rails.        *)
NoBetter(r, s) ==
    /\ r.f_work <= s.f_work /\ r.t_compile >= s.t_compile
    /\ r.f_work = s.f_work =>
        /\ r.feasible = s.feasible
        /\ r.p1 >= s.p1 /\ r.p2 >= s.p2 /\ r.energy >= s.energy

LEMMA EnergyMono ==
    ASSUME NEW p \in Nat, NEW q \in Nat, p <= q, NEW t \in Nat
    PROVE  Energy(p, t) \in Nat /\ Energy(q, t) \in Nat /\ Energy(p, t) <= Energy(q, t)
<1> DEFINE d == t \div 10
           a == p * d
           b == q * d
<1>1. d \in Nat /\ d <= d
  OBVIOUS
<1>2. Energy(p, t) = a \div 100 /\ Energy(q, t) = b \div 100
  BY DEF Energy
<1> HIDE DEF d
<1>3. a \in Nat /\ b \in Nat /\ a <= b
  BY <1>1, ProductMono
<1> HIDE DEF a, b
<1>4. 100 \in Nat \ {0}
  OBVIOUS
<1> QED BY <1>2, <1>3, <1>4, QuotientMono

LEMMA TimeFalls ==
    ASSUME TypeOK, RowLeft, NEW f \in Nat, NEW g \in Nat, F_MIN <= f, f <= g
    PROVE  TimeAt(f) \in Nat /\ TimeAt(g) \in Nat /\ TimeAt(g) <= TimeAt(f)
<1> DEFINE w == W_COMPILE * 1000
           a == n_work * f
           b == n_work * g
<1>1. n_work \in Nat /\ n_work > 0
  BY RowNumbers, CoreAssumption
<1>2. f > 0 /\ g > 0
  BY DEF F_MIN
<1>3. n_work <= n_work
  BY <1>1
<1>4. a \in Nat \ {0} /\ b \in Nat \ {0} /\ a <= b
  <2>1. a \in Nat /\ b \in Nat /\ a <= b
    BY <1>1, <1>3, ProductMono
  <2>2. a > 0 /\ b > 0
    BY <1>1, <1>2
  <2> QED BY <2>1, <2>2
<1>5. w \in Nat
  BY DEF W_COMPILE
<1>6. TimeAt(f) = w \div a /\ TimeAt(g) = w \div b
  BY DEF TimeAt
<1> HIDE DEF w, a, b
<1> QED BY <1>4, <1>5, <1>6, QuotientFalls

LEMMA RowsCompare ==
    ASSUME TypeOK, RowLeft, NEW f \in Nat, NEW g \in Nat, F_MIN <= f, f <= g
    PROVE  NoBetter(RowAt(TRUE, f), RowAt(FALSE, g))
<1> DEFINE r == RowAt(TRUE, f)
           s == RowAt(FALSE, g)
<1>1. /\ r.f_work = f /\ r.t_compile = TimeAt(f) /\ r.feasible = (TimeAt(f) <= HORIZON * 1000)
      /\ r.p1 = PowerAt(TRUE, f) /\ r.p2 = RestAt(TRUE) /\ r.energy = EnergyOf(TRUE, f)
  BY DEF RowAt
<1>2. /\ s.f_work = g /\ s.t_compile = TimeAt(g) /\ s.feasible = (TimeAt(g) <= HORIZON * 1000)
      /\ s.p1 = PowerAt(FALSE, g) /\ s.p2 = RestAt(FALSE) /\ s.energy = EnergyOf(FALSE, g)
  BY DEF RowAt
<1> HIDE DEF r, s
<1>3. TimeAt(f) \in Nat /\ TimeAt(g) \in Nat /\ TimeAt(g) <= TimeAt(f)
  BY TimeFalls
<1>4. ASSUME f = g
      PROVE  /\ PowerAt(TRUE, f) >= PowerAt(FALSE, g) /\ RestAt(TRUE) >= RestAt(FALSE)
             /\ EnergyOf(TRUE, f) >= EnergyOf(FALSE, g)
  <2> DEFINE t == TimeAt(f)
             t2 == AtLeast(HORIZON * 1000 - t, 0)
  <2>1. t \in Nat /\ t2 \in Nat
    BY <1>3 DEF AtLeast, HORIZON
  <2>2. /\ EnergyOf(TRUE, f) = Energy(PowerAt(TRUE, f), t) + Energy(RestAt(TRUE), t2)
        /\ EnergyOf(FALSE, g) = Energy(PowerAt(FALSE, f), t) + Energy(RestAt(FALSE), t2)
    BY <1>4 DEF EnergyOf
  <2> HIDE DEF t, t2
  <2> DEFINE a == PowerAt(TRUE, f)
             b == PowerAt(FALSE, f)
             c == RestAt(TRUE)
             d == RestAt(FALSE)
  <2>3. a \in Nat /\ b \in Nat /\ b <= a /\ c \in Nat /\ d \in Nat /\ d <= c
    BY RowPower
  <2> HIDE DEF a, b, c, d
  <2>4. Energy(b, t) \in Nat /\ Energy(a, t) \in Nat /\ Energy(b, t) <= Energy(a, t)
    BY <2>1, <2>3, EnergyMono
  <2>5. Energy(d, t2) \in Nat /\ Energy(c, t2) \in Nat /\ Energy(d, t2) <= Energy(c, t2)
    BY <2>1, <2>3, EnergyMono
  <2>6. Energy(a, t) + Energy(c, t2) >= Energy(b, t) + Energy(d, t2)
    BY <2>4, <2>5
  <2>7. EnergyOf(TRUE, f) >= EnergyOf(FALSE, g)
    BY <2>2, <2>6 DEF a, b, c, d
  <2>8. a >= b /\ c >= d
    BY <2>3
  <2>9. PowerAt(TRUE, f) >= PowerAt(FALSE, g) /\ RestAt(TRUE) >= RestAt(FALSE)
    BY <1>4, <2>8 DEF a, b, c, d
  <2> QED BY <2>7, <2>9
<1>5. r.f_work <= s.f_work /\ r.t_compile >= s.t_compile
  <2>1. TimeAt(f) >= TimeAt(g)
    BY <1>3
  <2> QED BY <1>1, <1>2, <2>1
<1>6. ASSUME r.f_work = s.f_work
      PROVE  /\ r.feasible = s.feasible
             /\ r.p1 >= s.p1 /\ r.p2 >= s.p2 /\ r.energy >= s.energy
  <2>1. f = g
    BY <1>1, <1>2, <1>6
  <2>2. r.feasible = s.feasible
    BY <1>1, <1>2, <2>1
  <2>3. r.p1 >= s.p1 /\ r.p2 >= s.p2 /\ r.energy >= s.energy
    <3> DEFINE a == PowerAt(TRUE, f)
               b == PowerAt(FALSE, g)
               c == RestAt(TRUE)
               d == RestAt(FALSE)
               x == EnergyOf(TRUE, f)
               y == EnergyOf(FALSE, g)
    <3>1. a >= b /\ c >= d /\ x >= y
      BY <1>4, <2>1
    <3>2. r.p1 = a /\ r.p2 = c /\ r.energy = x /\ s.p1 = b /\ s.p2 = d /\ s.energy = y
      BY <1>1, <1>2
    <3> HIDE DEF a, b, c, d, x, y
    <3> QED BY <3>1, <3>2
  <2> QED BY <2>2, <2>3
<1>7. NoBetter(r, s)
  BY <1>5, <1>6 DEF NoBetter
<1> QED BY <1>7 DEF r, s

(* What freq_under_power_cap answers: the ceiling where no cap is in       *)
(* force, F_MIN where the cap cannot be met, and else the last frequency   *)
(* that keeps it.                                                          *)
Answer(shared, f) ==
    /\ F_MIN <= f /\ f <= f_ceiling
    /\ ~Capped => f = f_ceiling
    /\ Capped =>
        \/ PL1 <= PowerAt(shared, F_MIN) /\ f = F_MIN
        \/ /\ PowerAt(shared, F_MIN) < PL1 /\ PowerAt(shared, f) <= PL1
           /\ \A g \in Nat : f < g /\ g <= f_ceiling => PL1 < PowerAt(shared, g)

(* The shared rail never gets the higher frequency.                        *)
LEMMA AnswersCompare ==
    ASSUME TypeOK, RowLeft, NEW f \in Nat, NEW g \in Nat, Answer(TRUE, f), Answer(FALSE, g)
    PROVE  F_MIN <= f /\ f <= g /\ (~Capped => f = g)
<1>1. F_MIN <= f /\ f <= f_ceiling /\ F_MIN <= g /\ F_MIN \in Nat
  BY DEF Answer, F_MIN
<1>2. CASE ~Capped
  BY <1>1, <1>2 DEF Answer
<1>3. CASE Capped /\ f = F_MIN
  BY <1>1, <1>3
<1>4. CASE Capped /\ f # F_MIN
  <2>1. PowerAt(TRUE, F_MIN) < PL1 /\ PowerAt(TRUE, f) <= PL1
    BY <1>4 DEF Answer
  <2>2. /\ PowerAt(TRUE, F_MIN) \in Nat /\ PowerAt(FALSE, F_MIN) \in Nat
        /\ PowerAt(FALSE, F_MIN) <= PowerAt(TRUE, F_MIN)
    BY <1>1, RowPower
  <2>3. /\ PowerAt(TRUE, f) \in Nat /\ PowerAt(FALSE, f) \in Nat
        /\ PowerAt(FALSE, f) <= PowerAt(TRUE, f)
    BY RowPower
  <2>4. ~(PL1 <= PowerAt(FALSE, F_MIN))
    <3> DEFINE a == PowerAt(TRUE, F_MIN)
               b == PowerAt(FALSE, F_MIN)
    <3>1. a < PL1 /\ a \in Nat /\ b \in Nat /\ b <= a
      BY <2>1, <2>2
    <3> HIDE DEF a, b
    <3>2. ~(PL1 <= b)
      BY <3>1 DEF PL1
    <3> QED BY <3>2 DEF b
  <2>5. \A h \in Nat : g < h /\ h <= f_ceiling => PL1 < PowerAt(FALSE, h)
    BY <1>4, <2>4 DEF Answer
  <2>6. ~(g < f)
    <3> DEFINE a == PowerAt(TRUE, f)
               b == PowerAt(FALSE, f)
    <3>1. a <= PL1 /\ a \in Nat /\ b \in Nat /\ b <= a
      BY <2>1, <2>3
    <3>2. g < f => PL1 < b
      BY <1>1, <2>5
    <3> HIDE DEF a, b
    <3> QED BY <3>1, <3>2 DEF PL1
  <2>7. f <= g
    BY <2>6
  <2> QED BY <1>1, <1>4, <2>7
<1> QED BY <1>2, <1>3, <1>4

(* Where the search stands.                                                *)
Answered ==
    \E shared \in BOOLEAN, f \in Nat : shared = shared_rail /\ f = lo /\ Answer(shared, f)

Searched ==
    /\ pc = "bisect" => p_at(F_MIN) < PL1
    /\ pc = "row" => Answered

(* Between the two rows of a pair the first is on the shared rail.         *)
HalfPair ==
    RowLeft /\ ~shared_rail =>
        \E f \in Nat : Answer(TRUE, f) /\ rows_b[Len(rows_b)] = RowAt(TRUE, f)

(* Rows are made in pairs, the shared rail first, and the second row is    *)
(* never the slower one.                                                   *)
Alternating == \A i \in DOMAIN rows_b : rows_b[i].shared = (i % 2 = 1)

PairsCompared ==
    \A i \in DOMAIN rows_b :
        rows_b[i].shared /\ i + 1 \in DOMAIN rows_b =>
            /\ NoBetter(rows_b[i], rows_b[i + 1])
            /\ args.no_pl1 => rows_b[i].f_work = rows_b[i + 1].f_work

RowsComplete ==
    /\ pc \in {"main", "usage", "calibrate", "died", "a"} => rows_b = <<>>
    /\ pc \in {"c", "done"} => Len(rows_b) = 2 * (N_PHYS_CORES + 1)

PairsInv == Searched /\ HalfPair /\ Alternating /\ PairsCompared /\ RowsComplete

LEMMA SamePair ==
    ASSUME args' = args, params' = params, n_big' = n_big
    PROVE  \A shared \in BOOLEAN : \A f :
             (Answer(shared, f)' <=> Answer(shared, f)) /\ RowAt(shared, f)' = RowAt(shared, f)
<1>2. n_little' = n_little
  BY DEF n_little
<1>3. n_work' = n_work /\ f_ceiling' = f_ceiling /\ (Capped' <=> Capped)
  BY <1>2 DEF n_work, f_ceiling, Capped
<1>4. f_bg' = f_bg /\ n_bg' = n_bg
  BY <1>2, <1>3 DEF f_bg, n_bg
<1>5. a_bg' = a_bg
  BY <1>4 DEF a_bg, a_needed
<1>6. \A first, i : Background(first, i)' = Background(first, i)
  BY <1>4, <1>5 DEF Background
<1>7. ASSUME NEW f PROVE Phase1(f)' = Phase1(f)
  BY <1>3, <1>6 DEF Phase1
<1>8. Phase2' = Phase2
  BY <1>2, <1>3, <1>6 DEF Phase2
<1> SUFFICES ASSUME NEW shared \in BOOLEAN
             PROVE  \A f : (Answer(shared, f)' <=> Answer(shared, f))
                             /\ RowAt(shared, f)' = RowAt(shared, f)
  OBVIOUS
<1>9. \A f : PowerAt(shared, f)' = PowerAt(shared, f)
  BY <1>7 DEF PowerAt
<1>10. RestAt(shared)' = RestAt(shared)
  BY <1>8 DEF RestAt
<1>11. \A f : TimeAt(f)' = TimeAt(f)
  BY <1>3 DEF TimeAt
<1>12. \A f : EnergyOf(shared, f)' = EnergyOf(shared, f)
  BY <1>9, <1>10, <1>11 DEF EnergyOf
<1>13. \A f : RowAt(shared, f)' = RowAt(shared, f)
  BY <1>4, <1>5, <1>9, <1>10, <1>11, <1>12 DEF RowAt
<1>14. \A f : Answer(shared, f)' <=> Answer(shared, f)
  BY <1>3, <1>9 DEF Answer
<1> QED BY <1>13, <1>14

(* The parts that a step which adds no row leaves alone.                   *)
LEMMA KeptPairs ==
    ASSUME PairsInv, rows_b' = rows_b,
           args' = args, params' = params \/ rows_b = <<>>
    PROVE  HalfPair' /\ Alternating' /\ PairsCompared'
<1>1. Alternating' /\ PairsCompared'
  BY DEF PairsInv, Alternating, PairsCompared, NoBetter
<1>2. n_big' = n_big /\ (shared_rail' <=> shared_rail) /\ (RowLeft' <=> RowLeft)
  BY DEF n_big, shared_rail, RowLeft
<1>3. CASE rows_b = <<>>
  <2>1. shared_rail'
    <3>1. Len(rows_b) = 0 /\ 0 % 2 = 0
      BY <1>3
    <3> QED BY <1>2, <3>1 DEF shared_rail
  <2> QED BY <1>1, <2>1 DEF HalfPair
<1>4. CASE params' = params
  <2>1. \A f : (Answer(TRUE, f)' <=> Answer(TRUE, f)) /\ RowAt(TRUE, f)' = RowAt(TRUE, f)
    BY <1>2, <1>4, SamePair
  <2>2. RowLeft /\ ~shared_rail =>
          \E f \in Nat : Answer(TRUE, f) /\ rows_b[Len(rows_b)] = RowAt(TRUE, f)
    BY DEF PairsInv, HalfPair
  <2> QED BY <1>1, <1>2, <2>1, <2>2 DEF HalfPair
<1> QED BY <1>3, <1>4

LEMMA PairsInit == Init => PairsInv
<1> SUFFICES ASSUME Init PROVE PairsInv
  OBVIOUS
<1>1. pc = "main" /\ rows_b = <<>> /\ Len(rows_b) = 0 /\ DOMAIN rows_b = {}
  BY DEF Init
<1>2. shared_rail
  BY <1>1 DEF shared_rail
<1> QED BY <1>1, <1>2 DEF PairsInv, Searched, HalfPair, Alternating, PairsCompared, RowsComplete

(* Steps before and after experiment B.                                    *)
LEMMA PairsElsewhere ==
    ASSUME PairsInv, main \/ calibrate \/ experiment_a \/ experiment_c
    PROVE  PairsInv'
<1>1. /\ rows_b' = rows_b /\ args' = args /\ pc' \notin {"bisect", "row"}
      /\ params' = params \/ rows_b = <<>>
      /\ pc' \in {"main", "usage", "calibrate", "died", "a"} => rows_b = <<>>
      /\ pc' \in {"c", "done"} => pc = "c"
  <2>1. CASE main
    BY <2>1 DEF main, PairsInv, RowsComplete
  <2>2. CASE calibrate
    BY <2>2 DEF calibrate, PairsInv, RowsComplete
  <2>3. CASE experiment_a
    BY <2>3 DEF experiment_a, PairsInv, RowsComplete
  <2>4. CASE experiment_c
    BY <2>4 DEF experiment_c
  <2> QED BY <2>1, <2>2, <2>3, <2>4
<1>2. HalfPair' /\ Alternating' /\ PairsCompared'
  BY <1>1, KeptPairs
<1>3. Searched' /\ RowsComplete'
  BY <1>1 DEF PairsInv, Searched, RowsComplete
<1> QED BY <1>2, <1>3 DEF PairsInv

LEMMA PairsStartRow == RailInv /\ PairsInv /\ StartRow => PairsInv'
<1> SUFFICES ASSUME RailInv, PairsInv, StartRow PROVE PairsInv'
  OBVIOUS
<1>0. /\ pc = "b" /\ pc' \in {"row", "bisect"}
      /\ args' = args /\ params' = params /\ rows_b' = rows_b
  BY DEF StartRow
<1>1. TypeOK /\ RowLeft
  BY <1>0 DEF RailInv, RowsLeft
<1>2. f_ceiling \in Nat /\ f_ceiling >= F_MIN /\ F_MIN \in Nat /\ shared_rail \in BOOLEAN
  BY <1>1, RowNumbers DEF F_MIN
<1>3. \/ lo' = f_ceiling /\ ~Capped /\ pc' = "row"
      \/ lo' = F_MIN /\ Capped /\ p_at(F_MIN) >= PL1 /\ pc' = "row"
      \/ /\ lo' = f_ceiling /\ Capped /\ ~(p_at(F_MIN) >= PL1) /\ p_at(f_ceiling) <= PL1
         /\ pc' = "row"
      \/ ~(p_at(F_MIN) >= PL1) /\ pc' = "bisect"
  BY DEF StartRow
<1>4. /\ p_at(F_MIN) = PowerAt(shared_rail, F_MIN) /\ p_at(F_MIN) \in Nat
      /\ p_at(f_ceiling) = PowerAt(shared_rail, f_ceiling) /\ PL1 \in Nat
  <2>1. p_at(F_MIN) = PowerAt(shared_rail, F_MIN)
    BY <1>1, <1>2, RowPower
  <2>2. p_at(f_ceiling) = PowerAt(shared_rail, f_ceiling)
    BY <1>1, <1>2, RowPower
  <2>3. F_MIN <= F_MIN
    BY <1>2
  <2>4. p_at(F_MIN) \in Nat
    BY <1>1, <1>2, <2>3, CapPower
  <2>5. PL1 \in Nat
    BY DEF PL1
  <2> QED BY <2>1, <2>2, <2>4, <2>5
<1>5. n_big' = n_big /\ shared_rail' = shared_rail
  BY <1>0 DEF n_big, shared_rail
<1>6. \A shared \in BOOLEAN : \A f : Answer(shared, f)' <=> Answer(shared, f)
  BY <1>0, <1>5, SamePair
<1>7. Searched'
  <2>1. ASSUME pc' = "bisect" PROVE p_at(F_MIN)' < PL1
    <3>1. p_at(F_MIN)' = p_at(F_MIN)
      BY <1>0, SameRow
    <3> QED BY <1>3, <1>4, <2>1, <3>1
  <2>2. ASSUME pc' = "row" PROVE Answered'
    <3> DEFINE s == shared_rail
    <3>1. \E f \in Nat : f = lo' /\ Answer(s, f)
      <4>1. CASE lo' = f_ceiling /\ ~Capped
        BY <1>2, <4>1 DEF Answer
      <4>2. CASE lo' = F_MIN /\ Capped /\ p_at(F_MIN) >= PL1
        BY <1>2, <1>4, <4>2 DEF Answer
      <4>3. CASE /\ lo' = f_ceiling /\ Capped
                 /\ ~(p_at(F_MIN) >= PL1) /\ p_at(f_ceiling) <= PL1
        BY <1>2, <1>4, <4>3 DEF Answer
      <4> QED BY <1>3, <2>2, <4>1, <4>2, <4>3
    <3>2. \E shared \in BOOLEAN, f \in Nat : shared = s /\ f = lo' /\ Answer(shared, f)
      BY <1>2, <3>1
    <3> QED BY <1>5, <1>6, <3>2 DEF Answered
  <2> QED BY <2>1, <2>2 DEF Searched
<1>8. RowsComplete'
  BY <1>0 DEF RowsComplete
<1>9. HalfPair' /\ Alternating' /\ PairsCompared'
  BY <1>0, KeptPairs
<1> QED BY <1>7, <1>8, <1>9 DEF PairsInv

LEMMA PairsBisect == RailInv /\ PairsInv /\ Bisect => PairsInv'
<1> SUFFICES ASSUME RailInv, PairsInv, Bisect PROVE PairsInv'
  OBVIOUS
<1>0. /\ pc = "bisect" /\ pc' \in {"row", "bisect"}
      /\ args' = args /\ params' = params /\ rows_b' = rows_b
      /\ pc' = "row" => lo' = lo /\ hi - lo <= TOL
  BY DEF Bisect
<1>1. TypeOK /\ RowLeft
  BY <1>0 DEF RailInv, RowsLeft
<1>2. /\ f_ceiling \in Nat /\ lo \in Nat /\ hi \in Nat /\ F_MIN <= lo /\ F_MIN \in Nat
      /\ shared_rail \in BOOLEAN
  BY <1>1, RowNumbers DEF TypeOK, F_MIN
<1>3. Capped /\ lo < hi /\ hi <= f_ceiling /\ p_at(lo) <= PL1 /\ PL1 < p_at(hi)
  BY <1>0 DEF RailInv, Bracket
<1>4. p_at(F_MIN) < PL1
  BY <1>0 DEF PairsInv, Searched
<1>5. n_big' = n_big /\ shared_rail' = shared_rail
  BY <1>0 DEF n_big, shared_rail
<1>6. \A shared \in BOOLEAN : \A f : Answer(shared, f)' <=> Answer(shared, f)
  BY <1>0, <1>5, SamePair
<1>7. Searched'
  <2>1. ASSUME pc' = "bisect" PROVE p_at(F_MIN)' < PL1
    <3>1. p_at(F_MIN)' = p_at(F_MIN)
      BY <1>0, SameRow
    <3> QED BY <1>4, <3>1
  <2>2. ASSUME pc' = "row" PROVE Answered'
    <3>1. lo' = lo /\ hi - lo <= TOL
      BY <1>0, <2>2
    <3>2. ASSUME NEW g \in Nat, lo < g, g <= f_ceiling PROVE PL1 < PowerAt(shared_rail, g)
      <4>1. hi <= g
        BY <1>2, <1>3, <3>1, <3>2 DEF TOL
      <4>2. p_at(hi) \in Nat /\ p_at(g) \in Nat /\ p_at(hi) <= p_at(g) /\ PL1 \in Nat
        BY <1>1, <1>2, <4>1, CapPower DEF PL1
      <4>3. p_at(g) = PowerAt(shared_rail, g)
        BY <1>1, RowPower
      <4> QED BY <1>3, <4>2, <4>3
    <3>3. p_at(F_MIN) = PowerAt(shared_rail, F_MIN) /\ p_at(lo) = PowerAt(shared_rail, lo)
      BY <1>1, <1>2, RowPower
    <3>4. lo <= f_ceiling
      BY <1>2, <1>3
    <3>5. Answer(shared_rail, lo)
      BY <1>2, <1>3, <1>4, <3>2, <3>3, <3>4 DEF Answer
    <3> DEFINE s == shared_rail
               l == lo
    <3>6. \E shared \in BOOLEAN, f \in Nat : shared = s /\ f = l /\ Answer(shared, f)
      BY <1>2, <3>5
    <3> QED BY <1>5, <1>6, <3>1, <3>6 DEF Answered
  <2> QED BY <2>1, <2>2 DEF Searched
<1>8. RowsComplete'
  BY <1>0 DEF RowsComplete
<1>9. HalfPair' /\ Alternating' /\ PairsCompared'
  BY <1>0, KeptPairs
<1> QED BY <1>7, <1>8, <1>9 DEF PairsInv

LEMMA RailPairs == \A k \in Nat : k % 2 \in {0, 1} /\ (k % 2 = 0 <=> (k + 1) % 2 = 1)
                                  /\ (k % 2 = 0 => (k + 1) \div 2 = k \div 2)
  OBVIOUS

LEMMA PairsFinishRow == RailInv /\ PairsInv /\ FinishRow => PairsInv'
<1> SUFFICES ASSUME RailInv, PairsInv, FinishRow PROVE PairsInv'
  OBVIOUS
<1> DEFINE k == Len(rows_b)
           RowsB == [n_big : Nat, shared : BOOLEAN, f_work : Nat, f_bg : Nat, a_bg : Nat,
                     t_compile : Nat, feasible : BOOLEAN, p1 : Nat, p2 : Nat, energy : Nat]
<1>0. /\ pc = "row" /\ pc' \in {"b", "c"}
      /\ pc' = "c" => ~(Len(rows_b') < 2 * (N_PHYS_CORES + 1))
      /\ rows_b' = Append(rows_b, Row)
      /\ args' = args /\ params' = params
  BY DEF FinishRow
<1>1. TypeOK /\ RowLeft /\ TypeOK'
  BY <1>0, RailFinishRow DEF RailInv, RowsLeft
<1>2. PICK shared \in BOOLEAN, f \in Nat : shared = shared_rail /\ f = lo /\ Answer(shared, f)
  BY <1>0 DEF PairsInv, Searched, Answered
<1>3. Row = RowAt(shared, f)
  BY <1>2, RowIs
<1>4. /\ k \in Nat /\ DOMAIN rows_b = 1 .. k
      /\ Len(rows_b') = k + 1 /\ DOMAIN rows_b' = 1 .. k + 1
      /\ rows_b'[k + 1] = RowAt(shared, f) /\ \A i \in 1 .. k : rows_b'[i] = rows_b[i]
  <2>1. rows_b \in Seq(RowsB)
    BY <1>1 DEF TypeOK
  <2>2. k \in Nat /\ DOMAIN rows_b = 1 .. k
    BY <2>1
  <2>3. Row \in RowsB
    BY <1>1, RowType
  <2> HIDE DEF RowsB
  <2> QED BY <1>0, <1>3, <2>1, <2>2, <2>3
<1>5. shared = (k % 2 = 0)
  BY <1>2 DEF shared_rail
<1>6. RowAt(shared, f).shared = shared
  BY DEF RowAt
<1> HIDE DEF k
<1>7. Alternating'
  <2>1. ASSUME NEW i \in 1 .. k + 1 PROVE rows_b'[i].shared = (i % 2 = 1)
    <3>1. CASE i = k + 1
      BY <1>4, <1>5, <1>6, <3>1, RailPairs
    <3>2. CASE i # k + 1
      <4>1. i \in 1 .. k
        BY <1>4, <3>2
      <4> QED BY <1>4, <4>1 DEF PairsInv, Alternating
    <3> QED BY <3>1, <3>2
  <2> QED BY <1>4, <2>1 DEF Alternating
<1>8. PairsCompared'
  <2>1. ASSUME NEW i \in 1 .. k + 1, rows_b'[i].shared, i + 1 \in 1 .. k + 1
        PROVE  /\ NoBetter(rows_b'[i], rows_b'[i + 1])
               /\ args.no_pl1 => rows_b'[i].f_work = rows_b'[i + 1].f_work
    <3>1. i \in 1 .. k /\ rows_b'[i] = rows_b[i] /\ rows_b[i].shared
      BY <1>4, <2>1
    <3>2. CASE i = k
      <4>1. ~shared_rail /\ shared = FALSE
        <5>1. k % 2 = 1
          BY <1>4, <3>1, <3>2 DEF PairsInv, Alternating
        <5>2. ~(k % 2 = 0)
          BY <5>1
        <5>3. ~shared
          BY <1>5, <5>2
        <5>4. shared = FALSE
          BY <5>3
        <5> QED BY <1>2, <5>4
      <4>2. PICK e \in Nat : Answer(TRUE, e) /\ rows_b[k] = RowAt(TRUE, e)
        BY <1>1, <4>1 DEF PairsInv, HalfPair, k
      <4>3. F_MIN <= e /\ e <= f /\ (~Capped => e = f)
        BY <1>1, <1>2, <4>1, <4>2, AnswersCompare
      <4>4. NoBetter(RowAt(TRUE, e), RowAt(FALSE, f))
        BY <1>1, <4>3, RowsCompare
      <4>5. RowAt(TRUE, e).f_work = e /\ RowAt(FALSE, f).f_work = f
        BY DEF RowAt
      <4>6. args.no_pl1 => e = f
        BY <4>3 DEF Capped
      <4> QED BY <1>4, <3>1, <3>2, <4>1, <4>2, <4>4, <4>5, <4>6
    <3>3. CASE i # k
      <4>1. i + 1 \in 1 .. k
        BY <1>4, <3>1, <3>3
      <4> QED BY <1>4, <3>1, <4>1 DEF PairsInv, PairsCompared
    <3> QED BY <3>2, <3>3
  <2>2. \A i \in DOMAIN rows_b' :
          rows_b'[i].shared /\ i + 1 \in DOMAIN rows_b' =>
              /\ NoBetter(rows_b'[i], rows_b'[i + 1])
              /\ args'.no_pl1 => rows_b'[i].f_work = rows_b'[i + 1].f_work
    BY <1>0, <1>4, <2>1
  <2> QED BY <2>2 DEF PairsCompared, NoBetter
<1>9. HalfPair'
  <2>1. SUFFICES ASSUME ~shared_rail'
                 PROVE  \E e \in Nat : Answer(TRUE, e)' /\ rows_b'[Len(rows_b')] = RowAt(TRUE, e)'
    BY DEF HalfPair
  <2>2. k % 2 = 0
    <3>1. ~((k + 1) % 2 = 0)
      BY <1>4, <2>1 DEF shared_rail
    <3> QED BY <1>4, <3>1, RailPairs
  <2>3. n_big' = n_big
    BY <1>4, <2>2, RailPairs DEF n_big, k
  <2>4. Answer(TRUE, f)' /\ RowAt(TRUE, f)' = RowAt(TRUE, f)
    <3>1. Answer(TRUE, f)
      BY <1>2, <1>5, <2>2
    <3>2. (Answer(TRUE, f)' <=> Answer(TRUE, f)) /\ RowAt(TRUE, f)' = RowAt(TRUE, f)
      BY <1>0, <2>3, SamePair
    <3> QED BY <3>1, <3>2
  <2> QED BY <1>4, <1>5, <2>2, <2>4
<1>10. Searched'
  BY <1>0 DEF Searched
<1>11. RowsComplete'
  <2>1. Len(rows_b') <= 2 * (N_PHYS_CORES + 1)
    BY <1>1 DEF TypeOK
  <2> QED BY <1>0, <1>4, <2>1, CoreAssumption DEF RowsComplete
<1> QED BY <1>7, <1>8, <1>9, <1>10, <1>11 DEF PairsInv

LEMMA PairsStutter == PairsInv /\ UNCHANGED vars => PairsInv'
<1> SUFFICES ASSUME PairsInv, UNCHANGED vars PROVE PairsInv'
  OBVIOUS
<1>0. pc' = pc /\ args' = args /\ params' = params /\ rows_b' = rows_b /\ lo' = lo
  BY DEF vars
<1>1. n_big' = n_big /\ shared_rail' = shared_rail
  BY <1>0 DEF n_big, shared_rail
<1>2. \A shared \in BOOLEAN : \A f : Answer(shared, f)' <=> Answer(shared, f)
  BY <1>0, <1>1, SamePair
<1>3. Searched'
  <2>1. pc = "bisect" => p_at(F_MIN)' = p_at(F_MIN)
    BY <1>0, SameRow
  <2>2. Answered => Answered'
    BY <1>0, <1>1, <1>2 DEF Answered
  <2> QED BY <1>0, <2>1, <2>2 DEF PairsInv, Searched
<1>4. RowsComplete'
  BY <1>0 DEF PairsInv, RowsComplete
<1>5. HalfPair' /\ Alternating' /\ PairsCompared'
  BY <1>0, KeptPairs
<1> QED BY <1>3, <1>4, <1>5 DEF PairsInv

LEMMA PairsInductive == Spec => []PairsInv
<1>1. Init => PairsInv
  BY PairsInit
<1>2. RailInv /\ PairsInv /\ [Next]_vars => PairsInv'
  BY PairsElsewhere, PairsStartRow, PairsBisect, PairsFinishRow, PairsStutter DEF Next, Done
<1> QED BY <1>1, <1>2, RailInductive, PTL DEF Spec

LEMMA RowTypes ==
    ASSUME TypeOK
    PROVE  /\ Len(rows_b) \in Nat /\ DOMAIN rows_b = 1 .. Len(rows_b)
           /\ DOMAIN rows_b \in SUBSET Nat
           /\ \A i \in DOMAIN rows_b :
                rows_b[i].shared \in BOOLEAN /\ rows_b[i].energy \in Nat
<1> DEFINE RowsB == [n_big : Nat, shared : BOOLEAN, f_work : Nat, f_bg : Nat, a_bg : Nat,
                     t_compile : Nat, feasible : BOOLEAN, p1 : Nat, p2 : Nat, energy : Nat]
<1>1. rows_b \in Seq(RowsB)
  BY DEF TypeOK
<1>2. \A r \in RowsB : r.shared \in BOOLEAN /\ r.energy \in Nat
  OBVIOUS
<1> HIDE DEF RowsB
<1>3. Len(rows_b) \in Nat /\ DOMAIN rows_b = 1 .. Len(rows_b)
  BY <1>1
<1>4. \A i \in DOMAIN rows_b : rows_b[i] \in RowsB
  BY <1>1
<1>5. DOMAIN rows_b \in SUBSET Nat
  BY <1>3
<1> QED BY <1>2, <1>3, <1>4, <1>5

(* best_of chooses among these.                                            *)
Eligible(rows) ==
    IF {i \in rows : rows_b[i].feasible} = {} THEN rows ELSE {i \in rows : rows_b[i].feasible}

LEMMA BestIs ==
    ASSUME TypeOK, NEW rows \in SUBSET (DOMAIN rows_b), rows # {}
    PROVE  /\ \E i \in Eligible(rows) : best_of(rows) = rows_b[i]
           /\ \A i \in Eligible(rows) : best_of(rows).energy <= rows_b[i].energy
<1> DEFINE of == Eligible(rows)
           V == {rows_b[i].energy : i \in of}
           least == Min(V)
           S == {i \in of : rows_b[i].energy = least}
<1>1. /\ DOMAIN rows_b \in SUBSET Nat
      /\ \A i \in DOMAIN rows_b : rows_b[i].energy \in Nat
  BY RowTypes
<1>2. of \in SUBSET (DOMAIN rows_b) /\ of # {}
  BY DEF Eligible
<1>3. best_of(rows) = rows_b[Min(S)]
  BY DEF best_of, Eligible
<1> HIDE DEF of
<1>4. V \in SUBSET Nat /\ V # {}
  BY <1>1, <1>2
<1>5. least \in V /\ \A m \in V : least <= m
  <2> HIDE DEF V
  <2> QED BY <1>4, MinNat
<1> HIDE DEF least
<1>6. S \in SUBSET Nat /\ S # {}
  BY <1>1, <1>2, <1>5
<1>7. Min(S) \in S
  <2> HIDE DEF S
  <2> QED BY <1>6, MinNat
<1>8. Min(S) \in of /\ rows_b[Min(S)].energy = least
  BY <1>7
<1>9. \A i \in of : least <= rows_b[i].energy
  BY <1>5
<1> QED BY <1>3, <1>8, <1>9 DEF of

(* No row on split rails compiles at another frequency than its partner:   *)
(* the cap does not come between the two.                                  *)
SameWork ==
    \A i \in DOMAIN rows_b :
        rows_b[i].shared /\ i + 1 \in DOMAIN rows_b => rows_b[i].f_work = rows_b[i + 1].f_work

LEMMA SharedCosts ==
    ASSUME TypeOK, PairsInv, SameWork
    PROVE  SharedCostsMore
<1> SUFFICES ASSUME pc = "done"
             PROVE  /\ \A i \in DOMAIN rows_b : rows_b[i].shared =>
                         /\ rows_b[i].t_compile >= rows_b[i + 1].t_compile
                         /\ rows_b[i].energy >= rows_b[i + 1].energy
                    /\ best_of(RowsOf(TRUE)).energy >= best_of(RowsOf(FALSE)).energy
  BY DEF SharedCostsMore
<1> DEFINE n == 2 * (N_PHYS_CORES + 1)
           A == RowsOf(TRUE)
           B == RowsOf(FALSE)
<1>1. DOMAIN rows_b = 1 .. n /\ n \in Nat /\ n % 2 = 0 /\ n >= 2
  <2>1. Len(rows_b) = n
    BY DEF PairsInv, RowsComplete
  <2>2. DOMAIN rows_b = 1 .. Len(rows_b)
    BY RowTypes
  <2> QED BY <2>1, <2>2, CoreAssumption
<1> HIDE DEF n
<1>2. \A i \in 1 .. n : rows_b[i].shared \in BOOLEAN /\ rows_b[i].energy \in Nat
  BY <1>1, RowTypes
<1>3. \A i \in 1 .. n : rows_b[i].shared = (i % 2 = 1)
  BY <1>1 DEF PairsInv, Alternating
<1>4. ASSUME NEW i \in 1 .. n, rows_b[i].shared
      PROVE  /\ i + 1 \in 1 .. n /\ ~rows_b[i + 1].shared
             /\ NoBetter(rows_b[i], rows_b[i + 1]) /\ rows_b[i].f_work = rows_b[i + 1].f_work
  <2>1. i % 2 = 1
    BY <1>3, <1>4
  <2>2. i + 1 \in 1 .. n /\ ~((i + 1) % 2 = 1)
    BY <1>1, <2>1
  <2>3. ~rows_b[i + 1].shared
    BY <1>3, <2>2
  <2> QED BY <1>1, <1>4, <2>2, <2>3 DEF PairsInv, PairsCompared, SameWork
<1>5. ASSUME NEW i \in 1 .. n, rows_b[i].shared
      PROVE  /\ rows_b[i].t_compile >= rows_b[i + 1].t_compile
             /\ rows_b[i].energy >= rows_b[i + 1].energy
             /\ rows_b[i].feasible = rows_b[i + 1].feasible
  BY <1>4, <1>5 DEF NoBetter
<1>6. A = {i \in 1 .. n : i % 2 = 1} /\ B = {i \in 1 .. n : ~(i % 2 = 1)}
  BY <1>1, <1>2, <1>3 DEF RowsOf
<1>7. A \in SUBSET (DOMAIN rows_b) /\ A # {} /\ B \in SUBSET (DOMAIN rows_b) /\ B # {}
  <2>1. 1 \in 1 .. n /\ 1 % 2 = 1 /\ 2 \in 1 .. n /\ ~(2 % 2 = 1)
    BY <1>1
  <2>2. 1 \in A /\ 2 \in B
    BY <1>6, <2>1
  <2> QED BY <1>1, <1>6, <2>2
<1>8. \A i \in A : i + 1 \in B /\ i \in 1 .. n /\ rows_b[i].shared
  <2>1. ASSUME NEW i \in A PROVE i + 1 \in B /\ i \in 1 .. n /\ rows_b[i].shared
    <3>1. i \in 1 .. n /\ rows_b[i].shared
      BY <1>3, <1>6
    <3>2. i + 1 \in 1 .. n /\ ~rows_b[i + 1].shared
      BY <1>4, <3>1
    <3> QED BY <1>3, <1>6, <3>1, <3>2
  <2> QED BY <2>1
<1>9. ASSUME NEW j \in B PROVE j - 1 \in A
  <2>1. j \in 1 .. n /\ ~(j % 2 = 1)
    BY <1>6
  <2>2. j - 1 \in 1 .. n /\ (j - 1) % 2 = 1
    BY <1>1, <2>1
  <2> QED BY <1>6, <2>2
<1> HIDE DEF A, B
<1>10. \A i \in Eligible(A) : i + 1 \in Eligible(B) /\ i \in A
  <2>1. ASSUME NEW i \in Eligible(A) PROVE i \in A /\ i + 1 \in Eligible(B)
    <3>1. i \in A
      BY DEF Eligible
    <3>2. i + 1 \in B /\ rows_b[i].feasible = rows_b[i + 1].feasible
      BY <1>5, <1>8, <3>1
    <3>3. CASE rows_b[i].feasible
      BY <3>2, <3>3 DEF Eligible
    <3>4. CASE ~rows_b[i].feasible
      <4>1. \A j \in A : ~rows_b[j].feasible
        BY <3>1, <3>4 DEF Eligible
      <4>2. ASSUME NEW j \in B PROVE ~rows_b[j].feasible
        <5>1. j - 1 \in A /\ j \in Nat
          BY <1>1, <1>7, <1>9
        <5>2. (j - 1) + 1 = j
          BY <5>1
        <5>3. rows_b[j - 1].feasible = rows_b[(j - 1) + 1].feasible
          BY <1>5, <1>8, <5>1
        <5> QED BY <4>1, <5>1, <5>2, <5>3
      <4> QED BY <3>2, <4>2 DEF Eligible
    <3> QED BY <3>1, <3>3, <3>4
  <2> QED BY <2>1
<1>11. best_of(A).energy >= best_of(B).energy
  <2>1. PICK i \in Eligible(A) : best_of(A) = rows_b[i]
    BY <1>7, BestIs
  <2>2. \A j \in Eligible(B) : best_of(B).energy <= rows_b[j].energy
    BY <1>7, BestIs
  <2>3. PICK j \in Eligible(B) : best_of(B) = rows_b[j]
    BY <1>7, BestIs
  <2>4. i \in A /\ i + 1 \in Eligible(B)
    BY <1>10
  <2>5. rows_b[i].energy >= rows_b[i + 1].energy
    BY <1>5, <1>8, <2>4
  <2>6. i + 1 \in 1 .. n /\ i \in 1 .. n /\ j \in 1 .. n
    BY <1>1, <1>7, <1>8, <2>4 DEF Eligible
  <2>7. rows_b[i].energy \in Nat /\ rows_b[i + 1].energy \in Nat /\ rows_b[j].energy \in Nat
    BY <1>2, <2>6
  <2> QED BY <2>1, <2>2, <2>3, <2>4, <2>5, <2>7
<1> QED BY <1>1, <1>5, <1>11 DEF A, B

(* "The shared rail is never faster", for any number of cores, turbo bins, *)
(* command line and parameters: of two rows with the same placement the    *)
(* one on split rails compiles at no lower frequency, hence in no more     *)
(* time, whatever the cap does to either search.  At the same frequency    *)
(* it is no worse in any column: both phases take no more power, and the   *)
(* row no more energy.                                                     *)
THEOREM SharedIsNeverFaster == Spec => []PairsCompared
<1>1. PairsInv => PairsCompared
  BY DEF PairsInv
<1> QED BY <1>1, PairsInductive, PTL

(* "Never faster and never cheaper" is all true where the cap does not     *)
(* come between the two searches: with --no-pl1 always, and with the cap   *)
(* whenever each pair of rows compiles at one frequency.                   *)
THEOREM SharedCostsAtSameWork ==
    Spec => []((args.no_pl1 \/ SameWork) => SharedCostsMore)
<1>1. RailInv /\ PairsInv => ((args.no_pl1 \/ SameWork) => SharedCostsMore)
  <2> SUFFICES ASSUME RailInv, PairsInv, args.no_pl1 \/ SameWork PROVE SharedCostsMore
    OBVIOUS
  <2>1. TypeOK
    BY DEF RailInv
  <2>2. args.no_pl1 => SameWork
    BY DEF PairsInv, PairsCompared, SameWork
  <2> QED BY <2>1, <2>2, SharedCosts
<1> QED BY <1>1, RailInductive, PairsInductive, PTL
==============================================================================
