----------------------------- MODULE DataProofs -----------------------------
(***************************************************************************)
(* What the operators on data compute, for every finite set: folds with +, *)
(* sorted sets and flattened sequences, for RailModel and for Campaign.    *)
(* The provers cannot use the library's induction theorems, whose          *)
(* parameter is an operator; here an induction is an argument about the    *)
(* least element of a set of numbers.                                      *)
(***************************************************************************)
EXTENDS Order, SequencesExt, FiniteSetTheorems, SequenceTheorems, TLAPS

-----------------------------------------------------------------------------
(* Least elements                                                          *)

(* A nonempty set of natural numbers has a least element: what the other   *)
(* inductions of this module rest on.                                      *)
LEMMA NatLeast ==
    ASSUME NEW T \in SUBSET Nat, T # {}
    PROVE  \E n \in T : \A m \in T : n <= m
<1> DEFINE R == OpToRel(<, Nat)
<1>1. IsWellFoundedOn(R, Nat)
  BY ONLY NatLessThanWellFounded
<1>2. PICK n \in T : \A m \in T : ~(<<m, n>> \in R)
  <2> HIDE DEF R
  <2> QED BY <1>1, WFMin
<1>3. \A m \in T : <<m, n>> \in R <=> m < n
  BY DEF OpToRel
<1> HIDE DEF R
<1>4. \A m \in T : ~(m < n)
  BY <1>2, <1>3
<1> QED BY <1>4

LEMMA MinNat ==
    ASSUME NEW T \in SUBSET Nat, T # {}
    PROVE  Min(T) \in T /\ \A m \in T : Min(T) <= m
  BY NatLeast DEF Min

(* A bounded set of natural numbers has a greatest element: its least      *)
(* upper bound.                                                            *)
LEMMA MaxNat ==
    ASSUME NEW T \in SUBSET Nat, T # {}, NEW b \in Nat, \A x \in T : x <= b
    PROVE  Max(T) \in T /\ \A x \in T : x <= Max(T)
<1> DEFINE U == {u \in Nat : \A x \in T : x <= u}
<1>1. PICK u \in U : \A w \in U : u <= w
  <2>1. U \in SUBSET Nat /\ b \in U
    OBVIOUS
  <2> HIDE DEF U
  <2> QED BY <2>1, NatLeast
<1>2. u \in T
  <2>1. SUFFICES ASSUME u \notin T PROVE FALSE
    OBVIOUS
  <2>2. PICK x \in T : TRUE
    OBVIOUS
  <2>3. \A y \in T : y <= u - 1
    BY <2>1
  <2>4. u - 1 \in Nat
    BY <2>2, <2>3
  <2>5. u - 1 \in U
    BY <2>3, <2>4
  <2> QED BY <1>1, <2>5
<1>3. \E x \in T : \A y \in T : x >= y
  BY <1>1, <1>2
<1> QED BY <1>3 DEF Max

-----------------------------------------------------------------------------
(* Sums                                                                    *)

(* The element a fold takes next.                                          *)
Taken(s) == CHOOSE x \in s : TRUE

(* What a fold with + computes: SumOf is a function on the subsets of D    *)
(* that adds one element after the other.                                  *)
IsSum(g, D, fun) ==
    g = [s \in SUBSET D |-> IF s = {} THEN 0 ELSE fun[Taken(s)] + g[s \ {Taken(s)}]]

LEMMA Taking ==
    ASSUME NEW D, IsFiniteSet(D), NEW s \in SUBSET D, s # {}
    PROVE  /\ Taken(s) \in s /\ s \ {Taken(s)} \in SUBSET D
           /\ Cardinality(s) \in Nat /\ Cardinality(s) # 0
           /\ Cardinality(s \ {Taken(s)}) = Cardinality(s) - 1
<1>1. Taken(s) \in s
  BY DEF Taken
<1>2. IsFiniteSet(s)
  BY FS_Subset
<1>3. Cardinality(s) \in Nat /\ Cardinality(s) # 0
  BY <1>2, FS_CardinalityType, FS_EmptySet
<1> QED BY <1>1, <1>2, <1>3, FS_RemoveElement

(* There is such a function: by induction on the size of the sets it is    *)
(* right about.                                                            *)
LEMMA SumExists ==
    ASSUME NEW D, IsFiniteSet(D), NEW fun \in [D -> Nat]
    PROVE  \E g \in [SUBSET D -> Nat] : IsSum(g, D, fun)
<1> DEFINE body(g, s) == IF s = {} THEN 0 ELSE fun[Taken(s)] + g[s \ {Taken(s)}]
           Upto(n) == \E g \in [SUBSET D -> Nat] : \A s \in SUBSET D :
                          Cardinality(s) <= n => g[s] = body(g, s)
           Bad == {n \in Nat : ~Upto(n)}
<1>1. Bad = {}
  <2>1. SUFFICES ASSUME Bad # {} PROVE FALSE
    OBVIOUS
  <2>2. PICK n \in Bad : \A m \in Bad : n <= m
    <3>1. Bad \in SUBSET Nat
      OBVIOUS
    <3> HIDE DEF Bad
    <3> QED BY <2>1, <3>1, NatLeast
  <2>3. n \in Nat /\ ~Upto(n)
    OBVIOUS
  <2>4. CASE n = 0
    <3> DEFINE z == [s \in SUBSET D |-> 0]
    <3>1. z \in [SUBSET D -> Nat]
      OBVIOUS
    <3>2. ASSUME NEW s \in SUBSET D, Cardinality(s) <= 0 PROVE z[s] = body(z, s)
      <4>1. s # {} => Cardinality(s) \in Nat /\ Cardinality(s) # 0
        BY ONLY IsFiniteSet(D), s \in SUBSET D, Taking
      <4>2. s = {}
        BY ONLY <3>2, <4>1
      <4> QED BY <4>2
    <3>3. Upto(0)
      <4> HIDE DEF z, body
      <4> QED BY <3>1, <3>2
    <3> QED BY <2>3, <2>4, <3>3
  <2>5. CASE n # 0
    <3>1. n - 1 \in Nat /\ n - 1 \notin Bad
      <4> HIDE DEF Bad
      <4> QED BY <2>2, <2>3, <2>5
    <3>2. Upto(n - 1)
      BY <3>1
    <3>3. PICK g \in [SUBSET D -> Nat] : \A s \in SUBSET D :
              Cardinality(s) <= n - 1 => g[s] = body(g, s)
      BY <3>2
    <3> DEFINE h == [s \in SUBSET D |-> body(g, s)]
    <3>4. ASSUME NEW s \in SUBSET D PROVE body(g, s) \in Nat
      <4>1. CASE s = {}
        BY <4>1
      <4>2. CASE s # {}
        <5>1. Taken(s) \in D /\ s \ {Taken(s)} \in SUBSET D
          BY <4>2, Taking
        <5>2. fun[Taken(s)] \in Nat /\ g[s \ {Taken(s)}] \in Nat
          BY <5>1
        <5> QED BY <4>2, <5>2
      <4> QED BY <4>1, <4>2
    <3>5. h \in [SUBSET D -> Nat]
      <4> HIDE DEF body
      <4> QED BY <3>4
    <3>6. ASSUME NEW s \in SUBSET D, Cardinality(s) <= n PROVE h[s] = body(h, s)
      <4>1. CASE s = {}
        BY <4>1
      <4>2. CASE s # {}
        <5> DEFINE r == s \ {Taken(s)}
        <5>1. r \in SUBSET D /\ Cardinality(r) <= n - 1
          BY <2>3, <3>6, <4>2, Taking
        <5>2. g[r] = body(g, r)
          BY <3>3, <5>1
        <5>3. h[r] = g[r]
          <6> HIDE DEF body, r
          <6> QED BY <5>1, <5>2
        <5>4. h[s] = fun[Taken(s)] + g[r]
          BY <4>2
        <5> QED BY <4>2, <5>3, <5>4
      <4> QED BY <4>1, <4>2
    <3>7. Upto(n)
      <4> HIDE DEF h, body
      <4> QED BY <3>5, <3>6
    <3> QED BY <2>3, <3>7
  <2> QED BY <2>4, <2>5
<1>2. Cardinality(D) \in Nat
  BY FS_CardinalityType
<1>3. Upto(Cardinality(D))
  BY <1>1, <1>2
<1>4. PICK g \in [SUBSET D -> Nat] : \A s \in SUBSET D :
          Cardinality(s) <= Cardinality(D) => g[s] = body(g, s)
  BY <1>3
<1>5. \A s \in SUBSET D : g[s] = body(g, s)
  BY <1>4, FS_Subset
<1>6. g = [s \in SUBSET D |-> body(g, s)]
  <2> HIDE DEF body
  <2> QED BY <1>5
<1> QED BY <1>6 DEF IsSum

Adds(g, D, fun) ==
    /\ g[{}] = 0
    /\ \A s \in SUBSET D : s # {} => g[s] = fun[Taken(s)] + g[s \ {Taken(s)}]

LEMMA SumStep ==
    ASSUME NEW D, NEW fun, NEW g, IsSum(g, D, fun)
    PROVE  Adds(g, D, fun)
<1> DEFINE body(r) == IF r = {} THEN 0 ELSE fun[Taken(r)] + g[r \ {Taken(r)}]
<1>1. g = [r \in SUBSET D |-> body(r)]
  BY DEF IsSum
<1> HIDE DEF body
<1>2. \A s \in SUBSET D : g[s] = body(s)
  BY <1>1
<1>3. g[{}] = 0
  BY <1>2 DEF body
<1>4. ASSUME NEW s \in SUBSET D, s # {} PROVE g[s] = fun[Taken(s)] + g[s \ {Taken(s)}]
  BY <1>2, <1>4 DEF body
<1> QED BY <1>3, <1>4 DEF Adds

LEMMA SumNat ==
    ASSUME NEW D, IsFiniteSet(D), NEW fun \in [D -> Nat], NEW g, IsSum(g, D, fun)
    PROVE  \A s \in SUBSET D : g[s] \in Nat
<1>0. Adds(g, D, fun)
  BY SumStep
<1> DEFINE Bad == {n \in Nat : \E s \in SUBSET D : Cardinality(s) = n /\ g[s] \notin Nat}
<1>1. ASSUME Bad # {} PROVE FALSE
  <2>1. PICK n \in Bad : \A m \in Bad : n <= m
    <3>1. Bad \in SUBSET Nat
      OBVIOUS
    <3> HIDE DEF Bad
    <3> QED BY <1>1, <3>1, NatLeast
  <2>2. PICK s \in SUBSET D : Cardinality(s) = n /\ g[s] \notin Nat
    OBVIOUS
  <2>3. s # {}
    <3>1. g[{}] \in Nat
      BY <1>0 DEF Adds
    <3> QED BY <2>2, <3>1
  <2> DEFINE x == Taken(s)
             r == s \ {x}
  <2>4. /\ x \in D /\ r \in SUBSET D
        /\ Cardinality(r) = n - 1 /\ n \in Nat /\ n # 0
    BY <2>2, <2>3, Taking
  <2>5. g[s] = fun[x] + g[r]
    BY <2>3, <1>0 DEF Adds
  <2> HIDE DEF x, r
  <2>6. n - 1 \notin Bad /\ n - 1 \in Nat
    <3> HIDE DEF Bad
    <3> QED BY <2>1, <2>4
  <2>7. g[r] \in Nat
    BY <2>4, <2>6
  <2>8. fun[x] \in Nat
    BY <2>4
  <2> QED BY <2>2, <2>5, <2>7, <2>8
<1>2. SUFFICES ASSUME NEW s \in SUBSET D, g[s] \notin Nat PROVE FALSE
  OBVIOUS
<1>3. Cardinality(s) \in Nat
  BY FS_Subset, FS_CardinalityType
<1>4. Cardinality(s) \in Bad
  BY <1>2, <1>3
<1> QED BY <1>1, <1>4

(* Sums are compared term by term.                                         *)
LEMMA SumCompare ==
    ASSUME NEW D, IsFiniteSet(D),
           NEW a \in [D -> Nat], NEW b \in [D -> Nat], NEW c \in [D -> Nat], NEW d \in [D -> Nat],
           \A i \in D : a[i] + b[i] <= c[i] + d[i],
           NEW ga, IsSum(ga, D, a), NEW gb, IsSum(gb, D, b),
           NEW gc, IsSum(gc, D, c), NEW gd, IsSum(gd, D, d)
    PROVE  ga[D] + gb[D] <= gc[D] + gd[D]
<1>0. Adds(ga, D, a) /\ Adds(gb, D, b) /\ Adds(gc, D, c) /\ Adds(gd, D, d)
  BY SumStep
<1> DEFINE Fine(s) == ga[s] + gb[s] <= gc[s] + gd[s]
           Bad == {n \in Nat : \E s \in SUBSET D : Cardinality(s) = n /\ ~Fine(s)}
<1>1. ASSUME Bad # {} PROVE FALSE
  <2>1. PICK n \in Bad : \A m \in Bad : n <= m
    <3>1. Bad \in SUBSET Nat
      OBVIOUS
    <3> HIDE DEF Bad
    <3> QED BY <1>1, <3>1, NatLeast
  <2>2. PICK s \in SUBSET D : Cardinality(s) = n /\ ~Fine(s)
    OBVIOUS
  <2>3. s # {}
    <3>1. SUFFICES ASSUME s = {} PROVE FALSE
      OBVIOUS
    <3>2. ga[{}] = 0 /\ gb[{}] = 0 /\ gc[{}] = 0 /\ gd[{}] = 0
      BY <1>0 DEF Adds
    <3> QED BY <2>2, <3>1, <3>2
  <2> DEFINE x == Taken(s)
             r == s \ {x}
  <2>4. /\ x \in D /\ r \in SUBSET D
        /\ Cardinality(r) = n - 1 /\ n \in Nat /\ n # 0
    BY <2>2, <2>3, Taking
  <2>5. /\ ga[s] = a[x] + ga[r] /\ gb[s] = b[x] + gb[r]
        /\ gc[s] = c[x] + gc[r] /\ gd[s] = d[x] + gd[r]
    BY <2>3, <1>0 DEF Adds
  <2> HIDE DEF x, r
  <2>6. n - 1 \notin Bad /\ n - 1 \in Nat
    <3> HIDE DEF Bad
    <3> QED BY <2>1, <2>4
  <2>7. ga[r] + gb[r] <= gc[r] + gd[r]
    BY <2>4, <2>6
  <2>8. ga[r] \in Nat /\ gb[r] \in Nat /\ gc[r] \in Nat /\ gd[r] \in Nat
    BY <2>4, SumNat
  <2>9. /\ a[x] \in Nat /\ b[x] \in Nat /\ c[x] \in Nat /\ d[x] \in Nat
        /\ a[x] + b[x] <= c[x] + d[x]
    BY <2>4
  <2>10. Fine(s)
    BY <2>5, <2>7, <2>8, <2>9
  <2> QED BY <2>2, <2>10
<1>2. SUFFICES ASSUME ~Fine(D) PROVE FALSE
  OBVIOUS
<1>3. Cardinality(D) \in Nat /\ D \in SUBSET D
  BY FS_CardinalityType
<1>4. Cardinality(D) \in Bad
  BY <1>2, <1>3
<1> QED BY <1>1, <1>4

(* A sum is between the bounds of its terms, times their number.           *)
LEMMA SumBounds ==
    ASSUME NEW D, IsFiniteSet(D), NEW fun \in [D -> Nat], NEW lo \in Nat, NEW hi \in Nat,
           NEW g, IsSum(g, D, fun)
    PROVE  /\ Cardinality(D) \in Nat /\ g[D] \in Nat
           /\ (\A i \in D : lo <= fun[i]) => lo * Cardinality(D) <= g[D]
           /\ (\A i \in D : fun[i] <= hi) => g[D] <= hi * Cardinality(D)
<1>0. Adds(g, D, fun)
  BY SumStep
<1> DEFINE Above == \A i \in D : lo <= fun[i]
           Below == \A i \in D : fun[i] <= hi
           Fine(s, n) == (Above => lo * n <= g[s]) /\ (Below => g[s] <= hi * n)
           Bad == {n \in Nat : \E s \in SUBSET D : Cardinality(s) = n /\ ~Fine(s, n)}
<1>1. ASSUME Bad # {} PROVE FALSE
  <2>1. PICK n \in Bad : \A m \in Bad : n <= m
    <3>1. Bad \in SUBSET Nat
      OBVIOUS
    <3> HIDE DEF Bad
    <3> QED BY <1>1, <3>1, NatLeast
  <2>2. PICK s \in SUBSET D : Cardinality(s) = n /\ ~Fine(s, n)
    OBVIOUS
  <2>3. s # {}
    <3>1. SUFFICES ASSUME s = {} PROVE FALSE
      OBVIOUS
    <3>2. g[{}] = 0 /\ n = 0
      BY <1>0, <2>2, <3>1, FS_EmptySet DEF Adds
    <3> QED BY <2>2, <3>1, <3>2
  <2> DEFINE x == Taken(s)
             r == s \ {x}
             k == n - 1
  <2>4. /\ x \in D /\ r \in SUBSET D
        /\ Cardinality(r) = k /\ n \in Nat /\ n # 0
    BY <2>2, <2>3, Taking
  <2>5. g[s] = fun[x] + g[r]
    BY <2>3, <1>0 DEF Adds
  <2>6. k \notin Bad /\ k \in Nat
    <3> HIDE DEF Bad, x, r
    <3> QED BY <2>1, <2>4
  <2>7. Fine(r, k)
    BY <2>4, <2>6
  <2>8. g[r] \in Nat
    BY <2>4, SumNat
  <2>9. fun[x] \in Nat /\ (Above => lo <= fun[x]) /\ (Below => fun[x] <= hi)
    BY <2>4
  <2>10. lo * n = lo * k + lo /\ hi * n = hi * k + hi
    BY <2>4
  <2>11. lo * k \in Nat /\ hi * k \in Nat
    BY <2>6
  <2> HIDE DEF x, r, k, Bad
  <2>12. (Above => lo * k <= g[r]) /\ (Below => g[r] <= hi * k)
    BY <2>7
  <2> DEFINE lk == lo * k
             hk == hi * k
             gr == g[r]
             fx == fun[x]
  <2>13. (Above => lk + lo <= fx + gr) /\ (Below => fx + gr <= hk + hi)
    <3>1. lk \in Nat /\ hk \in Nat /\ gr \in Nat /\ fx \in Nat
      BY <2>8, <2>9, <2>11
    <3>2. (Above => lk <= gr /\ lo <= fx) /\ (Below => gr <= hk /\ fx <= hi)
      BY <2>9, <2>12
    <3> HIDE DEF lk, hk, gr, fx, Above, Below
    <3> QED BY <3>1, <3>2
  <2>14. Fine(s, n)
    <3> HIDE DEF Above, Below
    <3> QED BY <2>5, <2>10, <2>13
  <2> QED BY <2>2, <2>14
<1>2. SUFFICES ASSUME ~Fine(D, Cardinality(D)) PROVE FALSE
  BY FS_CardinalityType, SumNat
<1>3. Cardinality(D) \in Nat /\ D \in SUBSET D
  BY FS_CardinalityType
<1>4. Cardinality(D) \in Bad
  BY <1>2, <1>3
<1> QED BY <1>1, <1>4

(* A sum is as large as each of its terms.                                 *)
LEMMA SumPositive ==
    ASSUME NEW D, IsFiniteSet(D), NEW fun \in [D -> Nat], NEW x \in D, fun[x] > 0,
           NEW g, IsSum(g, D, fun)
    PROVE  g[D] \in Nat /\ g[D] > 0
<1>0. Adds(g, D, fun) /\ \A s \in SUBSET D : g[s] \in Nat
  BY SumStep, SumNat
<1> DEFINE Bad == {n \in Nat : \E s \in SUBSET D : Cardinality(s) = n /\ x \in s /\ g[s] = 0}
<1>1. ASSUME Bad # {} PROVE FALSE
  <2>1. PICK n \in Bad : \A m \in Bad : n <= m
    <3>1. Bad \in SUBSET Nat
      OBVIOUS
    <3> HIDE DEF Bad
    <3> QED BY <1>1, <3>1, NatLeast
  <2>2. PICK s \in SUBSET D : Cardinality(s) = n /\ x \in s /\ g[s] = 0
    OBVIOUS
  <2> DEFINE y == Taken(s)
             r == s \ {y}
  <2>4. /\ y \in D /\ r \in SUBSET D
        /\ Cardinality(r) = n - 1 /\ n \in Nat /\ n # 0
    BY <2>2, Taking
  <2>5. g[s] = fun[y] + g[r] /\ fun[y] \in Nat /\ g[r] \in Nat
    BY <1>0, <2>2, <2>4 DEF Adds
  <2>6. fun[y] = 0 /\ g[r] = 0
    BY <2>2, <2>5
  <2>7. x \in r
    BY <2>2, <2>6
  <2> HIDE DEF y, r
  <2>8. n - 1 \in Bad
    BY <2>4, <2>6, <2>7
  <2> HIDE DEF Bad
  <2> QED BY <2>1, <2>4, <2>8
<1>2. SUFFICES ASSUME g[D] = 0 PROVE FALSE
  BY <1>0
<1>3. Cardinality(D) \in Nat /\ D \in SUBSET D
  BY FS_CardinalityType
<1>4. Cardinality(D) \in Bad
  BY <1>2, <1>3
<1> QED BY <1>1, <1>4

(* A sum does not depend on what is taken first.                           *)
AddsAny(g, D, fun) == \A s \in SUBSET D : \A x \in s : g[s] = fun[x] + g[s \ {x}]

LEMMA SumAny ==
    ASSUME NEW D, IsFiniteSet(D), NEW fun \in [D -> Nat], NEW g, IsSum(g, D, fun)
    PROVE  AddsAny(g, D, fun)
<1>0. Adds(g, D, fun) /\ \A s \in SUBSET D : g[s] \in Nat
  BY SumStep, SumNat
<1> DEFINE Fine(s) == \A x \in s : g[s] = fun[x] + g[s \ {x}]
           Bad == {n \in Nat : \E s \in SUBSET D : Cardinality(s) = n /\ ~Fine(s)}
<1>1. ASSUME Bad # {} PROVE FALSE
  <2>1. PICK n \in Bad : \A m \in Bad : n <= m
    <3>1. Bad \in SUBSET Nat
      OBVIOUS
    <3> HIDE DEF Bad
    <3> QED BY <1>1, <3>1, NatLeast
  <2>2. PICK s \in SUBSET D : Cardinality(s) = n /\ ~Fine(s)
    OBVIOUS
  <2>3. PICK x \in s : g[s] # fun[x] + g[s \ {x}]
    BY <2>2
  <2> DEFINE t == Taken(s)
  <2>4. /\ t \in s /\ Cardinality(s \ {t}) = n - 1 /\ n \in Nat /\ n # 0
        /\ g[s] = fun[t] + g[s \ {t}] /\ IsFiniteSet(s)
    BY <1>0, <2>2, <2>3, Taking, FS_Subset DEF Adds
  <2> HIDE DEF t
  <2>5. t # x
    BY <2>3, <2>4
  <2>6. Cardinality(s \ {x}) = n - 1
    BY <2>2, <2>4, FS_RemoveElement
  <2>7. n - 1 \in Nat /\ n - 1 \notin Bad
    <3> HIDE DEF Bad
    <3> QED BY <2>1, <2>4
  <2>8. Fine(s \ {t}) /\ Fine(s \ {x})
    <3>1. s \ {t} \in SUBSET D /\ s \ {x} \in SUBSET D
      OBVIOUS
    <3> HIDE DEF Fine
    <3> QED BY <2>4, <2>6, <2>7, <3>1
  <2>9. /\ g[s \ {t}] = fun[x] + g[(s \ {t}) \ {x}]
        /\ g[s \ {x}] = fun[t] + g[(s \ {x}) \ {t}]
    BY <2>3, <2>4, <2>5, <2>8
  <2>10. (s \ {t}) \ {x} = (s \ {x}) \ {t}
    OBVIOUS
  <2>11. fun[x] \in Nat /\ fun[t] \in Nat /\ g[(s \ {x}) \ {t}] \in Nat
    BY <1>0, <2>4
  <2>12. fun[t] + (fun[x] + g[(s \ {x}) \ {t}]) = fun[x] + (fun[t] + g[(s \ {x}) \ {t}])
    BY ONLY <2>11
  <2> QED BY ONLY <2>3, <2>4, <2>9, <2>10, <2>12
<1>2. ASSUME NEW s \in SUBSET D PROVE Fine(s)
  <2>1. Cardinality(s) \in Nat
    BY FS_Subset, FS_CardinalityType
  <2> HIDE DEF Fine
  <2> QED BY <1>1, <2>1
<1> QED BY <1>2 DEF AddsAny

LEMMA SumFunctionIs ==
    ASSUME NEW D, IsFiniteSet(D), NEW fun \in [D -> Nat]
    PROVE  \E g : IsSum(g, D, fun) /\ SumFunction(fun) = g[D]
<1> DEFINE g == CHOOSE h : IsSum(h, D, fun)
<1>1. \E h : IsSum(h, D, fun)
  BY SumExists
<1>2. IsSum(g, D, fun)
  BY <1>1
<1>3. DOMAIN fun = D
  OBVIOUS
<1>4. SumFunction(fun) = g[D]
  BY <1>3 DEF SumFunction, SumFunctionOnSet, FoldFunctionOnSet, MapThenFoldSet, Taken, IsSum
<1> QED BY <1>2, <1>4

LEMMA SumOne ==
    ASSUME NEW a, NEW fun \in [{a} -> Nat]
    PROVE  SumFunction(fun) = fun[a]
<1>1. IsFiniteSet({a})
  BY FS_Singleton
<1>2. PICK g : IsSum(g, {a}, fun) /\ SumFunction(fun) = g[{a}]
  BY <1>1, SumFunctionIs
<1>3. AddsAny(g, {a}, fun)
  BY <1>1, <1>2, SumAny
<1>4. g[{}] = 0 /\ {a} \ {a} = {}
  BY <1>2, SumStep DEF Adds
<1>5. fun[a] \in Nat
  OBVIOUS
<1>6. g[{a}] = fun[a] + g[{a} \ {a}]
  BY <1>3 DEF AddsAny
<1> QED BY <1>2, <1>4, <1>5, <1>6

(* The set Q has these four elements.                                      *)
AreFour(Q, a, b, c, d) ==
    Q = {a, b, c, d} /\ a \notin {b, c, d} /\ b \notin {c, d} /\ c # d

LEMMA SumFour ==
    ASSUME NEW a, NEW b, NEW c, NEW d, NEW Q, AreFour(Q, a, b, c, d), NEW fun \in [Q -> Nat]
    PROVE  SumFunction(fun) = fun[a] + fun[b] + fun[c] + fun[d]
<1> USE DEF AreFour
<1> DEFINE D == {a, b, c, d}
<1>1. IsFiniteSet(D)
  <2>1. IsFiniteSet({a} \cup {b})
    BY ONLY FS_Singleton, FS_AddElement
  <2>2. IsFiniteSet({a} \cup {b} \cup {c})
    BY ONLY <2>1, FS_AddElement
  <2>3. IsFiniteSet({a} \cup {b} \cup {c} \cup {d})
    BY ONLY <2>2, FS_AddElement
  <2>4. D = {a} \cup {b} \cup {c} \cup {d}
    OBVIOUS
  <2> QED BY ONLY <2>3, <2>4
<1>2. PICK g : IsSum(g, D, fun) /\ SumFunction(fun) = g[D]
  BY <1>1, SumFunctionIs
<1>3. AddsAny(g, D, fun)
  <2>1. fun \in [D -> Nat]
    OBVIOUS
  <2> HIDE DEF D
  <2> QED BY <1>1, <1>2, <2>1, SumAny
<1>4. g[{}] = 0
  BY <1>2, SumStep DEF Adds
<1>5. g[D] = fun[a] + g[{b, c, d}]
  <2>1. D \ {a} = {b, c, d} /\ a \in D
    OBVIOUS
  <2> QED BY <1>3, <2>1 DEF AddsAny
<1>6. g[{b, c, d}] = fun[b] + g[{c, d}]
  <2>1. {b, c, d} \ {b} = {c, d} /\ b \in {b, c, d} /\ {b, c, d} \in SUBSET D
    OBVIOUS
  <2> HIDE DEF D
  <2> QED BY <1>3, <2>1 DEF AddsAny
<1>7. g[{c, d}] = fun[c] + g[{d}]
  <2>1. {c, d} \ {c} = {d} /\ c \in {c, d} /\ {c, d} \in SUBSET D
    OBVIOUS
  <2> HIDE DEF D
  <2> QED BY <1>3, <2>1 DEF AddsAny
<1>8. g[{d}] = fun[d] + g[{}]
  <2>1. {d} \ {d} = {} /\ d \in {d} /\ {d} \in SUBSET D
    OBVIOUS
  <2> HIDE DEF D
  <2> QED BY <1>3, <2>1 DEF AddsAny
<1>9. fun[a] \in Nat /\ fun[b] \in Nat /\ fun[c] \in Nat /\ fun[d] \in Nat
  OBVIOUS
<1> QED BY <1>2, <1>4, <1>5, <1>6, <1>7, <1>8, <1>9

-----------------------------------------------------------------------------
(* Images and sorted sets                                                  *)

(* One more element, and a pair of different ones.                         *)
LEMMA AddOne ==
    ASSUME NEW Q, IsFiniteSet(Q), NEW x, x \notin Q
    PROVE  IsFiniteSet(Q \cup {x}) /\ Cardinality(Q \cup {x}) = Cardinality(Q) + 1
  BY FS_AddElement

LEMMA TwoCount ==
    ASSUME NEW a, NEW b, a # b
    PROVE  IsFiniteSet({a, b}) /\ Cardinality({a, b}) = 2
<1>1. IsFiniteSet({a}) /\ Cardinality({a}) = 1
  BY FS_Singleton
<1>2. b \notin {a} /\ {a, b} = {a} \cup {b}
  OBVIOUS
<1>3. IsFiniteSet({a} \cup {b}) /\ Cardinality({a} \cup {b}) = Cardinality({a}) + 1
  BY ONLY <1>1, <1>2, AddOne
<1> QED BY <1>1, <1>2, <1>3

(* The image of a finite set has no more elements than the set, and as     *)
(* many if all of them are different.                                      *)
LEMMA ImageIs ==
    ASSUME NEW S, IsFiniteSet(S), NEW f, DOMAIN f = S, f = [x \in S |-> f[x]],
           NEW T, T = {f[x] : x \in S}
    PROVE  /\ IsFiniteSet(T)
           /\ (\A x, y \in S : f[x] = f[y] => x = y) => Cardinality(T) = Cardinality(S)
<1>1. f \in [S -> T]
  OBVIOUS
<1>2. f \in Surjection(S, T)
  BY <1>1 DEF Surjection
<1>3. (\A x, y \in S : f[x] = f[y] => x = y) => f \in Injection(S, T)
  BY <1>1 DEF Injection, IsInjective
<1> QED BY <1>2, <1>3, FS_Surjection

(* Every element has its place, after the smaller ones.                    *)
LEMMA SortedUpwards ==
    ASSUME NEW S \in SUBSET Int, IsFiniteSet(S)
    PROVE  /\ Cardinality(S) \in Nat
           /\ Sorted(S) \in [1 .. Cardinality(S) -> S]
           /\ \A x \in S : \E i \in 1 .. Cardinality(S) : Sorted(S)[i] = x
           /\ \A i, l \in 1 .. Cardinality(S) : i < l => Sorted(S)[i] < Sorted(S)[l]
<1> DEFINE below(x) == {y \in S : y < x}
           n == Cardinality(S)
           rank == [x \in S |-> Cardinality(below(x))]
<1>1. n \in Nat
  BY FS_CardinalityType
<1>2. ASSUME NEW x \in S
      PROVE  IsFiniteSet(below(x)) /\ rank[x] \in Nat /\ rank[x] <= n - 1
  <2>1. IsFiniteSet(below(x)) /\ Cardinality(below(x)) <= n /\ (n = Cardinality(below(x)) => S = below(x))
    <3>1. below(x) \in SUBSET S
      OBVIOUS
    <3> HIDE DEF below
    <3> QED BY <3>1, FS_Subset
  <2>2. x \notin below(x)
    OBVIOUS
  <2>3. Cardinality(below(x)) \in Nat /\ Cardinality(below(x)) # n
    BY <2>1, <2>2, FS_CardinalityType
  <2>4. rank[x] = Cardinality(below(x))
    OBVIOUS
  <2> HIDE DEF below, n, rank
  <2> QED BY <1>1, <2>1, <2>3, <2>4
<1>ranks. \A x \in S : rank[x] \in Nat /\ rank[x] <= n - 1
  BY <1>2
<1>3. ASSUME NEW x \in S, NEW y \in S, x < y PROVE rank[x] < rank[y]
  <2>1. below(x) \in SUBSET below(y) /\ x \in below(y) /\ x \notin below(x)
    <3>1. \A z \in S : z < x => z < y
      BY <1>3
    <3>2. ~(x < x)
      OBVIOUS
    <3> QED BY <1>3, <3>1, <3>2
  <2>2. IsFiniteSet(below(y))
    BY <1>2
  <2>3. /\ Cardinality(below(x)) <= Cardinality(below(y))
        /\ Cardinality(below(x)) = Cardinality(below(y)) => below(y) = below(x)
    <3> HIDE DEF below
    <3> QED BY ONLY <2>1, <2>2, FS_Subset
  <2>4. rank[x] = Cardinality(below(x)) /\ rank[y] = Cardinality(below(y))
    OBVIOUS
  <2>5. rank[x] \in Nat /\ rank[y] \in Nat
    BY <1>ranks
  <2> HIDE DEF below, rank
  <2> QED BY ONLY <2>1, <2>3, <2>4, <2>5
<1>4. rank \in Injection(S, 0 .. n - 1)
  <2>1. rank \in [S -> 0 .. n - 1]
    <3>1. DOMAIN rank = S /\ rank = [x \in S |-> rank[x]]
      OBVIOUS
    <3>2. \A x \in S : rank[x] \in 0 .. n - 1
      <4> HIDE DEF rank, n
      <4> QED BY <1>1, <1>ranks
    <3> HIDE DEF rank, n
    <3> QED BY <3>1, <3>2
  <2>2. \A x, y \in S : rank[x] = rank[y] => x = y
    <3>1. \A x, y \in S : x < y \/ y < x \/ x = y
      OBVIOUS
    <3>2. \A x, y \in S : rank[x] \in Int /\ rank[y] \in Int
      BY <1>ranks
    <3> HIDE DEF rank
    <3> QED BY <1>3, <3>1, <3>2
  <2> HIDE DEF rank, n
  <2> QED BY <2>1, <2>2 DEF Injection, IsInjective
<1>5. rank \in Surjection(S, 0 .. n - 1)
  <2>1. IsFiniteSet(0 .. n - 1) /\ Cardinality(0 .. n - 1) = n
    BY <1>1, FS_Interval
  <2> HIDE DEF rank
  <2> QED BY <1>4, <2>1, FS_Injection
<1>6. \A k \in 0 .. n - 1 : \E x \in S : rank[x] = k
  <2> HIDE DEF rank, n
  <2> QED BY <1>5 DEF Surjection
<1>7. \A x, y \in S : rank[x] = rank[y] => x = y
  <2> HIDE DEF rank, n
  <2> QED BY <1>4 DEF Injection, IsInjective
<1>8. ASSUME NEW i \in 1 .. n
      PROVE  Sorted(S)[i] \in S /\ rank[Sorted(S)[i]] = i - 1
  <2> DEFINE P(x) == Cardinality(below(x)) = i - 1
  <2>1. \E x \in S : rank[x] = i - 1
    <3>1. i - 1 \in 0 .. n - 1
      BY <1>1
    <3> HIDE DEF rank, n
    <3> QED BY <1>6, <3>1
  <2>2. \E x \in S : P(x)
    BY <2>1
  <2>3. Sorted(S)[i] = CHOOSE x \in S : P(x)
    BY DEF Sorted
  <2> HIDE DEF P
  <2>4. Sorted(S)[i] \in S /\ P(Sorted(S)[i])
    BY <2>2, <2>3
  <2> QED BY <2>4 DEF P
<1>9. DOMAIN Sorted(S) = 1 .. n /\ Sorted(S) = [i \in 1 .. n |-> Sorted(S)[i]]
  <2> DEFINE place(i) == CHOOSE x \in S : Cardinality(below(x)) = i - 1
  <2>1. Sorted(S) = [i \in 1 .. n |-> place(i)]
    BY DEF Sorted
  <2> HIDE DEF place
  <2> QED BY <2>1
<1>10. Sorted(S) \in [1 .. n -> S]
  <2> HIDE DEF rank, n
  <2> QED BY <1>8, <1>9
<1>11. ASSUME NEW x \in S PROVE \E i \in 1 .. n : Sorted(S)[i] = x
  <2> DEFINE i == rank[x] + 1
  <2>1. i \in 1 .. n /\ i - 1 = rank[x]
    <3> HIDE DEF rank, n
    <3> QED BY <1>1, <1>ranks
  <2> HIDE DEF rank, n, i
  <2>2. Sorted(S)[i] = x
    BY <1>7, <1>8, <2>1
  <2> QED BY <2>1, <2>2
<1>12. ASSUME NEW i \in 1 .. n, NEW l \in 1 .. n, i < l
       PROVE  Sorted(S)[i] < Sorted(S)[l]
  <2> DEFINE x == Sorted(S)[i]
             y == Sorted(S)[l]
  <2>1. x \in S /\ y \in S /\ rank[x] = i - 1 /\ rank[y] = l - 1
    BY <1>8
  <2> HIDE DEF x, y, rank, n
  <2>2. ~(rank[y] < rank[x]) /\ x # y
    BY <1>1, <1>12, <2>1
  <2>3. ~(y < x)
    BY <1>3, <2>1, <2>2
  <2>4. x < y
    BY <2>1, <2>2, <2>3
  <2> QED BY <2>4 DEF x, y
<1> QED BY <1>1, <1>10, <1>11, <1>12

LEMMA SortedIs ==
    ASSUME NEW S \in SUBSET Int, IsFiniteSet(S)
    PROVE  /\ Cardinality(S) \in Nat
           /\ Sorted(S) \in [1 .. Cardinality(S) -> S]
           /\ \A x \in S : \E i \in 1 .. Cardinality(S) : Sorted(S)[i] = x
  BY SortedUpwards

-----------------------------------------------------------------------------
(* Flattened sequences                                                     *)

(* What FlattenSeq computes on its way, from the left.                     *)
IsFlat(f, seqs) ==
    f = [i \in 1 .. Len(seqs) |-> IF i = 1 THEN seqs[i] ELSE f[i - 1] \o seqs[i]]

LEMMA FlatExists ==
    ASSUME NEW T, NEW seqs \in Seq(Seq(T))
    PROVE  \E f \in [1 .. Len(seqs) -> Seq(T)] : IsFlat(f, seqs)
<1> DEFINE n == Len(seqs)
           body(f, i) == IF i = 1 THEN seqs[i] ELSE f[i - 1] \o seqs[i]
           Upto(k) == \E f \in [1 .. n -> Seq(T)] : \A i \in 1 .. n : i <= k => f[i] = body(f, i)
           Bad == {k \in Nat : ~Upto(k)}
<1>0. n \in Nat /\ \A i \in 1 .. n : seqs[i] \in Seq(T)
  OBVIOUS
<1>1. Bad = {}
  <2>1. SUFFICES ASSUME Bad # {} PROVE FALSE
    OBVIOUS
  <2>2. PICK k \in Bad : \A m \in Bad : k <= m
    <3>1. Bad \in SUBSET Nat
      OBVIOUS
    <3> HIDE DEF Bad
    <3> QED BY <2>1, <3>1, NatLeast
  <2>3. k \in Nat /\ ~Upto(k)
    OBVIOUS
  <2>4. CASE k = 0
    <3> DEFINE z == [i \in 1 .. n |-> <<>>]
    <3>1. z \in [1 .. n -> Seq(T)]
      OBVIOUS
    <3>2. \A i \in 1 .. n : ~(i <= 0)
      OBVIOUS
    <3>3. Upto(0)
      <4> HIDE DEF z, body, n
      <4> QED BY <3>1, <3>2
    <3> QED BY <2>3, <2>4, <3>3
  <2>5. CASE k # 0
    <3>1. k - 1 \in Nat /\ k - 1 \notin Bad
      <4> HIDE DEF Bad
      <4> QED BY <2>2, <2>3, <2>5
    <3>2. Upto(k - 1)
      BY <3>1
    <3>3. PICK f \in [1 .. n -> Seq(T)] : \A i \in 1 .. n : i <= k - 1 => f[i] = body(f, i)
      BY <3>2
    <3> DEFINE h == [i \in 1 .. n |-> IF i = k THEN body(f, i) ELSE f[i]]
    <3>4. ASSUME NEW i \in 1 .. n PROVE body(f, i) \in Seq(T) /\ f[i] \in Seq(T)
      <4>1. CASE i = 1
        BY <1>0, <4>1
      <4>2. CASE i # 1
        <5>1. i - 1 \in 1 .. n
          BY <1>0, <4>2
        <5>2. f[i - 1] \in Seq(T) /\ seqs[i] \in Seq(T)
          BY <1>0, <5>1
        <5>3. f[i - 1] \o seqs[i] \in Seq(T)
          BY ONLY <5>2
        <5>4. body(f, i) = f[i - 1] \o seqs[i]
          BY <4>2
        <5>5. f[i] \in Seq(T)
          OBVIOUS
        <5> QED BY ONLY <5>3, <5>4, <5>5
      <4> QED BY <4>1, <4>2
    <3>5. h \in [1 .. n -> Seq(T)]
      <4> HIDE DEF body, n
      <4> QED BY <3>4
    <3>6. ASSUME NEW i \in 1 .. n, i <= k PROVE h[i] = body(h, i)
      <4>1. h[i] = body(f, i)
        <5> HIDE DEF body, n
        <5> QED BY <1>0, <2>3, <3>3, <3>6
      <4>2. i # 1 => h[i - 1] = f[i - 1]
        <5>1. i # 1 => i - 1 \in 1 .. n /\ i - 1 # k
          BY <1>0, <2>3, <3>6
        <5> HIDE DEF body, n
        <5> QED BY <5>1
      <4> HIDE DEF h
      <4> QED BY <4>1, <4>2
    <3>7. Upto(k)
      <4> HIDE DEF h, body, n
      <4> QED BY <3>5, <3>6
    <3> QED BY <2>3, <3>7
  <2> QED BY <2>4, <2>5
<1>2. Upto(n)
  BY <1>0, <1>1
<1>3. PICK f \in [1 .. n -> Seq(T)] : \A i \in 1 .. n : i <= n => f[i] = body(f, i)
  BY <1>2
<1>4. f = [i \in 1 .. n |-> body(f, i)]
  <2> HIDE DEF body, n
  <2> QED BY <1>0, <1>3
<1> QED BY <1>4 DEF IsFlat

(* A flattened sequence has the elements of its parts, and is not empty    *)
(* when the first part is not.                                             *)
LEMMA FlattenIs ==
    ASSUME NEW T, NEW seqs \in Seq(Seq(T))
    PROVE  /\ FlattenSeq(seqs) \in Seq(T)
           /\ Len(seqs) # 0 /\ seqs[1] # <<>> => FlattenSeq(seqs) # <<>>
<1>1. CASE Len(seqs) = 0
  <2>1. seqs = <<>> /\ FlattenSeq(seqs) = seqs
    BY <1>1 DEF FlattenSeq
  <2>2. FlattenSeq(seqs) = <<>> /\ <<>> \in Seq(T)
    BY <2>1
  <2> QED BY <1>1, <2>2
<1>2. CASE Len(seqs) # 0
  <2> DEFINE n == Len(seqs)
             f == CHOOSE h : IsFlat(h, seqs)
             body(i) == IF i = 1 THEN seqs[i] ELSE f[i - 1] \o seqs[i]
  <2>1. \E h : IsFlat(h, seqs)
    BY FlatExists
  <2>2. IsFlat(f, seqs)
    BY <2>1
  <2>3. FlattenSeq(seqs) = f[n]
    BY <1>2 DEF FlattenSeq, IsFlat
  <2>4. n \in Nat /\ \A i \in 1 .. n : seqs[i] \in Seq(T)
    OBVIOUS
  <2> HIDE DEF f, n
  <2>5. \A i \in 1 .. n : f[i] = body(i)
    <3>1. f = [i \in 1 .. n |-> body(i)]
      BY <2>2 DEF IsFlat, n
    <3> HIDE DEF body
    <3> QED BY <3>1
  <2> DEFINE Fine(i) == f[i] \in Seq(T) /\ (seqs[1] # <<>> => f[i] # <<>>)
             Bad == {i \in 1 .. n : ~Fine(i)}
  <2>6. ASSUME Bad # {} PROVE FALSE
    <3>1. Bad \in SUBSET Nat
      BY <2>4
    <3>2. PICK i \in Bad : \A j \in Bad : i <= j
      <4> HIDE DEF Bad
      <4> QED BY <2>6, <3>1, NatLeast
    <3>3. i \in 1 .. n /\ ~Fine(i)
      OBVIOUS
    <3>4. CASE i = 1
      <4>1. f[i] = seqs[1] /\ seqs[1] \in Seq(T)
        BY <2>4, <2>5, <3>3, <3>4
      <4> QED BY <3>3, <3>4, <4>1
    <3>5. CASE i # 1
      <4> DEFINE j == i - 1
      <4>1. j \in 1 .. n /\ ~(i <= j)
        BY <2>4, <3>3, <3>5
      <4>2. j \notin Bad
        <5> HIDE DEF Bad, j
        <5> QED BY <3>2, <4>1
      <4>3. Fine(j)
        BY <4>1, <4>2
      <4>4. f[i] = f[j] \o seqs[i] /\ seqs[i] \in Seq(T)
        BY <2>4, <2>5, <3>3, <3>5
      <4> HIDE DEF j
      <4>5. Fine(i)
        BY <4>3, <4>4
      <4> QED BY <3>3, <4>5
    <3> QED BY <3>4, <3>5
  <2>7. n \in 1 .. n
    BY <1>2, <2>4 DEF n
  <2>8. Fine(n)
    BY <2>6, <2>7
  <2> QED BY <1>2, <2>3, <2>8
<1> QED BY <1>1, <1>2

LEMMA ConcatLen ==
    ASSUME NEW T, NEW q \in Seq(T), NEW r \in Seq(T)
    PROVE  q \o r \in Seq(T) /\ Len(q \o r) = Len(q) + Len(r)
  OBVIOUS

(* What two sequences have together.                                       *)
LEMMA ConcatRange ==
    ASSUME NEW T, NEW q \in Seq(T), NEW r \in Seq(T)
    PROVE  Range(q \o r) = Range(q) \cup Range(r)
<1> DEFINE w == q \o r
<1>1. /\ w \in Seq(T) /\ Len(w) = Len(q) + Len(r)
      /\ \A i \in 1 .. Len(w) : w[i] = IF i <= Len(q) THEN q[i] ELSE r[i - Len(q)]
  OBVIOUS
<1>2. /\ DOMAIN w = 1 .. Len(w) /\ DOMAIN q = 1 .. Len(q) /\ DOMAIN r = 1 .. Len(r)
      /\ Len(q) \in Nat /\ Len(r) \in Nat
  BY <1>1
<1> HIDE DEF w
<1>3. ASSUME NEW i \in DOMAIN w PROVE w[i] \in Range(q) \cup Range(r)
  <2>1. CASE i <= Len(q)
    <3>1. i \in DOMAIN q /\ w[i] = q[i]
      BY <1>1, <1>2, <2>1
    <3> QED BY <3>1 DEF Range
  <2>2. CASE ~(i <= Len(q))
    <3>1. i - Len(q) \in DOMAIN r /\ w[i] = r[i - Len(q)]
      BY <1>1, <1>2, <2>2
    <3> QED BY <3>1 DEF Range
  <2> QED BY <2>1, <2>2
<1>4. ASSUME NEW i \in DOMAIN q PROVE q[i] \in Range(w)
  <2>1. i \in DOMAIN w /\ w[i] = q[i]
    BY <1>1, <1>2
  <2> QED BY <2>1 DEF Range
<1>5. ASSUME NEW i \in DOMAIN r PROVE r[i] \in Range(w)
  <2> DEFINE j == i + Len(q)
  <2>1. j \in DOMAIN w /\ j - Len(q) = i /\ ~(j <= Len(q))
    BY <1>1, <1>2
  <2>2. w[j] = r[i]
    BY <1>1, <1>2, <2>1
  <2> QED BY <2>1, <2>2 DEF Range
<1>6. Range(w) = Range(q) \cup Range(r)
  BY <1>3, <1>4, <1>5 DEF Range
<1> QED BY <1>6 DEF w

(* A flattened sequence has the elements of its parts, and k times as many *)
(* as there are parts when each has k.                                     *)
LEMMA FlattenHas ==
    ASSUME NEW T, NEW seqs \in Seq(Seq(T)), Len(seqs) # 0, NEW k \in Nat
    PROVE  /\ Range(FlattenSeq(seqs)) = UNION {Range(seqs[i]) : i \in 1 .. Len(seqs)}
           /\ (\A i \in 1 .. Len(seqs) : Len(seqs[i]) = k)
                => Len(FlattenSeq(seqs)) = k * Len(seqs)
<1> DEFINE n == Len(seqs)
           f == CHOOSE h : IsFlat(h, seqs)
           body(i) == IF i = 1 THEN seqs[i] ELSE f[i - 1] \o seqs[i]
<1>1. \E h : IsFlat(h, seqs)
  BY FlatExists
<1>2. IsFlat(f, seqs)
  BY <1>1
<1>3. FlattenSeq(seqs) = f[n]
  BY DEF FlattenSeq, IsFlat
<1>4. n \in Nat /\ n # 0 /\ \A i \in 1 .. n : seqs[i] \in Seq(T)
  OBVIOUS
<1> HIDE DEF f, n
<1>5. \A i \in 1 .. n : f[i] = body(i)
  <2>1. f = [i \in 1 .. n |-> body(i)]
    BY <1>2 DEF IsFlat, n
  <2> HIDE DEF body
  <2> QED BY <2>1
<1> DEFINE Even == \A i \in 1 .. n : Len(seqs[i]) = k
           Union(i) == UNION {Range(seqs[j]) : j \in 1 .. i}
           Fine(i) == /\ f[i] \in Seq(T) /\ Range(f[i]) = Union(i)
                      /\ Even => Len(f[i]) = k * i
           Bad == {i \in 1 .. n : ~Fine(i)}
<1>6. ASSUME Bad # {} PROVE FALSE
  <2>1. Bad \in SUBSET Nat
    BY <1>4
  <2>2. PICK i \in Bad : \A j \in Bad : i <= j
    <3> HIDE DEF Bad
    <3> QED BY <1>6, <2>1, NatLeast
  <2>3. i \in 1 .. n /\ ~Fine(i)
    OBVIOUS
  <2>4. CASE i = 1
    <3>1. f[i] = seqs[1] /\ seqs[1] \in Seq(T)
      BY <1>4, <1>5, <2>3, <2>4
    <3>2. Union(1) = Range(seqs[1])
      <4>1. 1 .. 1 = {1}
        OBVIOUS
      <4> QED BY <4>1
    <3>3. Even => Len(f[i]) = k * i
      BY <2>3, <2>4, <3>1
    <3> HIDE DEF Union, Even
    <3>4. Fine(i)
      BY <2>4, <3>1, <3>2, <3>3
    <3> QED BY <2>3, <3>4
  <2>5. CASE i # 1
    <3> DEFINE j == i - 1
    <3>1. j \in 1 .. n /\ ~(i <= j) /\ i = j + 1
      BY <1>4, <2>3, <2>5
    <3>2. j \notin Bad
      <4> HIDE DEF Bad, j
      <4> QED BY <2>2, <3>1
    <3>3. Fine(j)
      BY <3>1, <3>2
    <3>4. f[i] = f[j] \o seqs[i] /\ seqs[i] \in Seq(T)
      BY <1>4, <1>5, <2>3, <2>5
    <3> HIDE DEF j
    <3>5. Union(i) = Union(j) \cup Range(seqs[i])
      <4>1. 1 .. i = (1 .. j) \cup {i}
        BY <3>1
      <4> QED BY <4>1
    <3>6. f[i] \in Seq(T) /\ Range(f[i]) = Union(i)
      <4> HIDE DEF Union, Even
      <4>1. f[j] \in Seq(T) /\ Range(f[j]) = Union(j)
        BY <3>3
      <4>2. Range(f[j] \o seqs[i]) = Range(f[j]) \cup Range(seqs[i])
        BY <3>4, <4>1, ConcatRange
      <4> QED BY <3>4, <3>5, <4>1, <4>2
    <3>7. Even => Len(f[i]) = k * i
      <4> SUFFICES ASSUME Even PROVE Len(f[i]) = k * i
        OBVIOUS
      <4>1. Len(f[j]) = k * j /\ Len(seqs[i]) = k /\ f[j] \in Seq(T)
        BY <2>3, <3>3
      <4>2. Len(f[i]) = k * j + k
        <5>1. Len(f[j] \o seqs[i]) = Len(f[j]) + Len(seqs[i])
          BY <3>4, <4>1, ConcatLen
        <5> QED BY ONLY <3>4, <4>1, <5>1
      <4>3. k * (j + 1) = k * j + k
        BY <3>1
      <4> QED BY <3>1, <4>2, <4>3
    <3> HIDE DEF Union, Even
    <3>8. Fine(i)
      BY <3>6, <3>7
    <3> QED BY <2>3, <3>8
  <2> QED BY <2>4, <2>5
<1>7. n \in 1 .. n
  BY <1>4
<1>8. Fine(n)
  BY <1>6, <1>7
<1> QED BY <1>3, <1>8 DEF n

-----------------------------------------------------------------------------
(* Lists put in order                                                      *)

Ints(xs, n) == n \in Nat /\ xs \in [1 .. n -> Int]

(* A stable sort has one place for every index, in the order of the        *)
(* values, and of the indexes where values are equal.                      *)
LEMMA AheadIs ==
    ASSUME NEW n, NEW xs, Ints(xs, n), NEW k \in 1 .. n
    PROVE  /\ IsFiniteSet(Ahead(xs, k)) /\ Cardinality(Ahead(xs, k)) \in 0 .. n - 1
           /\ \A j \in 1 .. n : xs[j] < xs[k] \/ (xs[j] = xs[k] /\ j < k)
                                  => Cardinality(Ahead(xs, j)) < Cardinality(Ahead(xs, k))
<1>1. /\ n \in Nat /\ DOMAIN xs = 1 .. n /\ \A j \in 1 .. n : xs[j] \in Int
      /\ IsFiniteSet(1 .. n) /\ Cardinality(1 .. n) = n
  BY FS_Interval DEF Ints
<1>2. ASSUME NEW j \in 1 .. n
      PROVE  /\ IsFiniteSet(Ahead(xs, j)) /\ Cardinality(Ahead(xs, j)) \in Nat
             /\ Cardinality(Ahead(xs, j)) <= n - 1
  <2>1. Ahead(xs, j) \in SUBSET (1 .. n) /\ j \notin Ahead(xs, j)
    BY <1>1 DEF Ahead
  <2>2. /\ IsFiniteSet(Ahead(xs, j)) /\ Cardinality(Ahead(xs, j)) <= n
        /\ Cardinality(Ahead(xs, j)) = n => 1 .. n = Ahead(xs, j)
    BY ONLY <1>1, <2>1, FS_Subset
  <2>3. Cardinality(Ahead(xs, j)) \in Nat
    BY ONLY <2>2, FS_CardinalityType
  <2> QED BY ONLY <1>1, <1>2, <2>1, <2>2, <2>3
<1>3. ASSUME NEW j \in 1 .. n, xs[j] < xs[k] \/ (xs[j] = xs[k] /\ j < k)
      PROVE  Cardinality(Ahead(xs, j)) < Cardinality(Ahead(xs, k))
  <2>1. Ahead(xs, j) \in SUBSET Ahead(xs, k)
    <3> SUFFICES ASSUME NEW i \in 1 .. n, xs[i] < xs[j] \/ (xs[i] = xs[j] /\ i < j)
                 PROVE  xs[i] < xs[k] \/ (xs[i] = xs[k] /\ i < k)
      BY <1>1 DEF Ahead
    <3>1. xs[i] \in Int /\ xs[j] \in Int /\ xs[k] \in Int
      BY <1>1
    <3> QED BY ONLY <1>1, <1>3, <3>1, i \in 1 .. n, j \in 1 .. n, k \in 1 .. n,
                    xs[i] < xs[j] \/ (xs[i] = xs[j] /\ i < j)
  <2>2. j \in Ahead(xs, k) /\ j \notin Ahead(xs, j)
    BY <1>1, <1>3 DEF Ahead
  <2>3. IsFiniteSet(Ahead(xs, k)) /\ Cardinality(Ahead(xs, k)) \in Nat /\ Cardinality(Ahead(xs, j)) \in Nat
    BY <1>2
  <2>4. /\ Cardinality(Ahead(xs, j)) <= Cardinality(Ahead(xs, k))
        /\ Cardinality(Ahead(xs, j)) = Cardinality(Ahead(xs, k)) => Ahead(xs, k) = Ahead(xs, j)
    BY ONLY <2>1, <2>3, FS_Subset
  <2> QED BY ONLY <2>2, <2>3, <2>4
<1>4. Cardinality(Ahead(xs, k)) \in 0 .. n - 1
  BY <1>1, <1>2
<1> QED BY <1>2, <1>3, <1>4

(* Argsort's order: every index has a place, and a later place is of a     *)
(* greater value, or of an equal one and a greater index.                  *)
InOrderBy(order, xs, n) ==
    /\ order \in [1 .. n -> 1 .. n]
    /\ \A k \in 1 .. n : \E i \in 1 .. n : order[i] = k
    /\ \A i \in 1 .. n : Cardinality(Ahead(xs, order[i])) = i - 1
    /\ \A i, l \in 1 .. n : i < l => \/ xs[order[i]] < xs[order[l]]
                                     \/ xs[order[i]] = xs[order[l]] /\ order[i] < order[l]
    /\ \A i, l \in 1 .. n : order[i] = order[l] => i = l

LEMMA ArgsortIs ==
    ASSUME NEW n, NEW xs, Ints(xs, n)
    PROVE  InOrderBy(Argsort(xs), xs, n)
<1> DEFINE rank == [k \in 1 .. n |-> Cardinality(Ahead(xs, k))]
           order == Argsort(xs)
<1>1. /\ n \in Nat /\ DOMAIN xs = 1 .. n /\ Len(xs) = n /\ \A j \in 1 .. n : xs[j] \in Int
      /\ IsFiniteSet(1 .. n) /\ Cardinality(1 .. n) = n
  <2>1. n \in Nat /\ DOMAIN xs = 1 .. n /\ \A j \in 1 .. n : xs[j] \in Int
    BY DEF Ints
  <2>2. xs \in Seq(Int)
    BY DEF Ints
  <2> QED BY <2>1, <2>2, FS_Interval
<1>2. rank \in [1 .. n -> 0 .. n - 1] /\ \A k \in 1 .. n : rank[k] = Cardinality(Ahead(xs, k))
  BY AheadIs
<1>3. ASSUME NEW j \in 1 .. n, NEW k \in 1 .. n, xs[j] < xs[k] \/ (xs[j] = xs[k] /\ j < k)
      PROVE  rank[j] < rank[k]
  BY <1>2, <1>3, AheadIs
<1> HIDE DEF rank
<1>4. \A j, k \in 1 .. n : \/ xs[j] < xs[k] \/ (xs[j] = xs[k] /\ j < k)
                           \/ xs[k] < xs[j] \/ (xs[k] = xs[j] /\ k < j)
                           \/ j = k
  BY <1>1
<1>5. \A j, k \in 1 .. n : rank[j] = rank[k] => j = k
  <2> SUFFICES ASSUME NEW j \in 1 .. n, NEW k \in 1 .. n, rank[j] = rank[k] PROVE j = k
    OBVIOUS
  <2>1. rank[j] \in Int /\ rank[k] \in Int
    BY <1>2
  <2>2. ~(rank[j] < rank[k]) /\ ~(rank[k] < rank[j])
    BY <2>1
  <2> QED BY <1>3, <1>4, <2>2
<1>6. \A r \in 0 .. n - 1 : \E k \in 1 .. n : rank[k] = r
  <2>1. rank \in Injection(1 .. n, 0 .. n - 1)
    BY <1>2, <1>5 DEF Injection, IsInjective
  <2>2. IsFiniteSet(0 .. n - 1) /\ Cardinality(0 .. n - 1) = n
    BY <1>1, FS_Interval
  <2>3. rank \in Surjection(1 .. n, 0 .. n - 1)
    BY ONLY <1>1, <2>1, <2>2, FS_Injection
  <2> QED BY <2>3 DEF Surjection
<1>7. ASSUME NEW i \in 1 .. n PROVE order[i] \in 1 .. n /\ rank[order[i]] = i - 1
  <2> DEFINE P(k) == Cardinality(Ahead(xs, k)) = i - 1
  <2>1. i - 1 \in 0 .. n - 1
    BY <1>1
  <2>2. \E k \in 1 .. n : P(k)
    BY <1>2, <1>6, <2>1
  <2>3. order[i] = CHOOSE k \in 1 .. n : P(k)
    BY <1>1 DEF Argsort
  <2> HIDE DEF P, order
  <2>4. order[i] \in 1 .. n /\ P(order[i])
    BY <2>2, <2>3
  <2> QED BY <1>2, <2>4 DEF P
<1>8. order \in [1 .. n -> 1 .. n]
  <2> DEFINE place(i) == CHOOSE k \in 1 .. n : Cardinality(Ahead(xs, k)) = i - 1
  <2>1. order = [i \in 1 .. n |-> place(i)]
    BY <1>1 DEF Argsort
  <2> HIDE DEF place, order
  <2> QED BY <1>7, <2>1
<1> HIDE DEF order
<1>9. ASSUME NEW k \in 1 .. n PROVE \E i \in 1 .. n : order[i] = k
  <2>1. rank[k] + 1 \in 1 .. n /\ (rank[k] + 1) - 1 = rank[k]
    BY <1>1, <1>2
  <2>2. order[rank[k] + 1] = k
    BY <1>5, <1>7, <2>1
  <2> QED BY <2>1, <2>2
<1>10. ASSUME NEW i \in 1 .. n, NEW l \in 1 .. n, i < l
       PROVE  \/ xs[order[i]] < xs[order[l]]
              \/ xs[order[i]] = xs[order[l]] /\ order[i] < order[l]
  <2> DEFINE a == order[i]
             b == order[l]
  <2>1. a \in 1 .. n /\ b \in 1 .. n /\ rank[a] = i - 1 /\ rank[b] = l - 1
    BY <1>7
  <2> HIDE DEF a, b
  <2>2. ~(rank[b] < rank[a]) /\ a # b
    BY <1>10, <2>1
  <2>3. ~(xs[b] < xs[a] \/ (xs[b] = xs[a] /\ b < a))
    BY <1>3, <2>1, <2>2
  <2>4. xs[a] < xs[b] \/ (xs[a] = xs[b] /\ a < b)
    BY ONLY <1>4, <2>1, <2>2, <2>3
  <2> QED BY <2>4 DEF a, b
<1>11. ASSUME NEW i \in 1 .. n, NEW l \in 1 .. n, order[i] = order[l] PROVE i = l
  BY <1>7, <1>11
<1>12. \A i \in 1 .. n : Cardinality(Ahead(xs, order[i])) = i - 1
  BY <1>2, <1>7
<1>13. InOrderBy(order, xs, n)
  BY <1>8, <1>9, <1>10, <1>11, <1>12 DEF InOrderBy
<1> QED BY <1>13 DEF order

(* Where a block of equal values starts and ends, as one goes through a    *)
(* list in order.                                                          *)
TiedBefore(i, xs, order) == i > 1 /\ xs[order[i - 1]] = xs[order[i]]
TiedAfter(j, xs, order, n) == j < n /\ xs[order[j + 1]] = xs[order[j]]
IsFirst(f, xs, order, n) ==
    f = [i \in 1 .. n |-> IF TiedBefore(i, xs, order) THEN f[i - 1] ELSE i]
IsLast(f, xs, order, n) ==
    f = [j \in 1 .. n |-> IF TiedAfter(j, xs, order, n) THEN f[j + 1] ELSE j]

Smaller(xs, k) == {j \in DOMAIN xs : xs[j] < xs[k]}
Equals(xs, k) == {j \in DOMAIN xs : xs[j] = xs[k]}
StartsAt(xs, k) == Cardinality(Smaller(xs, k)) + 1

(* The number of smaller values, and of smaller or equal ones, satisfy     *)
(* these equations.                                                        *)
LEMMA BlockStep ==
    ASSUME NEW n, NEW xs, Ints(xs, n), NEW order, InOrderBy(order, xs, n), NEW i \in 1 .. n
    PROVE  /\ ~TiedBefore(i, xs, order) => StartsAt(xs, order[i]) = i
           /\ ~TiedAfter(i, xs, order, n)
                => Cardinality(Smaller(xs, order[i]) \cup Equals(xs, order[i])) = i
<1> DEFINE k == order[i]
<1>1. /\ n \in Nat /\ DOMAIN xs = 1 .. n /\ \A j \in 1 .. n : xs[j] \in Int
      /\ order \in [1 .. n -> 1 .. n] /\ k \in 1 .. n
  BY DEF Ints, InOrderBy
<1>2. Cardinality(Ahead(xs, k)) = i - 1 /\ IsFiniteSet(Ahead(xs, k))
  BY <1>1, AheadIs DEF InOrderBy
<1>3. ASSUME NEW j \in 1 .. n PROVE \E m \in 1 .. n : order[m] = j
  BY DEF InOrderBy
<1>4. ASSUME NEW l \in 1 .. n, NEW m \in 1 .. n, l < m
      PROVE  \/ xs[order[l]] < xs[order[m]]
             \/ xs[order[l]] = xs[order[m]] /\ order[l] < order[m]
  BY <1>4 DEF InOrderBy
<1>5. ASSUME ~(i > 1 /\ xs[order[i - 1]] = xs[k]) PROVE StartsAt(xs, k) = i
  <2>1. Smaller(xs, k) \in SUBSET Ahead(xs, k)
    BY DEF Smaller, Ahead
  <2>2. ASSUME NEW j \in Ahead(xs, k), ~(xs[j] < xs[k]) PROVE FALSE
    <3>1. j \in 1 .. n /\ xs[j] = xs[k] /\ j < k
      BY <1>1, <2>2 DEF Ahead
    <3>2. PICK m \in 1 .. n : order[m] = j
      BY <1>3, <3>1
    <3>3. m < i
      <4>1. m # i
        BY <1>1, <3>1, <3>2
      <4>2. ~(i < m)
        <5>1. SUFFICES ASSUME i < m PROVE FALSE
          OBVIOUS
        <5>2. xs[k] < xs[j] \/ (xs[k] = xs[j] /\ k < j)
          BY <1>4, <3>2, <5>1
        <5>3. j \in Int /\ k \in Int /\ xs[j] \in Int /\ xs[k] \in Int
          BY <1>1, <3>1
        <5> HIDE DEF k
        <5> QED BY ONLY <3>1, <5>2, <5>3
      <4> QED BY ONLY <4>1, <4>2, <1>1, m \in 1 .. n, i \in 1 .. n
    <3> DEFINE l == i - 1
    <3>4. l \in 1 .. n /\ l < i /\ i > 1 /\ (m = l \/ m < l)
      BY <1>1, <3>3
    <3>5. order[l] \in 1 .. n /\ xs[order[l]] \in Int /\ xs[k] \in Int
      BY <1>1, <3>4
    <3>6. xs[order[l]] # xs[k]
      BY <1>5, <3>4
    <3> HIDE DEF l
    <3>7. xs[order[l]] < xs[k]
      BY <1>4, <3>4, <3>6
    <3>8. CASE m = l
      BY <3>1, <3>2, <3>6, <3>8
    <3>9. CASE m < l
      <4>1. xs[j] < xs[order[l]] \/ xs[j] = xs[order[l]]
        BY <1>4, <3>2, <3>4, <3>9
      <4> QED BY ONLY <3>1, <3>5, <3>7, <4>1
    <3> QED BY <3>4, <3>8, <3>9
  <2>3. Smaller(xs, k) = Ahead(xs, k)
    <3>1. Ahead(xs, k) \in SUBSET Smaller(xs, k)
      BY <2>2 DEF Ahead, Smaller
    <3> QED BY <2>1, <3>1
  <2> QED BY <1>1, <1>2, <2>3 DEF StartsAt
<1>6. ASSUME ~(i < n /\ xs[order[i + 1]] = xs[k])
      PROVE  Cardinality(Smaller(xs, k) \cup Equals(xs, k)) = i
  <2> DEFINE U == Smaller(xs, k) \cup Equals(xs, k)
             V == Ahead(xs, k) \cup {k}
  <2>1. V \in SUBSET U
    BY <1>1 DEF Smaller, Equals, Ahead
  <2>2. ASSUME NEW j \in U, j \notin V PROVE FALSE
    <3>1. j \in 1 .. n /\ (xs[j] < xs[k] \/ xs[j] = xs[k]) /\ j # k /\ ~(xs[j] < xs[k]) /\ ~(j < k)
      BY <1>1, <2>2 DEF Ahead, Smaller, Equals
    <3>2. PICK m \in 1 .. n : order[m] = j
      BY <1>3, <3>1
    <3>3. i < m
      <4>1. m # i
        BY <1>1, <3>1, <3>2
      <4>2. ~(m < i)
        <5>1. SUFFICES ASSUME m < i PROVE FALSE
          OBVIOUS
        <5>2. xs[j] < xs[k] \/ (xs[j] = xs[k] /\ j < k)
          BY <1>4, <3>2, <5>1
        <5> QED BY <3>1, <5>2
      <4> QED BY ONLY <4>1, <4>2, <1>1, m \in 1 .. n, i \in 1 .. n
    <3> DEFINE l == i + 1
    <3>4. l \in 1 .. n /\ i < l /\ i < n /\ (m = l \/ l < m)
      BY <1>1, <3>3
    <3>5. order[l] \in 1 .. n /\ xs[order[l]] \in Int /\ xs[k] \in Int
      BY <1>1, <3>4
    <3>6. xs[order[l]] # xs[k]
      BY <1>6, <3>4
    <3> HIDE DEF l
    <3>7. xs[k] < xs[order[l]]
      BY <1>4, <3>4, <3>6
    <3>8. CASE m = l
      BY <3>1, <3>2, <3>6, <3>8
    <3>9. CASE l < m
      <4>1. xs[order[l]] < xs[j] \/ xs[order[l]] = xs[j]
        BY <1>4, <3>2, <3>4, <3>9
      <4> QED BY ONLY <3>1, <3>5, <3>7, <4>1
    <3> QED BY <3>4, <3>8, <3>9
  <2>3. U = V
    <3> HIDE DEF U, V
    <3> QED BY <2>1, <2>2
  <2>4. k \notin Ahead(xs, k)
    BY <1>1 DEF Ahead
  <2>5. Cardinality(V) = (i - 1) + 1
    <3> HIDE DEF k
    <3> QED BY ONLY <1>2, <2>4, AddOne
  <2>6. (i - 1) + 1 = i
    BY <1>1
  <2> HIDE DEF U, V
  <2>7. Cardinality(U) = i
    BY ONLY <2>3, <2>5, <2>6
  <2> QED BY <2>7 DEF U
<1> QED BY <1>5, <1>6 DEF TiedBefore, TiedAfter

(* So they are what is computed.                                           *)
LEMMA FirstIs ==
    ASSUME NEW n, NEW xs, Ints(xs, n), NEW order, InOrderBy(order, xs, n)
    PROVE  /\ \E f : IsFirst(f, xs, order, n)
           /\ \A f : IsFirst(f, xs, order, n)
                => \A i \in 1 .. n : f[i] = StartsAt(xs, order[i])
<1> DEFINE A(i) == StartsAt(xs, order[i])
           tied(i) == TiedBefore(i, xs, order)
<1>1. n \in Nat
  BY DEF Ints
<1>2. \A i \in 1 .. n : ~tied(i) => A(i) = i
  BY BlockStep
<1>3. \A i \in 1 .. n : tied(i) => i - 1 \in 1 .. n /\ A(i - 1) = A(i)
  BY <1>1 DEF TiedBefore, StartsAt, Smaller
<1>4. \E f : IsFirst(f, xs, order, n)
  <2> DEFINE g == [i \in 1 .. n |-> A(i)]
  <2> HIDE DEF A
  <2>1. \A i \in 1 .. n : g[i] = IF tied(i) THEN g[i - 1] ELSE i
    <3> HIDE DEF tied
    <3> QED BY <1>2, <1>3
  <2>2. g = [i \in 1 .. n |-> IF tied(i) THEN g[i - 1] ELSE i]
    <3>1. g = [i \in 1 .. n |-> g[i]]
      OBVIOUS
    <3> HIDE DEF g, tied
    <3> QED BY <2>1, <3>1
  <2>3. IsFirst(g, xs, order, n)
    <3> HIDE DEF g
    <3> QED BY <2>2 DEF IsFirst
  <2> QED BY <2>3
<1>5. ASSUME NEW f, IsFirst(f, xs, order, n) PROVE \A i \in 1 .. n : f[i] = A(i)
  <2>1. \A i \in 1 .. n : f[i] = IF tied(i) THEN f[i - 1] ELSE i
    BY <1>5 DEF IsFirst
  <2> DEFINE Bad == {i \in 1 .. n : f[i] # A(i)}
  <2> HIDE DEF A, tied
  <2>2. ASSUME Bad # {} PROVE FALSE
    <3>1. Bad \in SUBSET Nat
      BY <1>1
    <3>2. PICK i \in Bad : \A j \in Bad : i <= j
      <4> HIDE DEF Bad
      <4> QED BY <2>2, <3>1, NatLeast
    <3>3. i \in 1 .. n /\ f[i] # A(i)
      OBVIOUS
    <3>4. tied(i) /\ i - 1 \in 1 .. n /\ A(i - 1) = A(i)
      BY <1>2, <1>3, <2>1, <3>3
    <3>5. f[i - 1] # A(i - 1)
      BY <2>1, <3>3, <3>4
    <3>6. i - 1 \in Bad
      BY <3>4, <3>5
    <3> HIDE DEF Bad
    <3> QED BY <1>1, <3>2, <3>3, <3>6
  <2> QED BY <2>2
<1> QED BY <1>4, <1>5

LEMMA LastIs ==
    ASSUME NEW n, NEW xs, Ints(xs, n), NEW order, InOrderBy(order, xs, n)
    PROVE  /\ \E f : IsLast(f, xs, order, n)
           /\ \A f : IsLast(f, xs, order, n)
                => \A i \in 1 .. n :
                     f[i] = Cardinality(Smaller(xs, order[i]) \cup Equals(xs, order[i]))
<1> DEFINE A(i) == Cardinality(Smaller(xs, order[i]) \cup Equals(xs, order[i]))
           tied(i) == TiedAfter(i, xs, order, n)
<1>1. n \in Nat
  BY DEF Ints
<1>2. \A i \in 1 .. n : ~tied(i) => A(i) = i
  BY BlockStep
<1>3. \A i \in 1 .. n : tied(i) => i + 1 \in 1 .. n /\ A(i + 1) = A(i)
  BY <1>1 DEF TiedAfter, Smaller, Equals
<1>4. \E f : IsLast(f, xs, order, n)
  <2> DEFINE g == [i \in 1 .. n |-> A(i)]
  <2> HIDE DEF A
  <2>1. \A i \in 1 .. n : g[i] = IF tied(i) THEN g[i + 1] ELSE i
    <3> HIDE DEF tied
    <3> QED BY <1>2, <1>3
  <2>2. g = [i \in 1 .. n |-> IF tied(i) THEN g[i + 1] ELSE i]
    <3>1. g = [i \in 1 .. n |-> g[i]]
      OBVIOUS
    <3> HIDE DEF g, tied
    <3> QED BY <2>1, <3>1
  <2>3. IsLast(g, xs, order, n)
    <3> HIDE DEF g
    <3> QED BY <2>2 DEF IsLast
  <2> QED BY <2>3
<1>5. ASSUME NEW f, IsLast(f, xs, order, n) PROVE \A i \in 1 .. n : f[i] = A(i)
  <2>1. \A i \in 1 .. n : f[i] = IF tied(i) THEN f[i + 1] ELSE i
    BY <1>5 DEF IsLast
  <2> DEFINE Bad == {m \in Nat : m < n /\ f[n - m] # A(n - m)}
  <2> HIDE DEF A, tied
  <2>2. ASSUME Bad # {} PROVE FALSE
    <3>1. Bad \in SUBSET Nat
      OBVIOUS
    <3>2. PICK m \in Bad : \A j \in Bad : m <= j
      <4> HIDE DEF Bad
      <4> QED BY <2>2, <3>1, NatLeast
    <3> DEFINE i == n - m
    <3>3. m \in Nat /\ i \in 1 .. n /\ f[i] # A(i)
      BY <1>1
    <3> HIDE DEF i
    <3>4. tied(i) /\ i + 1 \in 1 .. n /\ A(i + 1) = A(i)
      BY <1>2, <1>3, <2>1, <3>3
    <3>5. f[i + 1] # A(i + 1)
      BY <2>1, <3>3, <3>4
    <3>6. m - 1 \in Nat /\ m - 1 < n /\ n - (m - 1) = i + 1
      BY <1>1, <3>3, <3>4 DEF i
    <3>7. m - 1 \in Bad
      BY <3>5, <3>6
    <3> HIDE DEF Bad
    <3> QED BY <3>2, <3>3, <3>7
  <2>3. ASSUME NEW i \in 1 .. n PROVE f[i] = A(i)
    <3>1. n - i \in Nat /\ n - i < n /\ n - (n - i) = i
      BY <1>1
    <3>2. n - i \notin Bad
      BY <2>2
    <3> QED BY <3>1, <3>2
  <2> QED BY <2>3
<1> QED BY <1>4, <1>5

LEMMA BlockCounts ==
    ASSUME NEW n, NEW xs, Ints(xs, n), NEW k \in 1 .. n
    PROVE  /\ Cardinality(Smaller(xs, k)) \in Nat /\ Cardinality(Equals(xs, k)) \in Nat
           /\ Cardinality(Smaller(xs, k) \cup Equals(xs, k))
                = Cardinality(Smaller(xs, k)) + Cardinality(Equals(xs, k))
<1> DEFINE U == Smaller(xs, k)
           V == Equals(xs, k)
<1>1. U \in SUBSET (1 .. n) /\ V \in SUBSET (1 .. n) /\ U \cap V = {}
  BY DEF Ints, Smaller, Equals
<1>2. IsFiniteSet(1 .. n)
  BY FS_Interval DEF Ints
<1> HIDE DEF U, V
<1>3. IsFiniteSet(U) /\ IsFiniteSet(V)
  BY ONLY <1>1, <1>2, FS_Subset
<1>4. Cardinality(U) \in Nat /\ Cardinality(V) \in Nat
  BY ONLY <1>3, FS_CardinalityType
<1>5. Cardinality(U \cup V) = Cardinality(U) + Cardinality(V) - Cardinality(U \cap V)
  BY ONLY <1>3, FS_Union
<1>6. Cardinality(U \cap V) = 0
  <2>1. Cardinality({}) = 0
    BY FS_EmptySet
  <2> QED BY ONLY <1>1, <2>1
<1>7. Cardinality(U \cup V) = Cardinality(U) + Cardinality(V)
  BY ONLY <1>4, <1>5, <1>6
<1> QED BY <1>4, <1>7 DEF U, V

(* In order from the smallest, equal ones next to each other.              *)
Nondecreasing(xs, n) == \A i, l \in 1 .. n : i < l => xs[i] <= xs[l]

LEMMA ListSorted ==
    ASSUME NEW n, NEW xs, Ints(xs, n)
    PROVE  /\ Ints(SortedList(xs), n) /\ Nondecreasing(SortedList(xs), n)
           /\ Nondecreasing(xs, n) => SortedList(xs) = xs
<1> DEFINE order == Argsort(xs)
           ys == SortedList(xs)
<1>1. n \in Nat /\ Len(xs) = n /\ xs \in [1 .. n -> Int] /\ xs = [i \in 1 .. n |-> xs[i]]
  <2>1. xs \in Seq(Int)
    BY DEF Ints
  <2> QED BY <2>1 DEF Ints
<1>2. InOrderBy(order, xs, n)
  BY ArgsortIs
<1>3. ys = [i \in 1 .. n |-> xs[order[i]]]
  BY <1>1 DEF SortedList, InOrderOf
<1> HIDE DEF order
<1>4. order \in [1 .. n -> 1 .. n]
  BY <1>2 DEF InOrderBy
<1>5. Ints(ys, n)
  <2> HIDE DEF ys
  <2> QED BY <1>1, <1>3, <1>4 DEF Ints
<1>6. Nondecreasing(ys, n)
  <2> HIDE DEF ys
  <2> SUFFICES ASSUME NEW i \in 1 .. n, NEW l \in 1 .. n, i < l PROVE ys[i] <= ys[l]
    BY DEF Nondecreasing
  <2>1. xs[order[i]] < xs[order[l]] \/ xs[order[i]] = xs[order[l]]
    BY <1>2 DEF InOrderBy
  <2>2. ys[i] = xs[order[i]] /\ ys[l] = xs[order[l]] /\ ys[i] \in Int /\ ys[l] \in Int
    BY <1>3, <1>5 DEF Ints
  <2> QED BY ONLY <2>1, <2>2
<1>7. ASSUME Nondecreasing(xs, n) PROVE ys = xs
  <2>1. ASSUME NEW k \in 1 .. n PROVE Cardinality(Ahead(xs, k)) = k - 1
    <3>1. ASSUME NEW j \in 1 .. n PROVE j \in Ahead(xs, k) <=> j \in 1 .. k - 1
      <4>1. xs[j] \in Int /\ xs[k] \in Int /\ DOMAIN xs = 1 .. n
        BY <1>1
      <4>2. (j < k => xs[j] <= xs[k]) /\ (k < j => xs[k] <= xs[j])
        BY <1>7 DEF Nondecreasing
      <4>3. j \in Ahead(xs, k) <=> xs[j] < xs[k] \/ (xs[j] = xs[k] /\ j < k)
        BY <4>1 DEF Ahead
      <4>4. j \in Int /\ k \in Int /\ 1 <= j /\ (j = k \/ j < k \/ k < j)
        OBVIOUS
      <4>5. j \in Ahead(xs, k) <=> j < k
        BY ONLY <4>1, <4>2, <4>3, <4>4
      <4> QED BY ONLY <4>4, <4>5
    <3>2. Ahead(xs, k) \in SUBSET (1 .. n) /\ 1 .. k - 1 \in SUBSET (1 .. n)
      BY <1>1 DEF Ahead
    <3>3. Ahead(xs, k) = 1 .. k - 1
      BY ONLY <3>1, <3>2
    <3>4. Cardinality(1 .. k - 1) = k - 1
      BY <1>1, FS_Interval
    <3> QED BY <3>3, <3>4
  <2>2. ASSUME NEW i \in 1 .. n PROVE order[i] = i
    <3>1. order[i] \in 1 .. n /\ Cardinality(Ahead(xs, order[i])) = i - 1
      BY <1>2 DEF InOrderBy
    <3>2. order[i] - 1 = i - 1
      BY <2>1, <3>1
    <3> QED BY ONLY <3>1, <3>2, i \in 1 .. n
  <2> HIDE DEF ys
  <2> QED BY <1>1, <1>3, <2>2
<1> QED BY <1>5, <1>6, <1>7

-----------------------------------------------------------------------------
(* Lists made step by step                                                 *)

(* A function that is defined by its value before exists.                  *)
IsStep(step, n, D) == step \in [(1 .. n) \X D -> D]
Iterates(f, step, z, n, D) ==
    /\ f \in [0 .. n -> D] /\ f[0] = z
    /\ \A i \in 1 .. n : f[i] = step[<<i, f[i - 1]>>]

LEMMA StepsExist ==
    ASSUME NEW n \in Nat, NEW D, NEW z \in D, NEW step, IsStep(step, n, D)
    PROVE  \E f : Iterates(f, step, z, n, D)
<1> DEFINE Upto(k) == \E f \in [0 .. n -> D] :
                        f[0] = z /\ \A i \in 1 .. n : i <= k => f[i] = step[<<i, f[i - 1]>>]
           Bad == {k \in Nat : ~Upto(k)}
<1>1. ASSUME Bad # {} PROVE FALSE
  <2>1. Bad \in SUBSET Nat
    OBVIOUS
  <2>2. PICK k \in Bad : \A m \in Bad : k <= m
    <3> HIDE DEF Bad
    <3> QED BY <1>1, <2>1, NatLeast
  <2>3. k \in Nat /\ ~Upto(k)
    OBVIOUS
  <2>4. CASE k = 0
    <3> DEFINE g == [i \in 0 .. n |-> z]
    <3>1. g \in [0 .. n -> D] /\ g[0] = z /\ \A i \in 1 .. n : ~(i <= 0)
      OBVIOUS
    <3> HIDE DEF g
    <3>2. Upto(0)
      BY <3>1
    <3> QED BY <2>3, <2>4, <3>2
  <2>5. CASE k # 0
    <3>1. k - 1 \in Nat /\ ~(k <= k - 1)
      BY <2>3, <2>5
    <3>2. Upto(k - 1)
      <4>1. k - 1 \notin Bad
        <5> HIDE DEF Bad
        <5> QED BY <2>2, <3>1
      <4> QED BY <3>1, <4>1
    <3>3. PICK f \in [0 .. n -> D] :
            f[0] = z /\ \A i \in 1 .. n : i <= k - 1 => f[i] = step[<<i, f[i - 1]>>]
      BY <3>2
    <3> DEFINE h == [i \in 0 .. n |-> IF i = k THEN step[<<i, f[i - 1]>>] ELSE f[i]]
    <3>4. ASSUME NEW i \in 0 .. n PROVE h[i] \in D
      <4>1. CASE i = k
        <5>1. i \in 1 .. n /\ i - 1 \in 0 .. n
          BY <2>3, <2>5, <4>1
        <5>2. f[i - 1] \in D
          BY <5>1
        <5>3. <<i, f[i - 1]>> \in (1 .. n) \X D
          BY ONLY <5>1, <5>2
        <5>4. step[<<i, f[i - 1]>>] \in D
          BY ONLY <5>3, IsStep(step, n, D) DEF IsStep
        <5> QED BY <4>1, <5>4
      <4>2. CASE i # k
        BY <4>2
      <4> QED BY <4>1, <4>2
    <3>5. h \in [0 .. n -> D] /\ h[0] = z
      <4>1. h = [i \in 0 .. n |-> h[i]]
        OBVIOUS
      <4>2. h[0] = z
        BY <2>5, <3>3
      <4> HIDE DEF h
      <4> QED BY <3>4, <4>1, <4>2
    <3>6. ASSUME NEW i \in 1 .. n, i <= k PROVE h[i] = step[<<i, h[i - 1]>>]
      <4>1. i - 1 \in 0 .. n /\ i - 1 # k /\ i \in 0 .. n
        BY <2>3, <3>6
      <4>2. h[i - 1] = f[i - 1]
        BY <4>1
      <4>3. h[i] = step[<<i, f[i - 1]>>]
        <5>1. CASE i = k
          BY <4>1, <5>1
        <5>2. CASE i # k
          <6>1. i <= k - 1
            BY <2>3, <3>6, <5>2
          <6>2. h[i] = f[i]
            BY <4>1, <5>2
          <6> QED BY <3>3, <6>1, <6>2
        <5> QED BY <5>1, <5>2
      <4> HIDE DEF h
      <4> QED BY <4>2, <4>3
    <3> HIDE DEF h
    <3>7. Upto(k)
      BY <3>5, <3>6
    <3> QED BY <2>3, <3>7
  <2> QED BY <2>4, <2>5
<1>2. Upto(n)
  BY <1>1
<1>3. PICK f \in [0 .. n -> D] :
        f[0] = z /\ \A i \in 1 .. n : i <= n => f[i] = step[<<i, f[i - 1]>>]
  BY <1>2
<1>4. Iterates(f, step, z, n, D)
  BY <1>3 DEF Iterates
<1> QED BY <1>4

LEMMA FlattenSteps ==
    ASSUME NEW T, NEW seqs \in Seq(Seq(T)), Len(seqs) # 0
    PROVE  \E f : /\ FlattenSeq(seqs) = f[Len(seqs)]
                  /\ \A i \in 1 .. Len(seqs) : f[i] = IF i = 1 THEN seqs[i] ELSE f[i - 1] \o seqs[i]
<1> DEFINE f == CHOOSE h : IsFlat(h, seqs)
           body(i) == IF i = 1 THEN seqs[i] ELSE f[i - 1] \o seqs[i]
<1>1. \E h : IsFlat(h, seqs)
  BY FlatExists
<1>2. IsFlat(f, seqs)
  BY <1>1
<1>3. FlattenSeq(seqs) = f[Len(seqs)]
  BY DEF FlattenSeq, IsFlat
<1> HIDE DEF f
<1>4. \A i \in 1 .. Len(seqs) : f[i] = body(i)
  <2>1. f = [i \in 1 .. Len(seqs) |-> body(i)]
    BY <1>2 DEF IsFlat
  <2> HIDE DEF body
  <2> QED BY <2>1
<1> QED BY <1>3, <1>4

(* One more part at the end.                                               *)
LEMMA FlattenAppend ==
    ASSUME NEW T, NEW seqs \in Seq(Seq(T)), NEW x \in Seq(T)
    PROVE  FlattenSeq(Append(seqs, x)) = FlattenSeq(seqs) \o x
<1> DEFINE n == Len(seqs)
           more == Append(seqs, x)
<1>1. /\ n \in Nat /\ more \in Seq(Seq(T)) /\ Len(more) = n + 1 /\ Len(more) # 0
      /\ more[n + 1] = x /\ \A i \in 1 .. n : more[i] = seqs[i]
  OBVIOUS
<1> HIDE DEF more
<1>2. PICK h : /\ FlattenSeq(more) = h[Len(more)]
               /\ \A i \in 1 .. Len(more) : h[i] = IF i = 1 THEN more[i] ELSE h[i - 1] \o more[i]
  BY <1>1, FlattenSteps
<1>3. CASE n = 0
  <2>1. seqs = <<>> /\ FlattenSeq(seqs) = seqs
    BY <1>3 DEF FlattenSeq
  <2>2. FlattenSeq(more) = x
    BY <1>1, <1>2, <1>3
  <2>3. <<>> \o x = x
    BY ConcatEmptySeq
  <2> QED BY <2>1, <2>2, <2>3 DEF more
<1>4. CASE n # 0
  <2>1. PICK f : /\ FlattenSeq(seqs) = f[n]
                 /\ \A i \in 1 .. n : f[i] = IF i = 1 THEN seqs[i] ELSE f[i - 1] \o seqs[i]
    BY <1>4, FlattenSteps
  <2> HIDE DEF n
  <2>2. \A i \in 1 .. n : h[i] = IF i = 1 THEN seqs[i] ELSE h[i - 1] \o seqs[i]
    BY <1>1, <1>2
  <2> DEFINE Bad == {i \in 1 .. n : f[i] # h[i]}
  <2>3. ASSUME Bad # {} PROVE FALSE
    <3>1. Bad \in SUBSET Nat
      BY <1>1
    <3>2. PICK i \in Bad : \A j \in Bad : i <= j
      <4> HIDE DEF Bad
      <4> QED BY <2>3, <3>1, NatLeast
    <3>3. i \in 1 .. n /\ f[i] # h[i]
      OBVIOUS
    <3>4. i # 1 /\ f[i - 1] # h[i - 1]
      BY <2>1, <2>2, <3>3
    <3>5. i - 1 \in 1 .. n /\ ~(i <= i - 1)
      BY <1>1, <3>3, <3>4
    <3>6. i - 1 \in Bad
      BY <3>4, <3>5
    <3> HIDE DEF Bad
    <3> QED BY <3>2, <3>5, <3>6
  <2>4. f[n] = h[n]
    <3>1. n \in 1 .. n
      BY <1>1, <1>4
    <3> QED BY <2>3, <3>1
  <2>5. n + 1 \in 1 .. Len(more) /\ n + 1 # 1 /\ (n + 1) - 1 = n
    BY <1>1, <1>4
  <2>6. h[n + 1] = h[n] \o x
    BY <1>1, <1>2, <2>5
  <2>7. FlattenSeq(more) = FlattenSeq(seqs) \o x
    BY <1>1, <1>2, <2>1, <2>4, <2>6
  <2> QED BY <2>7 DEF more
<1> QED BY <1>3, <1>4
==============================================================================
