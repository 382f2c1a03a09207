-------------------------------- MODULE Stats --------------------------------
(***************************************************************************)
(* The numbers of scripts/analyze.py that decide something: means, ranks,  *)
(* the drift criterion and the sign of a difference.  A mean is the pair   *)
(* <<sum, count>>; ranks are doubled, so that averages of ties are whole.  *)
(* Standard deviations, p-values, effect sizes and MDEs are printed but    *)
(* decide nothing and are left out, as is the bootstrap: where resampling  *)
(* cannot change the means its interval is known, elsewhere it is open.    *)
(***************************************************************************)
EXTENDS Order, Integers, Sequences, SequencesExt, Functions

CONSTANT Missing

ASSUME MissingAssumption == Missing \notin Int

Total(s) == FoldSeq(+, 0, s)
Magnitude(x) == IF x < 0 THEN -x ELSE x

(* num() makes everything that is not a finite number None.                *)
clean(xs) ==
    LET kept == Sorted({i \in DOMAIN xs : xs[i] # Missing})
    IN  [k \in DOMAIN kept |-> xs[kept[k]]]

mean(xs) == <<Total(xs), Len(xs)>>

(* The sign of mean(b) - mean(a).                                          *)
Diff(a, b) == mean(b)[1] * mean(a)[2] - mean(a)[1] * mean(b)[2]

(* mean(b) - mean(a) < d                                                   *)
CloserThan(d, a, b) == Diff(a, b) < d * mean(a)[2] * mean(b)[2]

-----------------------------------------------------------------------------
(* Mutant: ties get the rank of the first.                                 *)
rankdata_first(xs) ==
    LET n == Len(xs)
        order == Argsort(xs)
        first[i \in 1 .. n] ==
            IF i > 1 /\ xs[order[i - 1]] = xs[order[i]] THEN first[i - 1] ELSE i
    IN  [k \in 1 .. n |-> LET i == CHOOSE j \in 1 .. n : order[j] = k IN 2 * first[i]]

(* Sort, and give every block of ties the middle of its places.            *)
rankdata(xs) ==
    LET n == Len(xs)
        order == Argsort(xs)
        first[i \in 1 .. n] ==
            IF i > 1 /\ xs[order[i - 1]] = xs[order[i]] THEN first[i - 1] ELSE i
        last[j \in 1 .. n] ==
            IF j < n /\ xs[order[j + 1]] = xs[order[j]] THEN last[j + 1] ELSE j
    IN  [k \in 1 .. n |-> LET i == CHOOSE j \in 1 .. n : order[j] = k IN first[i] + last[i]]

(* The correlation is Sxy / sqrt(Sxx Syy), where S is n^2 times the        *)
(* covariance.                                                             *)
S(xs, ys) ==
    Len(xs) * Total([i \in DOMAIN xs |-> xs[i] * ys[i]]) - Total(xs) * Total(ys)

(* |rho| > permille / 1000 for two columns of which values are missing;    *)
(* false where the program has no rho.                                     *)
SpearmanAbove(permille, xs, ys) ==
    LET both == SelectSeq([i \in DOMAIN xs |-> i],
                          LAMBDA i : xs[i] # Missing /\ ys[i] # Missing)
        a == rankdata([i \in DOMAIN both |-> xs[both[i]]])
        b == rankdata([i \in DOMAIN both |-> ys[both[i]]])
    IN  /\ Len(both) >= 3
        /\ S(a, a) > 0 /\ S(b, b) > 0
        /\ 10 * Magnitude(S(a, b)) * 10 * Magnitude(S(a, b))
             > ((permille \div 100) * (permille \div 100)) * (S(a, a) * S(b, b))

-----------------------------------------------------------------------------
(* Whether the confidence interval of the difference of means may leave    *)
(* zero out.  When neither sample varies every resample has the same       *)
(* difference.                                                             *)
Constant(xs) == \A i \in DOMAIN xs : xs[i] = xs[1]
MayExcludeZero(a, b) ==
    IF Constant(a) /\ Constant(b) THEN {Diff(a, b) # 0} ELSE BOOLEAN

-----------------------------------------------------------------------------
(* The definition of average ranks: a value's rank is one more than the    *)
(* number of smaller ones and half the number of its other equals.         *)
RankOf(xs, k) ==
    2 * Cardinality({i \in DOMAIN xs : xs[i] < xs[k]})
      + Cardinality({i \in DOMAIN xs : xs[i] = xs[k]}) + 1
=============================================================================
