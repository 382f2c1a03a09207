------------------------------ MODULE RailModel ------------------------------
(***************************************************************************)
(* One run of sim/rail_model.py: the arguments, the optional calibration,  *)
(* the experiments A, B and C, and what the verdict is printed from.       *)
(*                                                                         *)
(* The search for the highest frequency under the power cap takes one step *)
(* per bisection, everything else one step per result.  Times are in ms,   *)
(* energies in mJ, work in millions of cycles.  The tables, the plots and  *)
(* the derived percentages are left out.  The least squares solver is left *)
(* open: it answers with any parameters of Fits, or finds the system       *)
(* singular.                                                               *)
(***************************************************************************)
EXTENDS Power

CONSTANTS
    Args,        \* command lines
    Csvs,        \* files for --calibrate: sequences of rows
    NoCsv,
    NoCell,      \* a missing cell, or one that _fnum rejects
    Fits         \* solutions of the normal equations

VARIABLES pc, args, csv, params, samples, rows_a, rows_b, lo, hi, summary_c

vars == <<pc, args, csv, params, samples, rows_a, rows_b, lo, hi, summary_c>>

Cpus == 0 .. N_PHYS_CORES + SMT_SIBLING_STRIDE - 1

ASSUME StrideAssumption == SMT_SIBLING_STRIDE = N_PHYS_CORES
ASSUME ArgsAssumption ==
    Args \subseteq [light_activity : Int, f_little : Nat, temp_c : Nat, no_pl1 : BOOLEAN,
                    exp_c_cores : Int, calibrate : BOOLEAN]
ASSUME TempAssumption == \A a \in Args : leak_temp_factor(a.temp_c) \in Nat
ASSUME FitsAssumption == Fits \subseteq [C_eff : Int, k_leak : Int, p_sa_floor : Int]

W_COMPILE == 120000
W_LIGHT_PER_TASK == 15000
N_LIGHT_TASKS == 3
HORIZON == 30
FREQ_SWEEP_STEP == 25
TOL == 1             \* MHz; the program stops at 0.1 MHz
MAX_LIGHT == 7       \* max_light_cores of experiment_a

Over == {"usage", "died", "done"}
Pc == {"main", "calibrate", "a", "b", "bisect", "row", "c"} \cup Over

None == [crossover |-> 0, no_floor |-> 0, core_only |-> 0]

TypeOK ==
    /\ pc \in Pc
    /\ args \in Args
    /\ params \in [C_eff : Nat \ {0}, k_leak : Nat, p_sa_floor : Nat]
    /\ rows_a \in Seq([shared : Int, split : Int, no_partition : Int])
    /\ Len(rows_a) <= MAX_LIGHT
    /\ rows_b \in Seq([n_big : Nat, shared : BOOLEAN, f_work : Nat, f_bg : Nat, a_bg : Nat,
                       t_compile : Nat, feasible : BOOLEAN, p1 : Nat, p2 : Nat, energy : Nat])
    /\ Len(rows_b) <= 2 * (N_PHYS_CORES + 1)
    /\ lo \in Nat /\ hi \in Nat /\ F_MIN <= lo /\ lo <= hi
    /\ summary_c \in [crossover : Nat, no_floor : Nat, core_only : Nat]

Init ==
    /\ pc = "main"
    /\ args \in Args
    /\ csv \in (IF args.calibrate THEN Csvs ELSE {NoCsv})
    /\ params = Prior
    /\ samples = <<>> /\ rows_a = <<>> /\ rows_b = <<>>
    /\ lo = F_MIN /\ hi = F_MIN
    /\ summary_c = None

-----------------------------------------------------------------------------
(* main()                                                                  *)

ArgsOk ==
    /\ args.exp_c_cores \in 1 .. N_PHYS_CORES
    /\ args.light_activity > 0 /\ args.light_activity <= Unit

main ==
    /\ pc = "main"
    /\ pc' = (IF ~ArgsOk THEN "usage" ELSE IF args.calibrate THEN "calibrate" ELSE "a")
    /\ UNCHANGED <<args, csv, params, samples, rows_a, rows_b, lo, hi, summary_c>>

-----------------------------------------------------------------------------
(* Calibration                                                             *)

Siblings(core) == {core, core + SMT_SIBLING_STRIDE}
Cells(column, core) == {i \in Siblings(core) : column[i] # NoCell}

(* Two siblings are one core: one clock, and the sum of their activities.  *)
Fold(row, core) ==
    <<Max({row.mhz[i] : i \in Cells(row.mhz, core)}),
      AtMost(Unit, MapThenSumSet(LAMBDA i : row.busy[i], Cells(row.busy, core)))>>

(* A row is skipped without a positive package power, or when one core has *)
(* no frequency at all.                                                    *)
Usable(row) ==
    /\ row.pkg_w # NoCell
    /\ row.pkg_w > 0
    /\ \A core \in 0 .. N_PHYS_CORES - 1 : Cells(row.mhz, core) # {}

Sample(row) ==
    [pkg_w |-> row.pkg_w,
     temp_c |-> IF row.pkg_c = NoCell THEN T_REF ELSE row.pkg_c,
     phys |-> [i \in 1 .. N_PHYS_CORES |-> Fold(row, i - 1)]]

load_samples(rows) ==
    LET used == SelectSeq(rows, Usable)
    IN  [i \in DOMAIN used |-> Sample(used[i])]

(* Mutant: every core at the voltage of its own frequency.                 *)
Design_own(s) ==
    LET V(i) == v_of_f(s.phys[i][1])
        top == IF ActiveCores(s.phys) = {} THEN F_MIN ELSE FMaxActive(s.phys)
    IN  [x1 |-> Total([i \in DOMAIN s.phys |->
                         Dynamic(100, V(i), s.phys[i][1], s.phys[i][2])]),
         x2 |-> Total([i \in DOMAIN s.phys |->
                         (leak_shape(V(i)) * leak_temp_factor(s.temp_c)
                             * (IF Active(s.phys[i]) THEN 100 ELSE RESIDUAL)) \div 10000]),
         r |-> IF ActiveCores(s.phys) = {} THEN 0 ELSE Ring(top) + Traffic(s.phys)]

(* The row of the design matrix: pkg_w ~ C_eff x1 + k_leak x2 + floor + r. *)
Design(s) ==
    LET top == IF ActiveCores(s.phys) = {} THEN F_MIN ELSE FMaxActive(s.phys)
        v == v_of_f(top)
    IN  [x1 |-> Total([i \in DOMAIN s.phys |->
                         Dynamic(100, v, s.phys[i][1], s.phys[i][2])]),
         x2 |-> Total([i \in DOMAIN s.phys |->
                         (leak_shape(v) * leak_temp_factor(s.temp_c)
                             * (IF Active(s.phys[i]) THEN 100 ELSE RESIDUAL)) \div 10000]),
         r |-> IF ActiveCores(s.phys) = {} THEN 0 ELSE Ring(top) + Traffic(s.phys)]

(* Mutant: no clamping.                                                    *)
Physical_raw(fit) == fit

(* C_eff falls back to the prior, the other two to zero.                   *)
Physical(fit) ==
    [C_eff |-> IF fit.C_eff <= 0 THEN Prior.C_eff ELSE fit.C_eff,
     k_leak |-> AtLeast(fit.k_leak, 0),
     p_sa_floor |-> AtLeast(fit.p_sa_floor, 0)]

calibrate ==
    /\ pc = "calibrate"
    /\ samples' = load_samples(csv)
    /\ \/ /\ Len(samples') >= 4
          /\ \E fit \in Fits : params' = Physical(fit)
          /\ pc' = "a"
       \/ pc' = "died" /\ UNCHANGED params      \* too few rows, or singular
    /\ UNCHANGED <<args, csv, rows_a, rows_b, lo, hi, summary_c>>

-----------------------------------------------------------------------------
(* Experiment A: N light threads beside one core at turbo                  *)

N_FREE == N_PHYS_CORES - 1

(* Mutant: no thread lands on the sibling of the big core.                 *)
CoreOfThread_wrap(k) == 1 + (k % N_FREE)

(* The core of light thread k: the free cores, then their siblings, then   *)
(* the sibling of the big core.                                            *)
CoreOfThread(k) == IF k >= 2 * N_FREE THEN 0 ELSE 1 + (k % N_FREE)

LightActivity(n, core) ==
    AtMost(Unit, args.light_activity
                   * Cardinality({k \in 0 .. n - 1 : CoreOfThread(k) = core}))

F_BIG == turbo_limit(1)

(* The big core, and n light threads at frequency f on the others.         *)
WithLight(n, f) ==
    [i \in 1 .. N_PHYS_CORES |->
        IF i = 1 THEN <<F_BIG, Unit>>
        ELSE IF LightActivity(n, i - 1) > 0 THEN <<f, LightActivity(n, i - 1)>>
        ELSE Idle]

Marginal(n, f, shared) ==
    Watts(params, WithLight(n, f), shared, args.temp_c)
      - Watts(params, WithLight(0, f), shared, args.temp_c)

experiment_a ==
    /\ pc = "a"
    /\ IF Len(rows_a) < MAX_LIGHT
       THEN LET n == Len(rows_a) + 1 IN
            /\ rows_a' = Append(rows_a, [shared |-> Marginal(n, args.f_little, TRUE),
                                         split |-> Marginal(n, args.f_little, FALSE),
                                         no_partition |-> Marginal(n, F_BIG, TRUE)])
            /\ UNCHANGED pc
       ELSE pc' = "b" /\ UNCHANGED rows_a
    /\ UNCHANGED <<args, csv, params, samples, rows_b, lo, hi, summary_c>>

-----------------------------------------------------------------------------
(* Experiment B: n_big cores compile, the others run the background        *)

(* The row under way: n_big = 0, 1, ..., each on the shared rail, then on  *)
(* split ones.                                                             *)
n_big == Len(rows_b) \div 2
shared_rail == Len(rows_b) % 2 = 0

n_little == N_PHYS_CORES - n_big
n_work == IF n_big = 0 THEN n_little ELSE n_big
f_ceiling == IF n_big = 0 THEN F_LITTLE ELSE turbo_limit(n_big)

f_bg == IF n_little > 0 THEN F_LITTLE ELSE f_ceiling
n_bg == AtMost(IF n_little > 0 THEN n_little ELSE n_big, N_LIGHT_TASKS)

(* The activity the background needs, and what it gets.                    *)
a_needed ==
    LET capacity == n_bg * f_bg * HORIZON
    IN  (N_LIGHT_TASKS * W_LIGHT_PER_TASK * Unit + capacity - 1) \div capacity
a_bg == AtMost(Unit, a_needed)

(* Cores with the background from the given one on, the others idle.       *)
Background(first, i) == IF i \in first .. first + n_bg - 1 THEN <<f_bg, a_bg>> ELSE Idle

(* Mutant: the background is forgotten while the frequency is sought.      *)
Candidate_alone(f) == Copies(n_work, <<f, Unit>>) \o Copies(N_PHYS_CORES - n_work, Idle)

(* The cores of freq_under_power_cap with the compile at f.                *)
Candidate(f) ==
    Copies(n_work, <<f, Unit>>)
      \o [i \in 1 .. N_PHYS_CORES - n_work |-> Background(1, i)]
p_at(f) == Watts(params, Candidate(f), shared_rail, args.temp_c)

Phase1(f) ==
    [i \in 1 .. N_PHYS_CORES |->
        IF i <= n_work THEN <<f, Unit>> ELSE Background(n_work + 1, i)]

(* The work cores go to C6; without little cores the background stays on   *)
(* them.                                                                   *)
Phase2 ==
    [i \in 1 .. N_PHYS_CORES |->
        IF n_little = 0 THEN Background(1, i) ELSE Background(n_work + 1, i)]

Capped == ~args.no_pl1 /\ n_big > 0

(* freq_under_power_cap, before its loop.                                  *)
StartRow ==
    /\ pc = "b" /\ n_big <= N_PHYS_CORES
    /\ IF ~Capped
       THEN lo' = f_ceiling /\ hi' = f_ceiling /\ pc' = "row"
       ELSE IF p_at(F_MIN) >= PL1
       THEN lo' = F_MIN /\ hi' = F_MIN /\ pc' = "row"
       ELSE IF p_at(f_ceiling) <= PL1
       THEN lo' = f_ceiling /\ hi' = f_ceiling /\ pc' = "row"
       ELSE lo' = F_MIN /\ hi' = f_ceiling /\ pc' = "bisect"
    /\ UNCHANGED <<args, csv, params, samples, rows_a, rows_b, summary_c>>

(* Its loop; the 60 iterations it allows are more than the range needs.    *)
Bisect ==
    /\ pc = "bisect"
    /\ IF hi - lo <= TOL THEN pc' = "row" /\ UNCHANGED <<lo, hi>>
       ELSE LET mid == (lo + hi) \div 2 IN
            /\ IF p_at(mid) > PL1 THEN hi' = mid /\ UNCHANGED lo
                                  ELSE lo' = mid /\ UNCHANGED hi
            /\ UNCHANGED pc
    /\ UNCHANGED <<args, csv, params, samples, rows_a, rows_b, summary_c>>

(* The row of experiment_b, with the frequency lo for the compile.         *)
Row ==
    LET p1 == Watts(params, Phase1(lo), shared_rail, args.temp_c)
        p2 == Watts(params, Phase2, shared_rail, args.temp_c)
        t == (W_COMPILE * 1000) \div (n_work * lo)
        t2 == AtLeast(HORIZON * 1000 - t, 0)
    IN  [n_big |-> n_big, shared |-> shared_rail, f_work |-> lo, f_bg |-> f_bg, a_bg |-> a_bg,
         t_compile |-> t, feasible |-> t <= HORIZON * 1000, p1 |-> p1, p2 |-> p2,
         energy |-> Energy(p1, t) + Energy(p2, t2)]

FinishRow ==
    /\ pc = "row"
    /\ rows_b' = Append(rows_b, Row)
    /\ pc' = (IF Len(rows_b') < 2 * (N_PHYS_CORES + 1) THEN "b" ELSE "c")
    /\ UNCHANGED <<args, csv, params, samples, rows_a, lo, hi, summary_c>>

(* The rows of one rail, by their numbers.                                 *)
RowsOf(shared) == {i \in DOMAIN rows_b : rows_b[i].shared = shared}

(* The first row with the least energy among those that meet the deadline, *)
(* or among all when none does.                                            *)
best_of(rows) ==
    LET met == {i \in rows : rows_b[i].feasible}
        of == IF met = {} THEN rows ELSE met
        least == Min({rows_b[i].energy : i \in of})
    IN  rows_b[Min({i \in of : rows_b[i].energy = least})]

-----------------------------------------------------------------------------
(* Experiment C: the same work at every frequency                          *)

Sweep == {f \in F_MIN .. turbo_limit(args.exp_c_cores) : (f - F_MIN) % FREQ_SWEEP_STEP = 0}

RunAt(f) ==
    package_power(params, Copies(args.exp_c_cores, <<f, Unit>>)
                            \o Copies(N_PHYS_CORES - args.exp_c_cores, Idle), TRUE, args.temp_c)

(* In units of 10 uJ: only the order of the energies counts, so the        *)
(* product is not rounded.                                                 *)
EnergyAt(f, power) == power * (((W_COMPILE * 1000) \div (args.exp_c_cores * f)) \div 10)

(* The lowest frequency with the least energy.                             *)
Cheapest(curve) ==
    LET least == Min({curve[f] : f \in DOMAIN curve})
    IN  Min({f \in DOMAIN curve : curve[f] = least})

(* Mutant: the floor is left in the one curve and taken out of the other.  *)
experiment_c_swapped ==
    /\ pc = "c"
    /\ LET w == [f \in Sweep |-> RunAt(f)] IN
       summary_c' =
         [crossover |-> Cheapest([f \in Sweep |-> EnergyAt(f, PowerTotal(w[f]) - w[f].uncore_sa)]),
          no_floor |-> Cheapest([f \in Sweep |-> EnergyAt(f, PowerTotal(w[f]))]),
          core_only |-> Cheapest([f \in Sweep |-> EnergyAt(f, w[f].dyn + w[f].leak)])]
    /\ pc' = "done"
    /\ UNCHANGED <<args, csv, params, samples, rows_a, rows_b, lo, hi>>

experiment_c ==
    /\ pc = "c"
    /\ LET w == [f \in Sweep |-> RunAt(f)] IN
       summary_c' =
         [crossover |-> Cheapest([f \in Sweep |-> EnergyAt(f, PowerTotal(w[f]))]),
          no_floor |-> Cheapest([f \in Sweep |-> EnergyAt(f, PowerTotal(w[f]) - w[f].uncore_sa)]),
          core_only |-> Cheapest([f \in Sweep |-> EnergyAt(f, w[f].dyn + w[f].leak)])]
    /\ pc' = "done"
    /\ UNCHANGED <<args, csv, params, samples, rows_a, rows_b, lo, hi>>

-----------------------------------------------------------------------------
Done == pc \in Over /\ UNCHANGED vars

Next == main \/ calibrate \/ experiment_a \/ StartRow \/ Bisect \/ FinishRow \/ experiment_c \/ Done

Spec == Init /\ [][Next]_vars

-----------------------------------------------------------------------------
(* Properties                                                              *)

(* freq_under_power_cap answers for a list of cores that experiment_b then *)
(* builds a second time: the row it prints keeps PL1, unless the cap       *)
(* cannot be met, and no higher frequency up to the ceiling stays below    *)
(* it, so that the bisection skips nothing.                                *)
CapMet ==
    pc = "row" /\ Capped =>
        LET power(f) == Watts(params, Phase1(f), shared_rail, args.temp_c) IN
        /\ power(lo) <= PL1 \/ lo = F_MIN
        /\ \A f \in lo + TOL .. f_ceiling : power(f) >= PL1

(* A core that leaves C6 for f_little adds no more leakage on a rail of    *)
(* its own than on the shared one.  It does just below turbo: on its own   *)
(* rail it also gives up the low voltage it had in C6.                     *)
SplitLeaksLess ==
    LET leak(f, active) == core_leakage(params, v_of_f(f), active, args.temp_c) IN
    leak(args.f_little, TRUE) - leak(F_MIN, FALSE) <= leak(F_BIG, TRUE) - leak(F_BIG, FALSE)

(* "On a split rail it pays V(its own f)": light threads cost no less on   *)
(* the shared rail than on split ones, no less at turbo than on it, and    *)
(* one more never costs less; the one on the big core's sibling "adds no   *)
(* marginal POWER".  Whatever the fitted parameters; the frequency given   *)
(* with --f-little has to be below turbo, and clearly so for the split     *)
(* rails to be cheaper, neither of which main() checks.                    *)
MarginalOrder ==
    args.f_little <= F_BIG =>
        \A n \in DOMAIN rows_a :
            /\ SplitLeaksLess => rows_a[n].split <= rows_a[n].shared
            /\ rows_a[n].shared <= rows_a[n].no_partition
            /\ n > 1 => rows_a[n - 1].shared <= rows_a[n].shared
            /\ n > 1 /\ n > 2 * N_FREE => rows_a[n] = rows_a[n - 1]

(* What the printed verdict says without looking: with the same placement  *)
(* the shared rail is never faster and never cheaper, and at its own       *)
(* optimum it takes no less energy than split rails at theirs.             *)
SharedCostsMore ==
    pc = "done" =>
        /\ \A i \in DOMAIN rows_b : rows_b[i].shared =>
            /\ rows_b[i].t_compile >= rows_b[i + 1].t_compile
            /\ rows_b[i].energy >= rows_b[i + 1].energy
        /\ best_of(RowsOf(TRUE)).energy >= best_of(RowsOf(FALSE)).energy

(* "With the floor ... below it, the floor paid over a longer runtime      *)
(* dominates": a part of the power that does not depend on the frequency   *)
(* moves the cheapest frequency up, never down.                            *)
FloorRaisesOptimum ==
    pc = "done" => summary_c.no_floor <= summary_c.crossover

(* The model fitted by calibrate is the model of package_power: for every  *)
(* sample with an active core both give the same power, up to what the     *)
(* rounding of the products loses.                                         *)
FitSlack == 20
FitIsModel ==
    \A i \in DOMAIN samples : LET s == samples[i]  d == Design(s) IN
        ActiveCores(s.phys) # {} =>
            LET fitted == (params.C_eff * d.x1) \div 100 + (params.k_leak * d.x2) \div 10000
                            + params.p_sa_floor + d.r
                power == Watts(params, s.phys, TRUE, s.temp_c)
            IN  fitted - power \in -FitSlack .. FitSlack

(* "HORIZON_S: deadline for BOTH the compile and the background work.      *)
(* Configurations that miss it are infeasible": in a feasible row the      *)
(* background cores get through the background work in time.               *)
BackgroundMet ==
    \A i \in DOMAIN rows_b : rows_b[i].feasible =>
        LET r == rows_b[i]
            hosts == AtMost(IF r.n_big < N_PHYS_CORES THEN N_PHYS_CORES - r.n_big
                                                      ELSE N_PHYS_CORES, N_LIGHT_TASKS)
        IN  ((hosts * r.f_bg * r.a_bg) \div Unit) * HORIZON >= N_LIGHT_TASKS * W_LIGHT_PER_TASK
=============================================================================
