-------------------------------- MODULE Power --------------------------------
(***************************************************************************)
(* The power model of sim/rail_model.py as integer functions.              *)
(*                                                                         *)
(* The program computes with floating point numbers; here a frequency is a *)
(* number of MHz, a voltage of mV, an activity of thousandths (Unit), a    *)
(* power of mW, and every product is rounded down.  TLC's integers have 32 *)
(* bits, so a product is divided before it gets too large.  The anchors of *)
(* V(f) are the program's; exp() is a table over the anchor voltages.      *)
(***************************************************************************)
EXTENDS Integers, Sequences, SequencesExt, FiniteSets, FiniteSetsExt

CONSTANTS N_PHYS_CORES, SMT_SIBLING_STRIDE, TURBO_BINS

ASSUME CoreAssumption == N_PHYS_CORES \in Nat \ {0} /\ SMT_SIBLING_STRIDE \in Nat \ {0}

Unit == 1000

F_MIN == 400
F_LITTLE == 800
F_RING_MIN == 800
F_RING_MAX == 3900

ASSUME TurboAssumption ==
    /\ TURBO_BINS \in [1 .. N_PHYS_CORES -> Nat]
    /\ \A n \in 1 .. N_PHYS_CORES : TURBO_BINS[n] >= F_MIN

(* <<MHz, mV>> *)
VF_ANCHORS == << <<400, 650>>, <<800, 680>>, <<1200, 725>>, <<1800, 830>>, <<2400, 925>>,
                 <<3000, 1020>>, <<3400, 1075>>, <<3700, 1115>>, <<4000, 1150>> >>

(* <<mV, 100 V exp(V / VT_EFF)>> *)
LEAK_ANCHORS == << <<650, 567>>, <<680, 656>>, <<725, 813>>, <<830, 1320>>, <<925, 2019>>,
                   <<1020, 3056>>, <<1075, 3869>>, <<1115, 4586>>, <<1150, 5315>> >>

C_RING == 55         \* 0.01 W / (V^2 GHz)
K_TRAFFIC == 12      \* 0.01 W / GHz
P_PKG_C6 == 150      \* mW
RESIDUAL == 10       \* C6_LEAK_RESIDUAL, per cent
T_REF == 60
T_DOUBLING == 25
PL1 == 15000

(* The parameters that --calibrate fits.                                   *)
Prior == [C_eff |-> 220, k_leak |-> 1035, p_sa_floor |-> 900]

Total(s) == FoldSeq(+, 0, s)
AtLeast(a, b) == IF a < b THEN b ELSE a
AtMost(a, b) == IF a > b THEN b ELSE a

-----------------------------------------------------------------------------
(* Piecewise linear through the points, constant outside of them.          *)
Interpolate(points, x) ==
    LET n == Len(points) IN
    IF x <= points[1][1] THEN points[1][2]
    ELSE IF x >= points[n][1] THEN points[n][2]
    ELSE LET i == CHOOSE k \in 1 .. n - 1 : points[k][1] <= x /\ x < points[k + 1][1]
             p == points[i]
             q == points[i + 1]
         IN  p[2] + ((x - p[1]) * (q[2] - p[2])) \div (q[1] - p[1])

v_of_f(f) == Interpolate(VF_ANCHORS, f)
leak_shape(v) == Interpolate(LEAK_ANCHORS, v)

(* Per cent; exact at the multiples of the doubling step.                  *)
leak_temp_factor(temp) ==
    IF temp >= T_REF THEN 100 * 2 ^ ((temp - T_REF) \div T_DOUBLING)
                     ELSE 100 \div 2 ^ ((T_REF - temp) \div T_DOUBLING)

(* c is a switching capacitance in 0.01 W / (V^2 GHz).                     *)
Switching(c, v, f) == ((((c * v * v) \div 10000) * f) \div 1000)  \* 0.1 mW

Dynamic(c, v, f, a) == (Switching(c, v, f) * a) \div (10 * Unit)

core_leakage(p, v, active, temp) ==
    LET g == (((p.k_leak * leak_shape(v)) \div 100) * leak_temp_factor(temp)) \div 10000
    IN  IF active THEN g ELSE (g * RESIDUAL) \div 100

-----------------------------------------------------------------------------
(* A core state is <<frequency, activity>>; a core without activity is in  *)
(* C6.                                                                     *)
Active(core) == core[2] > 0
Idle == <<F_MIN, 0>>

ActiveCores(cores) == {i \in DOMAIN cores : Active(cores[i])}

FMaxActive(cores) == Max({cores[i][1] : i \in ActiveCores(cores)})

(* Mutant: the two rails are mixed up.                                     *)
RailVoltage_swapped(cores, shared, i) ==
    IF ~shared THEN v_of_f(FMaxActive(cores))
               ELSE v_of_f(IF Active(cores[i]) THEN cores[i][1] ELSE F_MIN)

(* On the shared rail every core pays for the fastest active one.          *)
RailVoltage(cores, shared, i) ==
    IF shared THEN v_of_f(FMaxActive(cores))
              ELSE v_of_f(IF Active(cores[i]) THEN cores[i][1] ELSE F_MIN)

FRing(f) == AtMost(AtLeast(f, F_RING_MIN), F_RING_MAX)
Ring(f) == Dynamic(C_RING, v_of_f(FRing(f)), FRing(f), Unit)
Traffic(cores) ==
    (K_TRAFFIC * Total([i \in DOMAIN cores |-> cores[i][1] * cores[i][2]])) \div (100 * Unit)

package_power(p, cores, shared, temp) ==
    IF ActiveCores(cores) = {}
    THEN [dyn |-> 0,
          leak |-> Len(cores) * core_leakage(p, v_of_f(F_MIN), FALSE, temp),
          uncore |-> P_PKG_C6, uncore_sa |-> P_PKG_C6, v_rail |-> v_of_f(F_MIN)]
    ELSE LET V(i) == RailVoltage(cores, shared, i) IN
         [dyn |-> Total([i \in DOMAIN cores |->
                            Dynamic(p.C_eff, V(i), cores[i][1], cores[i][2])]),
          leak |-> Total([i \in DOMAIN cores |->
                            core_leakage(p, V(i), Active(cores[i]), temp)]),
          uncore |-> p.p_sa_floor + Ring(FMaxActive(cores)) + Traffic(cores),
          uncore_sa |-> p.p_sa_floor,
          v_rail |-> v_of_f(FMaxActive(cores))]

PowerTotal(w) == w.dyn + w.leak + w.uncore

Watts(p, cores, shared, temp) == PowerTotal(package_power(p, cores, shared, temp))

(* mJ, for a power in mW and a time in ms.                                 *)
Energy(power, t) == (power * (t \div 10)) \div 100

turbo_limit(n) == IF n <= 0 THEN F_MIN ELSE TURBO_BINS[AtMost(n, N_PHYS_CORES)]

Copies(n, x) == [i \in 1 .. n |-> x]
=============================================================================
