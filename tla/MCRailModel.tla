----------------------------- MODULE MCRailModel -----------------------------
(***************************************************************************)
(* Instances of RailModel: the four cores of the part, command lines that  *)
(* leave the defaults in one or two arguments, and short sample files.     *)
(***************************************************************************)
EXTENDS RailModel

FourCores == <<4000, 4000, 3900, 3700>>

Default == [light_activity |-> 150, f_little |-> 800, temp_c |-> 60, no_pl1 |-> FALSE,
            exp_c_cores |-> 4, calibrate |-> FALSE]

Commands ==
    {[Default EXCEPT !.light_activity = a, !.f_little = f] :
        a \in {0, 150, 400, 1000, 1001}, f \in {300, 800, 1800, 3700, 4000, 4200}}
    \cup {[Default EXCEPT !.temp_c = t, !.no_pl1 = n, !.exp_c_cores = c] :
            t \in {35, 60, 85, 110}, n \in BOOLEAN, c \in 0 .. 5}
    \cup {[Default EXCEPT !.calibrate = TRUE, !.temp_c = t, !.no_pl1 = n] :
            t \in {60, 85}, n \in BOOLEAN}

(* A row whose cores 0 and 1 have the given frequency and activity; the    *)
(* second siblings of both and the other cores are in C6.                  *)
Load(pkg, f0, a0, f1, a1, temp) ==
    [pkg_w |-> pkg, pkg_c |-> temp,
     mhz |-> [c \in 0 .. 7 |-> CASE c \in {0, 4} -> f0 [] c \in {1, 5} -> f1 [] OTHER -> 800],
     busy |-> [c \in 0 .. 7 |-> CASE c = 0 -> a0 [] c = 5 -> a1 [] OTHER -> 0]]

Turbo == Load(17000, 4000, 1000, 800, 150, 60)
Slow == Load(5000, 800, 1000, 1800, 700, 85)
Parked == Load(1000, 400, 0, 400, 0, NoCell)
Pair == [Load(15000, 3000, 600, 400, 500, 60) EXCEPT !.busy[4] = 700, !.mhz[4] = 3400]
HalfBlind == [Turbo EXCEPT !.mhz[4] = NoCell, !.busy[0] = NoCell]
Blind == [Turbo EXCEPT !.mhz[0] = NoCell, !.mhz[4] = NoCell]
NoPower == [Slow EXCEPT !.pkg_w = NoCell]

SampleFiles ==
    {<<Turbo, Slow, Parked, Pair>>,
     <<Blind, Turbo, Pair, NoPower, Slow, HalfBlind>>,
     <<Turbo, Blind, Slow, NoPower, Pair>>}

SomeFits ==
    {[C_eff |-> 180, k_leak |-> 1400, p_sa_floor |-> 1300],
     [C_eff |-> 300, k_leak |-> -20, p_sa_floor |-> 600],
     [C_eff |-> -5, k_leak |-> 900, p_sa_floor |-> -100],
     [C_eff |-> 260, k_leak |-> 0, p_sa_floor |-> 0],
     [C_eff |-> 90, k_leak |-> 300, p_sa_floor |-> 700],
     [C_eff |-> 200, k_leak |-> 1000, p_sa_floor |-> 14500]}
=============================================================================
