------------------------------ MODULE Analysis ------------------------------
(***************************************************************************)
(* scripts/analyze.py as operators: from the run records to the gates, the *)
(* verdict of each experiment and the headline.                            *)
(*                                                                         *)
(* "rows" is the set of rows of one experiment.  Fractions are in          *)
(* thousandths, rounded down.  Of the ten metrics three are kept: the one  *)
(* of the headline, another one and one that is derived from both.  A gate *)
(* is the pair of its name and the arm it is about; lines of text are      *)
(* records that say what they say.                                         *)
(***************************************************************************)
EXTENDS Stats, FiniteSets, FiniteSetsExt

CONSTANTS
    N_CPUS, SMT_STRIDE,
    Before(_, _)      \* the alphabetical order of the names of arms

ASSUME CpusAssumption == N_CPUS \in Nat \ {0}
ASSUME StrideAssumption == N_CPUS = 2 * SMT_STRIDE /\ SMT_STRIDE \in Nat

EPP_BIG_MAX == 128
MAX_START_TEMP_SPREAD_C == 5
THROTTLE_LIMIT_C == 97
MAX_CROSS_DOMAIN_FRAC == 200
DRIFT_RHO == 600
FREQ_RATIO_REAL == 900

HEADLINE_METRIC == "energy_to_solution"
METRICS == {HEADLINE_METRIC, "wall_s", "edp"}

AllArms == <<"", 0, 0>>     \* for gates about the whole experiment

Cpu == 0 .. N_CPUS - 1

-----------------------------------------------------------------------------
(* From a record to a row                                                  *)

(* Padded and cut to N_CPUS.                                               *)
arr(a) == [c \in Cpu |-> IF c \in DOMAIN a THEN a[c] ELSE Missing]

(* With one EPP, or none, every CPU is big.                                *)
split_domains(epp) ==
    LET known == {c \in Cpu : epp[c] # Missing}
        partitioned == Cardinality({epp[c] : c \in known}) > 1
    IN  [big |-> IF known = {} THEN Cpu
                 ELSE {c \in known : ~partitioned \/ epp[c] < EPP_BIG_MAX},
         little |-> {c \in known : partitioned /\ epp[c] >= EPP_BIG_MAX},
         partitioned |-> partitioned]

smt_pairs_split(epp) ==
    Cardinality({c \in 0 .. SMT_STRIDE - 1 :
        LET d == c + SMT_STRIDE IN
        /\ epp[c] # Missing /\ epp[d] # Missing
        /\ (epp[c] < EPP_BIG_MAX) # (epp[d] < EPP_BIG_MAX)})

(* Only the CPUs whose busy frequency is known count.                      *)
Known(bzy, cpus) == {c \in cpus : bzy[c] # Missing}
SumOver(bzy, cpus) == MapThenSumSet(LAMBDA c : bzy[c], cpus)

(* little over big, of the mean busy frequencies.                          *)
Ratio(bzy, big, little) ==
    LET b == Known(bzy, big)
        l == Known(bzy, little)
    IN  IF b = {} \/ l = {} \/ SumOver(bzy, b) = 0 THEN Missing
        ELSE (1000 * SumOver(bzy, l) * Cardinality(b)) \div (SumOver(bzy, b) * Cardinality(l))

flatten_run(run) ==
    LET epp == arr(run.energy.epp)
        d == split_domains(epp)
    IN [arm |-> run.arm, sched |-> run.sched, epp_mode |-> run.epp_mode,
        strict |-> run.strict, rep |-> run.rep, ok |-> run.ok,
        on_ac |-> run.on_ac, start_temp |-> run.start_temp,
        exit_code |-> run.energy.exit_code, pkg_c_max |-> run.energy.pkg_c_max,
        partitioned |-> d.partitioned,
        smt_pairs_split |-> smt_pairs_split(epp),
        ratio |-> Ratio(arr(run.energy.bzy), d.big, d.little),
        bls_present |-> run.bls.present,
        cross_frac |-> IF run.bls.enqueue \in {Missing, 0} \/ run.bls.cross = Missing
                       THEN Missing ELSE (1000 * run.bls.cross) \div run.bls.enqueue,
        wall_s |-> run.energy.wall_s,
        energy_to_solution |-> run.energy.pkg_j,
        edp |-> IF run.energy.pkg_j = Missing \/ run.energy.wall_s = Missing
                THEN Missing ELSE run.energy.pkg_j * run.energy.wall_s]

-----------------------------------------------------------------------------
(* Groups                                                                  *)

Arms(rows) == {r.arm : r \in rows}

(* The runs of an arm, by repetition.                                      *)
Of(rows, a) ==
    LET own == {r \in rows : r.arm = a}
        reps == Sorted({r.rep : r \in own})
    IN  [i \in DOMAIN reps |-> CHOOSE r \in own : r.rep = reps[i]]

values(rs, column) == clean([i \in DOMAIN rs |-> rs[i][column]])
Energies(rows, a) == values(Of(rows, a), HEADLINE_METRIC)

FirstOf(arms) == CHOOSE a \in arms : \A b \in arms \ {a} : Before(a, b)

IsFlatEevdf(r) == r.sched = "eevdf" /\ r.epp_mode = "flat"

(* By its first run; no arm of bench.py is named "control".                *)
pick_control(rows) ==
    LET flat == {a \in Arms(rows) : IsFlatEevdf(Of(rows, a)[1])}
    IN  FirstOf(IF flat # {} THEN flat ELSE Arms(rows))

-----------------------------------------------------------------------------
(* The gates that fail                                                     *)

(* Mutant: only the exit code counts.                                      *)
Incomplete_exit(rows) == \E r \in rows : r.exit_code \notin {0, Missing}

Incomplete(rows) == \E r \in rows : r.ok # TRUE \/ r.exit_code # 0

(* The means of the arms that have a temperature.                          *)
TempSpread(rows) ==
    LET temps(a) == values(Of(rows, a), "start_temp")
        have == {a \in Arms(rows) : temps(a) # <<>>}
    IN  \E a, b \in have : ~CloserThan(MAX_START_TEMP_SPREAD_C, temps(a), temps(b))

MixedPower(rows) == Cardinality({r.on_ac : r \in rows}) # 1

Throttled(rows) ==
    \E r \in rows : r.pkg_c_max # Missing /\ r.pkg_c_max >= THROTTLE_LIMIT_C

Unbalanced(rows) == Cardinality({Len(Of(rows, a)) : a \in Arms(rows)}) > 1

Drift(rows) ==
    \E a \in Arms(rows), m \in METRICS :
        LET rs == Of(rows, a) IN
        SpearmanAbove(DRIFT_RHO, [i \in DOMAIN rs |-> rs[i].rep],
                                 [i \in DOMAIN rs |-> rs[i][m]])

quality_gates(rows) ==
    LET fails == [completion |-> Incomplete(rows), temperature |-> TempSpread(rows),
                  on_ac |-> MixedPower(rows), thermal |-> Throttled(rows),
                  balanced |-> Unbalanced(rows), drift |-> Drift(rows)]
    IN  {<<g, AllArms>> : g \in {g \in DOMAIN fails : fails[g]}}

(* The mean cross-domain share of a strict arm, over the runs with bls     *)
(* counters; the first of them says whether the arm is strict.             *)
placement_sanity(rows) ==
    {<<"placement", a>> : a \in
        {a \in Arms(rows) :
            LET with_bls == SelectSeq(Of(rows, a), LAMBDA r : r.bls_present)
                fracs == values(with_bls, "cross_frac")
            IN  /\ with_bls # <<>> /\ with_bls[1].strict = TRUE
                /\ fracs # <<>>
                /\ mean(fracs)[1] > MAX_CROSS_DOMAIN_FRAC * mean(fracs)[2]}}

Ratios(rows, a) == values(Of(rows, a), "ratio")
Split(rows, a) == (\E r \in rows : r.arm = a /\ r.partitioned) /\ Ratios(rows, a) # <<>>
Unreal(rows, a) ==
    mean(Ratios(rows, a))[1] >= FREQ_RATIO_REAL * mean(Ratios(rows, a))[2]

(* Arms that asked for two frequencies and got one.                        *)
frequency_divergence(rows) ==
    {<<"split", a>> : a \in {a \in Arms(rows) : Split(rows, a) /\ Unreal(rows, a)}}

gates(rows) == quality_gates(rows) \cup frequency_divergence(rows)

-----------------------------------------------------------------------------
(* Contrasts, verdict and headline.  excluding is the set of arms whose    *)
(* confidence interval leaves zero out.                                    *)

Compared(rows) == Arms(rows) \ {pick_control(rows)}

(* Mutant: one run is enough.                                              *)
Computed_one(rows, a) ==
    /\ Len(Energies(rows, pick_control(rows))) >= 1
    /\ Len(Energies(rows, a)) >= 1

Computed(rows, a) ==
    /\ Len(Energies(rows, pick_control(rows))) >= 2
    /\ Len(Energies(rows, a)) >= 2

(* The contrast is in the metric of the headline, which is there only if   *)
(* some run has it.                                                        *)
Energetic(rows) == \E r \in rows : r[HEADLINE_METRIC] # Missing

contrast(rows, a, excluding) ==
    IF ~Computed(rows, a) THEN "insufficient"
    ELSE IF a \notin excluding THEN "none"
    ELSE IF Diff(Energies(rows, pick_control(rows)), Energies(rows, a)) < 0
         THEN "lower" ELSE "higher"

contrasts(rows, excluding) ==
    IF ~Energetic(rows) THEN {}
    ELSE {<<a, contrast(rows, a, excluding)>> : a \in Compared(rows)}

(* The arms whose interval may leave zero out or not, and those where it   *)
(* does.                                                                   *)
Verdicts(rows, a) ==
    MayExcludeZero(Energies(rows, pick_control(rows)), Energies(rows, a))
Open(rows) == {a \in Compared(rows) : Computed(rows, a) /\ Verdicts(rows, a) = BOOLEAN}
Certain(rows) == {a \in Compared(rows) : Computed(rows, a) /\ Verdicts(rows, a) = {TRUE}}

(* Lines about an arm, and about the experiment.                           *)
experiment_verdict(rows, excluding) ==
    LET failed == gates(rows) \cup placement_sanity(rows) # {}
        cs == contrasts(rows, excluding)
        detectable == {c \in cs : c[2] \in {"lower", "higher"}}
    IN  cs \cup (IF failed THEN {<<c[1], "caution">> : c \in detectable}
                              \cup {<<AllArms, "failing gates">>} ELSE {})
           \cup (IF cs = {} THEN {<<AllArms, "no data">>} ELSE {})

Tags(data, excluding, es, what) ==
    UNION {{<<e, a>> : a \in {a \in Arms(data[e]) : <<a, what>> \in
                                 contrasts(data[e], excluding[e])}} : e \in es}

(* Mutant: the gates of the placement are left out.                        *)
overall_headline_placement(data, excluding) ==
    LET bad == {e \in DOMAIN data : gates(data[e]) # {}}
        wins == Tags(data, excluding, DOMAIN data \ bad, "lower")
        blocked == Tags(data, excluding, bad, "lower")
        nulls == Tags(data, excluding, DOMAIN data, "none")
        lines == (IF wins # {} THEN {"saving found"} ELSE {})
                   \cup (IF blocked # {} THEN {"not admissible"} ELSE {})
                   \cup (IF nulls # {} /\ wins = {} THEN {"no saving"} ELSE {})
    IN  [wins |-> wins, blocked |-> blocked, nulls |-> nulls,
         lines |-> IF lines = {} THEN {"no usable contrast"} ELSE lines]

(* data: the rows of each experiment, of which there is at least one.      *)
overall_headline(data, excluding) ==
    LET bad == {e \in DOMAIN data : gates(data[e]) \cup placement_sanity(data[e]) # {}}
        wins == Tags(data, excluding, DOMAIN data \ bad, "lower")
        blocked == Tags(data, excluding, bad, "lower")
        nulls == Tags(data, excluding, DOMAIN data, "none")
        lines == (IF wins # {} THEN {"saving found"} ELSE {})
                   \cup (IF blocked # {} THEN {"not admissible"} ELSE {})
                   \cup (IF nulls # {} /\ wins = {} THEN {"no saving"} ELSE {})
    IN  [wins |-> wins, blocked |-> blocked, nulls |-> nulls,
         lines |-> IF lines = {} THEN {"no usable contrast"} ELSE lines]
=============================================================================
