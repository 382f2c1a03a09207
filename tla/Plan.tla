-------------------------------- MODULE Plan --------------------------------
(***************************************************************************)
(* What a session of scripts/bench.py is going to run: the partition, the  *)
(* CPU lists, the arms of each experiment with the EPPs they set, the runs *)
(* in their order, and the number of runs that print_plan() announces.     *)
(*                                                                         *)
(* A topology is a function from CPUs to core ids.  A CPU list is the      *)
(* sequence of its ranges; the text "4" and the text "4-4" are both        *)
(* <<4, 4>>.  The name of an arm is <<name, big, little>>: big1+little2 of *)
(* the flat EPPs is <<"flat", 1, 2>>, flat.big1 is <<"flat", 1, NoK>>.     *)
(***************************************************************************)
EXTENDS Order, Integers, Sequences, SequencesExt, FiniteSets, FiniteSetsExt, Functions

CONSTANT NoFactor   \* of a record: the experiment does not vary it

EPP_BIG == 0
EPP_FLAT == 128
EPP_BALANCE_POWER == 192
EPP_LITTLE == 255

NoK == -1

BLS_MAX_CPUS == 64
BLS_DOM_BIG == 0
BLS_DOM_LITTLE == 1

(* of spin *)
MAX_THREADS == 64

-----------------------------------------------------------------------------
(* The partition                                                           *)

(* Mutant: every CPU for itself.                                           *)
default_partition_cpus(topo) ==
    LET cpus == Sorted(DOMAIN topo)
        half == Max({1, Len(cpus) \div 2})
    IN  [big |-> SubSeq(cpus, 1, half), little |-> SubSeq(cpus, half + 1, Len(cpus))]

(* The lower half of the cores is big, with all of their CPUs.             *)
default_partition(topo) ==
    LET cores == Sorted(Range(topo))
        big_cores == {cores[i] : i \in 1 .. Max({1, Len(cores) \div 2})}
    IN  [big |-> Sorted({c \in DOMAIN topo : topo[c] \in big_cores}),
         little |-> Sorted({c \in DOMAIN topo : topo[c] \notin big_cores})]

(* A CPU extends the last range or starts one.                             *)
WithCpu(parts, cpu) ==
    IF parts # <<>> /\ cpu = Last(parts)[2] + 1
    THEN [parts EXCEPT ![Len(parts)] = <<@[1], cpu>>]
    ELSE Append(parts, <<cpu, cpu>>)

(* Mutant: the last range is forgotten.                                    *)
cpulist_short(cpus) ==
    LET parts[n \in 0 .. Len(cpus)] == IF n = 0 THEN <<>> ELSE WithCpu(parts[n - 1], cpus[n])
        all == parts[Len(cpus)]
    IN  IF Len(all) > 1 THEN Front(all) ELSE all

cpulist(cpus) ==
    LET parts[n \in 0 .. Len(cpus)] == IF n = 0 THEN <<>> ELSE WithCpu(parts[n - 1], cpus[n])
    IN  parts[Len(cpus)]

CpusOf(part) == [k \in 1 .. part[2] - part[1] + 1 |-> part[1] + k - 1]

(* The CPUs of a list as they stand there.                                 *)
Listed(parts) == FlattenSeq([i \in DOMAIN parts |-> CpusOf(parts[i])])

(* bench.py reads --big, which is not empty when it does; it is an error   *)
(* if it were.  Sorted, but a CPU that is named twice stays there twice.   *)
parse_cpulist(parts) == SortedList(Listed(parts))

(* spin reads --cpus, as far as it has threads.                            *)
parse_cpus(parts) ==
    LET cpus == Listed(parts) IN SubSeq(cpus, 1, Min({Len(cpus), MAX_THREADS}))

(* bls dies of a range that is none of its CPUs.                           *)
Bearable(parts) ==
    \A i \in DOMAIN parts : /\ parts[i][1] >= 0 /\ parts[i][2] < BLS_MAX_CPUS
                            /\ parts[i][2] >= parts[i][1]

(* One list of bls, over the domains the CPUs have so far.                 *)
WithList(domains, parts, domain) ==
    [c \in DOMAIN domains |-> IF c \in Range(Listed(parts)) THEN domain ELSE domains[c]]

(* bls with --big and --little, not --flat.                                *)
bls_domains(big_list, little_list) ==
    LET default == [c \in 0 .. BLS_MAX_CPUS - 1 |-> BLS_DOM_BIG]
    IN  WithList(WithList(default, big_list, BLS_DOM_BIG), little_list, BLS_DOM_LITTLE)

(* Bench.__init__, with --big or without (<<>>).                           *)
Partition(topo, big) ==
    IF big = <<>> THEN default_partition(topo)
    ELSE LET chosen == parse_cpulist(big) IN
         [big |-> chosen, little |-> Sorted(DOMAIN topo \ Range(chosen))]

-----------------------------------------------------------------------------
(* Arms.  epp is what apply_epp writes; sched, epp_mode and strict are the *)
(* record's factors.                                                       *)

Everywhere(topo, value) == [c \in DOMAIN topo |-> value]
Partitioned(topo, p) ==
    [c \in DOMAIN topo |-> IF c \in Range(p.little) THEN EPP_LITTLE ELSE EPP_BIG]

Arm(experiment, name, epp, sched, epp_mode, strict) ==
    [experiment |-> experiment, arm |-> name, epp |-> epp,
     sched |-> sched, epp_mode |-> epp_mode, strict |-> strict]

e1_arms(topo, p) ==
    LET arm(name, epp) == Arm("e1-rail", <<name, 0, NoK>>, epp, NoFactor, name, NoFactor)
    IN  << arm("both-performance", Everywhere(topo, EPP_BIG)),
           arm("both-power", Everywhere(topo, EPP_LITTLE)),
           arm("both-balance", Everywhere(topo, EPP_FLAT)),
           arm("partitioned", Partitioned(topo, p)) >>

(* One CPU at EPP power, the others vary.                                  *)
e1b_arms(topo, p) ==
    LET arm(name, others) ==
            Arm("e1b-poison", <<name, 0, NoK>>,
                [Everywhere(topo, others) EXCEPT ![Head(p.little)] = EPP_LITTLE],
                NoFactor, NoFactor, NoFactor)
    IN  << arm("others-power", EPP_LITTLE), arm("others-balance", EPP_FLAT),
           arm("others-performance", EPP_BIG),
           arm("others-balance-power", EPP_BALANCE_POWER) >>

(* Mutant: the numbers of little CPUs are not made distinct.               *)
e2_conditions_twice(p) ==
    LET ks == SelectSeq(<<1, 2, Len(p.little)>>, LAMBDA k : k <= Len(p.little))
    IN  << <<0, NoK>> >> \o FlattenSeq([i \in DOMAIN ks |-> << <<0, ks[i]>>, <<1, ks[i]>> >>])
                         \o << <<1, NoK>> >>

(* <<big CPUs, little CPUs>>: idle, some little CPUs without and with a    *)
(* big one, and a big one alone.                                           *)
e2_conditions(p) ==
    LET ks == Sorted({k \in {1, 2, Len(p.little)} : k <= Len(p.little)})
    IN  << <<0, NoK>> >> \o FlattenSeq([i \in DOMAIN ks |-> << <<0, ks[i]>>, <<1, ks[i]>> >>])
                         \o << <<1, NoK>> >>

(* The CPUs of a condition, as the list given to spin.                     *)
Placed(p, cond) ==
    SortedList(SubSeq(p.big, 1, cond[1]) \o SubSeq(p.little, 1, Max({0, cond[2]})))

e2_arms(topo, p) ==
    LET conds == e2_conditions(p)
        arms(name, epp) == [i \in DOMAIN conds |->
            Arm("e2-coupling", <<name, conds[i][1], conds[i][2]>>, epp, NoFactor, name, NoFactor)]
    IN  arms("partitioned", Partitioned(topo, p)) \o arms("flat", Everywhere(topo, EPP_FLAT))

E3_ARMS ==
    << <<"eevdf-flat", "eevdf", "flat", FALSE>>,
       <<"eevdf-partitioned", "eevdf", "partitioned", FALSE>>,
       <<"scx-flat", "scx", "flat", FALSE>>,
       <<"scx-partitioned", "scx", "partitioned", FALSE>>,
       <<"scx-partitioned-strict", "scx", "partitioned", TRUE>> >>

e3_arms(topo, p) ==
    [i \in DOMAIN E3_ARMS |->
        LET a == E3_ARMS[i] IN
        Arm("e3-ab", <<a[1], 0, NoK>>,
            IF a[3] = "partitioned" THEN Partitioned(topo, p) ELSE Everywhere(topo, EPP_FLAT),
            a[2], a[3], a[4])]

-----------------------------------------------------------------------------
(* The runs of a session                                                   *)

Wants(experiment, e) == experiment \in {e, "all"}

(* e1_rail and e1b_poison take the first little CPU: an exception if there *)
(* is none.                                                                *)
Dies(experiment, p) ==
    p.little = <<>> /\ (Wants(experiment, "e1-rail") \/ Wants(experiment, "e1b-poison"))

Repeated(arm, r) == [f \in DOMAIN arm \cup {"rep"} |-> IF f = "rep" THEN r ELSE arm[f]]

(* Every repetition of the arms, one after the other.                      *)
InOrder(arms, reps) ==
    FlattenSeq([r \in 1 .. reps |-> [i \in DOMAIN arms |-> {Repeated(arms[i], r - 1)}]])

(* Every repetition in a random order.                                     *)
Shuffled(arms, reps) ==
    [r \in 1 .. reps |-> {Repeated(arms[i], r - 1) : i \in DOMAIN arms}]

(* go(): sets of runs; the next run is any of the first set.               *)
Runs(experiment, reps, topo, p) ==
    LET part(e, groups) == IF Wants(experiment, e) THEN groups ELSE <<>> IN
    part("e1-rail", InOrder(e1_arms(topo, p), reps))
      \o part("e1b-poison", InOrder(e1b_arms(topo, p), reps))
      \o part("e2-coupling", InOrder(e2_arms(topo, p), reps))
      \o part("e3-ab", Shuffled(e3_arms(topo, p), reps))

(* plan(): how many arms each experiment has.                              *)
plan(experiment, p) ==
    [e \in {e \in {"e1-rail", "e1b-poison", "e2-coupling", "e3-ab"} : Wants(experiment, e)} |->
        CASE e = "e2-coupling" -> 2 * Len(e2_conditions(p))
          [] e = "e3-ab" -> Len(E3_ARMS)
          [] OTHER -> 4]

(* The total of print_plan().                                              *)
TotalRuns(experiment, reps, p) ==
    LET arms == plan(experiment, p) IN SumFunction([e \in DOMAIN arms |-> arms[e] * reps])
=============================================================================
