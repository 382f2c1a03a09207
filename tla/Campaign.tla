------------------------------ MODULE Campaign ------------------------------
(***************************************************************************)
(* From the workload to the headline: scripts/workload.py makes the tree   *)
(* (module Workload), sessions of scripts/bench.py go through their plan   *)
(* (module Plan) and leave one file per run, and scripts/analyze.py judges *)
(* what it finds there (module Analysis).                                  *)
(*                                                                         *)
(* Files outlive the process that wrote them: a session may be cut short,  *)
(* also in the middle of a file, and a later one with other arguments      *)
(* writes over some of the records.  What children and loader do during a  *)
(* run is in module Bench; here a run has an outcome, usual or not.        *)
(*                                                                         *)
(* A behaviour follows one of the Scripts: the runs of workload.py, the    *)
(* sessions, and how many unusual measurements and interruptions there     *)
(* may be.                                                                 *)
(***************************************************************************)
EXTENDS Workload, Plan, Analysis

CONSTANTS
    Scripts,
    Usual(_, _),   \* the outcome of a run of a session that goes well
    Unusual(_, _), \* other outcomes
    Damaged        \* the contents of a file whose writer was interrupted

Calls == [want : Want, force : BOOLEAN]

(* Where nothing has been written, and a report that the user wrote.       *)
Absent == [kind |-> "absent"]
Own == [kind |-> "own"]

Sessions == UNION {Range(s.sessions) : s \in Scripts}

ASSUME ScriptAssumption ==
    \A s \in Scripts : /\ DOMAIN s = {"wants", "sessions", "upsets", "cuts", "md"}
                       /\ s.wants \in Seq(Calls) /\ s.sessions \in Seq(Sessions)
                       /\ s.upsets \in Nat /\ s.cuts \in Nat
                       /\ s.md \in {Absent, Own}

ASSUME SessionAssumption ==
    \A s \in Sessions :
        /\ s.experiment \in {"e1-rail", "e1b-poison", "e2-coupling", "e3-ab", "all"}
        /\ s.reps \in Nat \ {0}

(* analyze.py knows machines of up to N_CPUS CPUs, not more than bls does; *)
(* what is given with --big, ranges of numbers which bench.py does not     *)
(* check, names CPUs of the machine.                                       *)
ASSUME BlsMaxAssumption == N_CPUS <= BLS_MAX_CPUS
ASSUME TopologyAssumption ==
    \A s \in Sessions :
        /\ DOMAIN s.topo \subseteq Cpu /\ DOMAIN s.topo # {}
        /\ s.topo \in [DOMAIN s.topo -> Nat]
        /\ s.big \in Seq(Nat \X Nat)
        /\ s.big # <<>> => /\ Range(parse_cpulist(s.big)) \subseteq DOMAIN s.topo
                           /\ Range(parse_cpulist(s.big)) # {}

VARIABLES
    script,     \* what is still to be done, and the bounds that are left
    session,    \* the arguments of the session under way
    todo,       \* its runs
    ended,      \* how the last session ended
    written,    \* the files it wrote
    disk,       \* data/raw: file names to records
    csv,        \* data/results.csv
    md          \* docs/results.md

svars == <<session, todo, ended, written>>
vars == <<wvars, script, svars, disk, csv, md>>

(* The arguments of bench.py, and the machine it starts on.                *)
NoSession == [experiment |-> "none", reps |-> 0, topo |-> [c \in {0} |-> 0], big |-> <<>>, on_ac |-> TRUE]

TypeOK ==
    /\ WTypeOK
    /\ ended \in {"nothing", "refused", "running", "returned", "raised", "interrupted"}
    /\ (todo # <<>>) = (ended = "running")
    /\ written \subseteq DOMAIN disk
    /\ csv.kind \in {"absent", "rows"} /\ md.kind \in {"absent", "own", "generated"}
    /\ script.upsets \in Nat /\ script.cuts \in Nat

Init ==
    /\ WInit
    /\ script \in Scripts
    /\ session = NoSession /\ todo = <<>> /\ ended = "nothing" /\ written = {}
    /\ disk = [n \in {} |-> Damaged]
    /\ csv = Absent
    /\ md = script.md

-----------------------------------------------------------------------------
(* workload.py; nobody changes the tree once the first session has begun   *)

CallWorkload ==
    /\ script.wants # <<>>
    /\ Main(Head(script.wants).want, Head(script.wants).force)
    /\ script' = [script EXCEPT !.wants = Tail(@)]
    /\ UNCHANGED <<svars, disk, csv, md>>

GenerateWorkload == Generate /\ UNCHANGED <<script, svars, disk, csv, md>>

KillWorkload ==
    /\ script.cuts > 0
    /\ Killed
    /\ script' = [script EXCEPT !.cuts = @ - 1]
    /\ UNCHANGED <<svars, disk, csv, md>>

-----------------------------------------------------------------------------
(* bench.py                                                                *)

PartitionOf(s) == Partition(s.topo, s.big)

(* preflight() asks for the workload's Makefile.                           *)
StartSession ==
    /\ script.wants = <<>> /\ at = "idle"
    /\ script.sessions # <<>> /\ ended # "running"
    /\ LET s == Head(script.sessions)
           p == PartitionOf(s)
           runs == Runs(s.experiment, s.reps, s.topo, p)
       IN  /\ session' = s
           /\ IF makefile = NoFile THEN ended' = "refused" /\ todo' = <<>>
              ELSE IF Dies(s.experiment, p) THEN ended' = "raised" /\ todo' = <<>>
              ELSE ended' = "running" /\ todo' = runs
    /\ written' = {}
    /\ script' = [script EXCEPT !.sessions = Tail(@)]
    /\ UNCHANGED <<wvars, disk, csv, md>>

NameOf(run) == <<run.experiment, run.arm, run.rep>>

NoEnergy == [exit_code |-> Missing, pkg_j |-> Missing, wall_s |-> Missing,
             pkg_c_max |-> Missing, bzy |-> <<>>, epp |-> <<>>]
NoBls == [present |-> FALSE, enqueue |-> Missing, cross |-> Missing]

(* make needs every file that its Makefile names; a cut file may compile   *)
(* or not.                                                                 *)
Builds ==
    IF makefile = 0 \/ ~(0 .. makefile - 1 \subseteq DOMAIN mods) THEN {FALSE}
    ELSE IF \E i \in DOMAIN mods : mods[i] = Cut THEN BOOLEAN ELSE {TRUE}

(* The record of a run with the outcome m, and what make answered in       *)
(* e3-ab.  energy passes the exit code of its command on, and its own      *)
(* record has it too.                                                      *)
Record(run, m, built) ==
    LET e3 == run.experiment = "e3-ab"
        attached == m.attached \/ run.sched # "scx"
        code == IF e3 /\ ~built THEN 2 ELSE m.exit_code
        measured == attached /\ m.energy
    IN [arm |-> run.arm, rep |-> run.rep,
        sched |-> run.sched, epp_mode |-> run.epp_mode, strict |-> run.strict,
        ok |-> measured /\ code = 0 /\ (e3 => m.pinger),
        on_ac |-> session.on_ac, start_temp |-> m.start_temp,
        energy |-> IF ~measured THEN NoEnergy
                   ELSE [exit_code |-> code, pkg_j |-> m.pkg_j, wall_s |-> m.wall_s,
                         pkg_c_max |-> m.pkg_c_max,
                         bzy |-> [c \in DOMAIN run.epp |-> m.clock[run.epp[c]]],
                         epp |-> [c \in DOMAIN run.epp |-> m.readback[run.epp[c]]]],
        bls |-> IF attached /\ run.sched = "scx" THEN m.bls ELSE NoBls,
        whole |-> e3 => \E w \in Want : Whole(w)]

After(run) == IF Head(todo) = {run} THEN Tail(todo)
                                    ELSE <<Head(todo) \ {run}>> \o Tail(todo)

WithRecord(run, contents) ==
    [n \in DOMAIN disk \cup {NameOf(run)} |-> IF n = NameOf(run) THEN contents ELSE disk[n]]

(* Mutant: the session does not end.                                       *)
Measure_on(run, m, built) ==
    /\ disk' = WithRecord(run, Record(run, m, built))
    /\ written' = written \cup {NameOf(run)}
    /\ todo' = After(run)
    /\ UNCHANGED <<ended, session, wvars, csv, md>>

(* run_one() and record(), for the run with the outcome m.                 *)
Measure(run, m, built) ==
    /\ disk' = WithRecord(run, Record(run, m, built))
    /\ written' = written \cup {NameOf(run)}
    /\ todo' = After(run)
    /\ ended' = (IF todo' = <<>> THEN "returned" ELSE "running")
    /\ UNCHANGED <<session, wvars, csv, md>>

(* One run and its record.                                                 *)
MeasureUsual ==
    /\ ended = "running"
    /\ \E run \in Head(todo), built \in Builds : Measure(run, Usual(run, session), built)
    /\ UNCHANGED script

MeasureUnusual ==
    /\ ended = "running" /\ script.upsets > 0
    /\ \E run \in Head(todo), built \in Builds : \E m \in Unusual(run, session) : Measure(run, m, built)
    /\ script' = [script EXCEPT !.upsets = @ - 1]

(* The session ends before a run, or while its record is being written.    *)
Interrupt ==
    /\ ended = "running" /\ script.cuts > 0
    /\ \/ UNCHANGED <<disk, written>>
       \/ \E run \in Head(todo) : disk' = WithRecord(run, Damaged) /\ UNCHANGED written
    /\ todo' = <<>> /\ ended' = "interrupted"
    /\ script' = [script EXCEPT !.cuts = @ - 1]
    /\ UNCHANGED <<session, wvars, csv, md>>

-----------------------------------------------------------------------------
(* analyze.py, after the last session                                      *)

(* load_runs skips what is not a record.                                   *)
Readable == {n \in DOMAIN disk : disk[n] # Damaged}
RowsOf(e) == {flatten_run(disk[n]) : n \in {n \in Readable : n[1] = e}}

(* analyze(): data are the rows of each experiment.                        *)
Judge(data, excluding) ==
    [kind |-> "generated", of |-> [n \in Readable |-> disk[n]],
     control |-> [e \in DOMAIN data |-> pick_control(data[e])],
     verdict |-> [e \in DOMAIN data |-> experiment_verdict(data[e], excluding[e])],
     headline |-> overall_headline(data, excluding)]

(* Any choice for the intervals that are open.                             *)
Judgements(data) ==
    LET open == UNION {{<<e, a>> : a \in Open(data[e])} : e \in DOMAIN data}
    IN  {Judge(data, [e \in DOMAIN data |->
                         Certain(data[e]) \cup {a \in Arms(data[e]) : <<e, a>> \in choice}]) :
            choice \in SUBSET open}

(* A report without the marker is not overwritten.                         *)
write_markdown(text) == IF md.kind = "own" THEN UNCHANGED md ELSE md' = text

(* main(): the CSV comes first.                                            *)
Analyze ==
    /\ script.wants = <<>> /\ at = "idle"
    /\ script.sessions = <<>> /\ ended # "running"
    /\ csv = Absent
    /\ Readable # {}
    /\ csv' = [kind |-> "rows", rows |-> [e \in {n[1] : n \in Readable} |-> RowsOf(e)]]
    /\ \E report \in Judgements(csv'.rows) : write_markdown(report)
    /\ UNCHANGED <<wvars, script, svars, disk>>

Next ==
    \/ CallWorkload \/ GenerateWorkload \/ KillWorkload
    \/ StartSession \/ MeasureUsual \/ MeasureUnusual \/ Interrupt
    \/ Analyze

Spec == Init /\ [][Next]_vars

-----------------------------------------------------------------------------
(* Properties                                                              *)

Judged == md.kind = "generated"
RunsOf(e) == {md.of[n] : n \in {n \in DOMAIN md.of : n[1] = e}}
ArmRuns(e, a) == {r \in RunsOf(e) : r.arm = a}

(* In the run r CPUs were on both sides of EPP_BIG_MAX, and yet none of    *)
(* the little ones was much slower than a big one.                         *)
OneClock(r) ==
    LET epp == r.energy.epp
        bzy == r.energy.bzy
        known == {c \in Cpu \cap DOMAIN epp : epp[c] # Missing /\ bzy[c] # Missing}
        big == {c \in known : epp[c] < EPP_BIG_MAX}
        little == {c \in known : epp[c] >= EPP_BIG_MAX}
    IN  /\ \A c \in known : epp[c] \in Nat /\ bzy[c] \in Nat
        /\ little # {} /\ \E c \in big : bzy[c] > 0
        /\ \A c \in big, d \in little : 1000 * bzy[d] >= FREQ_RATIO_REAL * bzy[c]

(* "The verdict text refuses to claim a win when a gate failed", said of   *)
(* the records themselves: in an experiment with a win every run succeeded,*)
(* all on the same power supply, as often for each arm, none near          *)
(* throttling; and no arm whose CPUs were to have two clocks had one       *)
(* throughout.                                                             *)
WinIsAdmissible ==
    Judged => \A win \in md.headline.wins :
        LET rs == RunsOf(win[1]) IN
        /\ \A r \in rs : /\ r.ok = TRUE
                         /\ ~(r.energy.pkg_c_max # Missing /\ r.energy.pkg_c_max >= THROTTLE_LIMIT_C)
        /\ \A r, s \in rs :
            /\ r.on_ac = s.on_ac
            /\ Cardinality(ArmRuns(win[1], r.arm)) = Cardinality(ArmRuns(win[1], s.arm))
        /\ \A a \in {r.arm : r \in rs} : \E r \in ArmRuns(win[1], a) : ~OneClock(r)

(* Of the arm a of e3-ab no record can be read, and that of its first      *)
(* repetition was lost while it was being written.                         *)
Hidden(a) ==
    /\ ArmRuns("e3-ab", a) = {}
    /\ <<"e3-ab", a, 0>> \in DOMAIN disk \ DOMAIN md.of

(* "Deterministic so the report does not silently re-baseline": whatever   *)
(* sessions were cut short or written over, a win of e3-ab is a win over   *)
(* eevdf-flat, and no arm is missing or was measured only once.  An arm    *)
(* that is hidden is no exception for the gates: it takes an interruption  *)
(* in the middle of its file, and one before its next.                     *)
WinIsAgainstFlat ==
    Judged => \A win \in md.headline.wins : win[1] = "e3-ab" =>
        LET name(i) == <<E3_ARMS[i][1], 0, NoK>> IN
        /\ md.control["e3-ab"] = name(1) \/ Hidden(name(1))
        /\ \A i \in DOMAIN E3_ARMS :
            Cardinality(ArmRuns("e3-ab", name(i))) >= 2 \/ Hidden(name(i))

(* The order in which generate() writes its files, the preflight's look at *)
(* the Makefile and the exit code of make: a build that is recorded as ok  *)
(* compiled the complete project, wherever the generator was killed.       *)
OkIsWhole ==
    \A n \in Readable : disk[n].ok => disk[n].whole

(* The arm's EPPs lead analyze.py back to the driver's partition.  Without *)
(* --big no core is in both domains, and where siblings are SMT_STRIDE     *)
(* apart the number of cores that are split is the one in the report.      *)
PartitionReadBack ==
    ended = "running" =>
        LET topo == session.topo
            p == PartitionOf(session)
            epp == arr(Partitioned(topo, p))
            cores(cpus) == {topo[c] : c \in Range(cpus)}
            split == cores(p.big) \cap cores(p.little)
        IN  /\ split_domains(epp).big = Range(p.big)
            /\ split_domains(epp).little = Range(p.little)
            /\ session.big = <<>> => split = {}
            /\ (\A c, d \in DOMAIN topo : topo[c] = topo[d] <=> c % SMT_STRIDE = d % SMT_STRIDE)
                  => smt_pairs_split(epp) = Cardinality(split)

(* "A run-length estimate that disagrees with the run is worse than no     *)
(* estimate": a session that returns has left as many files as print_plan  *)
(* announced runs, so no two runs share a file either.                     *)
PlanIsRun ==
    ended = "returned" =>
        Cardinality(written) = TotalRuns(session.experiment, session.reps, PartitionOf(session))

(* bls and spin read in the lists of bench.py what it made them from.  The *)
(* domains of bls, which does not die of them, are then those of the EPPs  *)
(* that bench.py writes itself, and spin has a thread for each CPU of a    *)
(* placement: no CPU gets lost where a range ends.                         *)
ListsArrive ==
    ended = "running" =>
        LET p == PartitionOf(session)
            big == cpulist(p.big)
            little == cpulist(p.little)
            epp == Partitioned(session.topo, p)
        IN  /\ Bearable(big) /\ Bearable(little)
            /\ \A c \in DOMAIN session.topo :
                   bls_domains(big, little)[c] = BLS_DOM_LITTLE <=> epp[c] = EPP_LITTLE
            /\ \A cond \in Range(e2_conditions(p)) :
                   parse_cpus(cpulist(Placed(p, cond))) = Placed(p, cond)

(* The drift gate of a session that returned ranks on average: whatever    *)
(* the order of an arm's values, with ties or without.                     *)
RanksAreRanks ==
    ended = "returned" =>
        \A n \in 0 .. session.reps : \A xs \in [1 .. n -> 1 .. n] :
            rankdata(xs) = [k \in 1 .. n |-> RankOf(xs, k)]

(* The headline and the verdicts decide separately what is admissible: a   *)
(* win is a saving without caution in its experiment's verdict, a blocked  *)
(* saving one with it, and "no usable contrast" is said only where the     *)
(* verdicts have none, or have only regressions.                           *)
VerdictAgrees ==
    Judged =>
        LET h == md.headline
            saving == UNION {{<<e, l[1]>> : l \in {l \in md.verdict[e] : l[2] = "lower"}} :
                                e \in DOMAIN md.verdict}
            cautioned == {w \in saving : <<w[2], "caution">> \in md.verdict[w[1]]}
        IN  /\ h.wins = saving \ cautioned
            /\ h.blocked = cautioned
            /\ "no usable contrast" \in h.lines =>
                \A e \in DOMAIN md.verdict : \A l \in md.verdict[e] :
                    l[2] \notin {"lower", "none"}
=============================================================================
