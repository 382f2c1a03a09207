------------------------------- MODULE Loader -------------------------------
(***************************************************************************)
(* The loader bls.c as a process: main() from save_epp() to its exit, with *)
(* one step per CPU in the EPP loops, the failures of the calls it makes,  *)
(* signals at any moment, and the ejection of the scheduler by the kernel. *)
(* Parsing of options, the SMT check and the printed reports only write to *)
(* stderr and stdout or stop the process before save_epp(); they are not   *)
(* steps here.                                                             *)
(***************************************************************************)
EXTENDS Integers

CONSTANTS
    nr_cpus_online,
    cpu_dom,          \* the requested partition, see BIG and LITTLE
    EPP,              \* values of energy_performance_preference
    epp_big,
    epp_little,
    Faults            \* the calls that may fail, a subset of Fallible

BIG    == 0
LITTLE == 1
CPU == 0 .. nr_cpus_online - 1

Fallible == {"read", "write", "open", "load", "rules", "attach", "stats", "restore"}

ASSUME CpuAssumption ==
    nr_cpus_online \in Nat \ {0} /\ cpu_dom \in [CPU -> {BIG, LITTLE}]
ASSUME EppAssumption == epp_big \in EPP /\ epp_little \in EPP
ASSUME FaultAssumption == Faults \subseteq Fallible

VARIABLES
    opt,         \* the options that matter here, see Option
    initial,     \* the EPPs the loader found
    pc,          \* where main() is
    i,           \* loop counter of the EPP loops
    epp,         \* the EPP of each CPU, in sysfs
    epp_saved,
    epp_valid,
    handlers,    \* on_signal is installed
    exiting,     \* set by on_signal
    attached,    \* bls is the machine's scheduler
    uei,         \* the kernel ejected it
    status       \* exit status

vars == <<opt, initial, pc, i, epp, epp_saved, epp_valid, handlers, exiting,
          attached, uei, status>>

(* interval and duration stand for a positive --interval and --duration.   *)
Option == [flat : BOOLEAN, no_epp : BOOLEAN, dry_run : BOOLEAN, persist : BOOLEAN,
           interval : BOOLEAN, duration : BOOLEAN]

Ended == {"exited", "terminated", "killed"}
Place == {"save", "apply", "report", "open", "load", "rules", "handlers", "attach",
          "loop", "stats", "detach", "restore"} \cup Ended

TypeOK ==
    /\ opt \in Option
    /\ initial \in [CPU -> EPP]
    /\ pc \in Place
    /\ i \in 0 .. nr_cpus_online
    /\ epp \in [CPU -> EPP]
    /\ epp_saved \in [CPU -> EPP]
    /\ epp_valid \in [CPU -> BOOLEAN]
    /\ handlers \in BOOLEAN
    /\ exiting \in BOOLEAN
    /\ attached \in BOOLEAN
    /\ uei \in BOOLEAN
    /\ status \in {0, 1}

(* The EPP a CPU gets: apply_epp() by domain, or epp_big everywhere with   *)
(* --flat.                                                                 *)
Want(c) == IF cpu_dom[c] = LITTLE /\ ~opt.flat THEN epp_little ELSE epp_big

(* epp_saved is not meaningful before epp_valid; it starts as some value.  *)
Init ==
    /\ opt \in Option
    /\ initial \in [CPU -> EPP]
    /\ pc = "save"
    /\ i = 0
    /\ epp = initial
    /\ epp_saved = [c \in CPU |-> epp_big]
    /\ epp_valid = [c \in CPU |-> FALSE]
    /\ handlers = FALSE
    /\ exiting = FALSE
    /\ attached = FALSE
    /\ uei = FALSE
    /\ status = 0

-----------------------------------------------------------------------------
(* Building blocks                                                         *)

(* How a call may end.                                                     *)
Outcome(call) == IF call \in Faults THEN BOOLEAN ELSE {TRUE}

env == <<opt, initial, exiting, uei>>
eppVars == <<epp, epp_saved, epp_valid>>

Goto(place) == pc' = place /\ i' = 0

(* die(): the process exits at once, and the kernel drops its scheduler.   *)
die == Goto("exited") /\ status' = 1 /\ attached' = FALSE

(* Mutant: exits with a negative errno.                                    *)
RestoreAndDie_errno == Goto("restore") /\ status' = -1 /\ UNCHANGED attached

(* restore_epp() and then die().                                           *)
RestoreAndDie == Goto("restore") /\ status' = 1 /\ UNCHANGED attached

Continue(place) == Goto(place) /\ UNCHANGED <<status, attached>>

-----------------------------------------------------------------------------
(* One iteration of save_epp().                                            *)
save_epp ==
    /\ pc = "save" /\ i < nr_cpus_online
    /\ \E ok \in Outcome("read") :
        /\ epp_valid' = [epp_valid EXCEPT ![i] = ok]
        /\ epp_saved' = [epp_saved EXCEPT ![i] = IF ok THEN epp[i] ELSE @]
    /\ i' = i + 1
    /\ UNCHANGED <<env, pc, epp, handlers, attached, status>>

(* Mutant: no EPP is applied with --flat.                                  *)
SaveDone_flat ==
    /\ pc = "save" /\ i = nr_cpus_online
    /\ Continue(IF opt.no_epp \/ opt.flat THEN "report" ELSE "apply")
    /\ UNCHANGED <<env, eppVars, handlers>>

SaveDone ==
    /\ pc = "save" /\ i = nr_cpus_online
    /\ Continue(IF opt.no_epp THEN "report" ELSE "apply")
    /\ UNCHANGED <<env, eppVars, handlers>>

(* One iteration of apply_epp(); a failed write dies on the spot.          *)
apply_epp ==
    /\ pc = "apply" /\ i < nr_cpus_online
    /\ \E ok \in Outcome("write") :
        IF ok THEN /\ epp' = [epp EXCEPT ![i] = Want(i)]
                   /\ i' = i + 1
                   /\ UNCHANGED <<pc, attached, status>>
              ELSE die /\ UNCHANGED epp
    /\ UNCHANGED <<env, epp_saved, epp_valid, handlers>>

ApplyDone ==
    /\ pc = "apply" /\ i = nr_cpus_online
    /\ Continue("report")
    /\ UNCHANGED <<env, eppVars, handlers>>

(* The partition report, and the end of a dry run.                         *)
Report ==
    /\ pc = "report"
    /\ Continue(CASE ~opt.dry_run -> "open"
                  [] opt.dry_run /\ opt.persist -> "exited"
                  [] OTHER -> "restore")
    /\ UNCHANGED <<env, eppVars, handlers>>

OpenSkeleton ==
    /\ pc = "open"
    /\ \E ok \in Outcome("open") : IF ok THEN Continue("load") ELSE RestoreAndDie
    /\ UNCHANGED <<env, eppVars, handlers>>

(* Mutant: a failed load dies without restore_epp().                       *)
LoadSkeleton_dies ==
    /\ pc = "load"
    /\ \E ok \in Outcome("load") : IF ok THEN Continue("rules") ELSE die
    /\ UNCHANGED <<env, eppVars, handlers>>

LoadSkeleton ==
    /\ pc = "load"
    /\ \E ok \in Outcome("load") : IF ok THEN Continue("rules") ELSE RestoreAndDie
    /\ UNCHANGED <<env, eppVars, handlers>>

(* cpu_dom and both lists of comm rules; too many rules die.               *)
add_comm_rules ==
    /\ pc = "rules"
    /\ \E ok \in Outcome("rules") : IF ok THEN Continue("handlers") ELSE die
    /\ UNCHANGED <<env, eppVars, handlers>>

(* Mutant: the handlers are not installed.                                 *)
InstallHandlers_none ==
    /\ pc = "handlers"
    /\ Continue("attach")
    /\ UNCHANGED <<env, eppVars, handlers>>

InstallHandlers ==
    /\ pc = "handlers"
    /\ handlers' = TRUE
    /\ Continue("attach")
    /\ UNCHANGED <<env, eppVars>>

Attach ==
    /\ pc = "attach"
    /\ \E ok \in Outcome("attach") :
        IF ok THEN Goto("loop") /\ attached' = TRUE /\ UNCHANGED status
              ELSE RestoreAndDie
    /\ UNCHANGED <<env, eppVars, handlers>>

(* One round of the loop with --interval: it prints the counters and       *)
(* sleeps, or dies out of memory.                                          *)
LoopRound ==
    /\ pc = "loop" /\ opt.interval /\ ~exiting /\ ~uei
    /\ \E ok \in Outcome("stats") : IF ok THEN Continue("loop") ELSE die
    /\ UNCHANGED <<env, eppVars, handlers>>

(* Mutant: the loop does not look at uei.                                  *)
LoopBreak_signal ==
    /\ pc = "loop" /\ (exiting \/ opt.duration)
    /\ Continue("stats")
    /\ UNCHANGED <<env, eppVars, handlers>>

(* The loop ends on a signal, on the kernel's ejection, or when the        *)
(* duration is over.                                                       *)
LoopBreak ==
    /\ pc = "loop" /\ (exiting \/ uei \/ opt.duration)
    /\ Continue("stats")
    /\ UNCHANGED <<env, eppVars, handlers>>

ReadStats ==
    /\ pc = "stats"
    /\ \E ok \in Outcome("stats") : IF ok THEN Continue("detach") ELSE die
    /\ UNCHANGED <<env, eppVars, handlers>>

Detach ==
    /\ pc = "detach"
    /\ attached' = FALSE
    /\ Goto(IF opt.persist THEN "exited" ELSE "restore")
    /\ UNCHANGED <<env, eppVars, handlers, status>>

(* One iteration of restore_epp(); the result of the write is ignored.     *)
restore_epp ==
    /\ pc = "restore" /\ i < nr_cpus_online
    /\ \E ok \in Outcome("restore") :
        epp' = IF ok /\ epp_valid[i] THEN [epp EXCEPT ![i] = epp_saved[i]] ELSE epp
    /\ i' = i + 1
    /\ UNCHANGED <<env, pc, epp_saved, epp_valid, handlers, attached, status>>

RestoreDone ==
    /\ pc = "restore" /\ i = nr_cpus_online
    /\ Continue("exited")
    /\ UNCHANGED <<env, eppVars, handlers>>

-----------------------------------------------------------------------------
(* The environment                                                         *)

(* SIGINT or SIGTERM: on_signal once it is installed, death before that.   *)
on_signal ==
    /\ pc \notin Ended /\ handlers /\ ~exiting
    /\ exiting' = TRUE
    /\ UNCHANGED <<opt, initial, pc, i, eppVars, handlers, attached, uei, status>>

DefaultSignal ==
    /\ pc \notin Ended /\ ~handlers
    /\ Goto("terminated")
    /\ attached' = FALSE
    /\ UNCHANGED <<env, eppVars, handlers, status>>

Sigkill ==
    /\ pc \notin Ended
    /\ Goto("killed")
    /\ attached' = FALSE
    /\ UNCHANGED <<env, eppVars, handlers, status>>

(* The kernel ejects the scheduler; bls_exit fills uei.                    *)
Eject ==
    /\ attached
    /\ attached' = FALSE
    /\ uei' = TRUE
    /\ UNCHANGED <<opt, initial, pc, i, eppVars, handlers, exiting, status>>

Over == pc \in Ended /\ UNCHANGED vars

-----------------------------------------------------------------------------
MainStep ==
    \/ save_epp \/ SaveDone
    \/ apply_epp \/ ApplyDone
    \/ Report \/ OpenSkeleton \/ LoadSkeleton \/ add_comm_rules
    \/ InstallHandlers \/ Attach
    \/ LoopBreak \/ ReadStats \/ Detach
    \/ restore_epp \/ RestoreDone

Next ==
    \/ MainStep \/ LoopRound
    \/ on_signal \/ DefaultSignal \/ Sigkill \/ Eject
    \/ Over

Spec == Init /\ [][Next]_vars

(* The process runs: it completes its calls, and it leaves the loop once   *)
(* it has a reason to.  Without one it loops for ever.                     *)
Fairness == WF_vars(MainStep)

FairSpec == Spec /\ Fairness

-----------------------------------------------------------------------------
(* Properties                                                              *)

(* "On exit, restore every EPP": a loader that ran to its end without      *)
(* --persist leaves every CPU with the EPP it found, whichever call failed *)
(* and whenever a signal or an ejection came.                              *)
Restored == pc = "exited" /\ ~opt.persist => epp = initial

(* While bls schedules the machine, every CPU has the EPP of its domain:   *)
(* EPPs are applied before Attach and restored after Detach.               *)
PartitionHeld == attached /\ ~opt.no_epp => \A c \in CPU : epp[c] = Want(c)

(* Once the scheduler is attached, SIGINT and SIGTERM never kill the       *)
(* loader without the exit path: the handlers are installed first.         *)
SignalsCaught == [][attached => pc' # "terminated"]_vars

(* A signal, or the ejection of the scheduler, ends the loader.            *)
ExitFollows == exiting \/ uei ~> pc \in Ended

-----------------------------------------------------------------------------
(* Why Restored and PartitionHeld hold                                     *)

(* The calls whose failure main() answers with restore_epp().              *)
Recoverable == {"open", "load", "attach"}

(* Where the EPPs are in force.                                            *)
InForce == {"report", "open", "load", "rules", "handlers", "attach", "loop", "stats", "detach"}

(* How far the loops over the CPUs have come, and what is known after      *)
(* them; the inductive invariant behind Restored and PartitionHeld.        *)
SavedFirst ==
    /\ pc = "save" => epp = initial /\ \A c \in CPU : c < i => epp_valid[c]
    /\ pc \notin {"save"} \cup Ended => \A c \in CPU : epp_valid[c]
    /\ \A c \in CPU : epp_valid[c] => epp_saved[c] = initial[c]
EppProgress ==
    /\ pc = "apply" => ~opt.no_epp /\ \A c \in CPU : c < i => epp[c] = Want(c)
    /\ pc \in InForce => IF opt.no_epp THEN epp = initial ELSE \A c \in CPU : epp[c] = Want(c)
    /\ pc = "restore" => \A c \in CPU : c < i => epp[c] = initial[c]
    /\ pc = "exited" => opt.persist \/ epp = initial
    /\ attached => pc \in {"loop", "stats", "detach"}
LoaderInv == SavedFirst /\ EppProgress
=============================================================================
