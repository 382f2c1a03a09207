-------------------------------- MODULE Bench --------------------------------
(***************************************************************************)
(* The benchmark driver scripts/bench.py as a process that shares the      *)
(* machine with its children: the loader (module Loader), the pinger and   *)
(* the measured command.  The driver and the loader interleave; both write *)
(* the EPPs; either may be interrupted, and the kernel may eject the       *)
(* scheduler while a build is being measured.  A bls that was killed may   *)
(* outlive the driver's wait for it, and its scheduler with it.            *)
(*                                                                         *)
(* Temperatures, the files that hold the records and the printed plan are  *)
(* left out.  The experiments differ in what they measure, not in what     *)
(* they do to the machine: e1-rail, e1b-poison and e2-coupling are arms of *)
(* kind "fixed", the arms of e3-ab are of kind "ab".  Their order is left  *)
(* open, as the shuffle does for e3-ab.                                    *)
(***************************************************************************)
EXTENDS Integers

CONSTANTS
    nr_cpus_online, cpu_dom, EPP, epp_big, epp_little, Faults,   \* as in Loader
    Arms,        \* see Arm
    NoArm,
    reps         \* --reps

VARIABLES
    opt, initial, pc, i, epp, epp_saved, epp_valid, handlers, exiting,
    attached, uei, status,   \* bls_proc: the variables of Loader
    saved,       \* Bench.saved_epp
    foreign,     \* another sched_ext scheduler is loaded
    step,        \* where the driver is
    rep,
    todo,        \* arms left in this repetition
    arm,         \* the current arm
    left,        \* placements left in the current arm
    cpu,         \* loop counter of apply_epp and restore_epp
    ping,        \* the pinger runs
    good,        \* the measured command and the pinger have succeeded so far
    orphan,      \* an exception left bls_proc running
    late,        \* how many killed bls are still in the kernel, see LateStage
    under,       \* the schedulers the measured command has run under
    last         \* the last record

L == INSTANCE Loader

bls   == <<opt, initial, pc, i, epp_saved, epp_valid, handlers, exiting,
           attached, uei, status>>
run   == <<rep, todo, arm, left>>
child == <<ping, good, orphan, late>>
vars  == <<bls, epp, saved, foreign, step, run, cpu, child, under, last>>

(* epp is what apply_epp writes; e2-coupling measures several placements   *)
(* under it, the others one.                                               *)
Arm == [kind : {"fixed", "ab"}, sched : {"eevdf", "scx"}, epp : [L!CPU -> EPP],
        placements : Nat \ {0}]

ASSUME MachineAssumption ==
    /\ nr_cpus_online \in Nat \ {0} /\ cpu_dom \in [L!CPU -> {L!BIG, L!LITTLE}]
    /\ epp_big \in EPP /\ epp_little \in EPP
    /\ Faults \subseteq L!Fallible
ASSUME ArmAssumption ==
    /\ Arms \subseteq Arm /\ NoArm \notin Arms
    /\ \A a \in Arms : a.kind = "fixed" => a.sched = "eevdf"
ASSUME RepsAssumption == reps \in Nat

(* Where a killed bls still matters: in the system call that attaches its  *)
(* scheduler, and while the scheduler is attached.                         *)
LateStage == {"attaching", "attached"}

Over == {"refused", "returned", "raised"}
Step == {"preflight", "next", "epp", "cool", "attach", "look", "kill", "ping", "measure",
         "stop_ping", "term", "stop_bls", "record", "finally"} \cup Over

NoRecord == [ok |-> FALSE, sched |-> "eevdf", under |-> {}]
Record == [ok : BOOLEAN, sched : {"eevdf", "scx"}, under : SUBSET {"eevdf", "scx"}]

TypeOK ==
    /\ L!TypeOK
    /\ saved \in [L!CPU -> EPP]
    /\ foreign \in BOOLEAN
    /\ step \in Step
    /\ rep \in Nat
    /\ todo \subseteq Arms
    /\ arm \in Arms \cup {NoArm}
    /\ left \in Nat
    /\ cpu \in 0 .. nr_cpus_online
    /\ ping \in BOOLEAN /\ good \in BOOLEAN /\ orphan \in BOOLEAN
    /\ late \in [LateStage -> Nat]
    /\ under \subseteq {"eevdf", "scx"}
    /\ last \in Record

bls_dead == pc \in L!Ended

(* A killed bls still has, or may still get, its scheduler.                *)
SomeLate == \E s \in LateStage : late[s] > 0

(* A bls, killed or not, is the machine's scheduler.                       *)
Scheduled == attached \/ late["attached"] > 0

(* Mutant: without --no-epp.                                               *)
BlsOptions_epp ==
    [flat |-> FALSE, no_epp |-> FALSE, dry_run |-> FALSE, persist |-> TRUE,
     interval |-> FALSE, duration |-> FALSE]

(* e3_one runs bls with these options; see Loader.                         *)
BlsOptions ==
    [flat |-> FALSE, no_epp |-> TRUE, dry_run |-> FALSE, persist |-> TRUE,
     interval |-> FALSE, duration |-> FALSE]

(* The driver starts on a machine with any EPPs; no bls process exists.    *)
Init ==
    /\ saved \in [L!CPU -> EPP] /\ epp = saved /\ initial = saved
    /\ foreign \in BOOLEAN
    /\ opt = BlsOptions
    /\ pc = "exited" /\ i = 0
    /\ epp_saved = saved /\ epp_valid = [c \in L!CPU |-> FALSE]
    /\ handlers = FALSE /\ exiting = FALSE /\ attached = FALSE /\ uei = FALSE
    /\ status = 0
    /\ step = "preflight"
    /\ rep = 0 /\ todo = Arms /\ arm = NoArm /\ left = 0
    /\ cpu = 0
    /\ ping = FALSE /\ good = TRUE /\ orphan = FALSE
    /\ late = [s \in LateStage |-> 0]
    /\ under = {} /\ last = NoRecord

-----------------------------------------------------------------------------
(* The driver, outside e3_one                                              *)

Goto(s) == step' = s /\ cpu' = 0

(* An exception: the finally block of go() runs, and nothing else.         *)
Raise == Goto("finally") /\ orphan' = ~bls_dead

(* Another scheduler, or another problem: the session does not start.      *)
preflight ==
    /\ step = "preflight"
    /\ \E problem \in BOOLEAN : Goto(IF problem \/ foreign THEN "refused" ELSE "next")
    /\ UNCHANGED <<bls, epp, saved, foreign, run, child, last>>

NextArm ==
    /\ step = "next" /\ todo # {}
    /\ \E a \in todo : arm' = a /\ todo' = todo \ {a} /\ left' = a.placements
    /\ Goto("epp")
    /\ UNCHANGED <<bls, epp, saved, foreign, rep, child, last>>

NextRep ==
    /\ step = "next" /\ todo = {}
    /\ IF rep + 1 < reps THEN rep' = rep + 1 /\ todo' = Arms /\ Goto("next")
                         ELSE UNCHANGED <<rep, todo>> /\ Goto("finally")
    /\ UNCHANGED <<bls, epp, saved, foreign, arm, left, child, last>>

(* One write of apply_epp; an error is not caught.                         *)
apply_epp ==
    /\ step = "epp" /\ cpu < nr_cpus_online
    /\ \/ /\ epp' = [epp EXCEPT ![cpu] = arm.epp[cpu]]
          /\ cpu' = cpu + 1
          /\ UNCHANGED <<step, orphan>>
       \/ Raise /\ UNCHANGED epp
    /\ UNCHANGED <<bls, saved, foreign, run, ping, good, late, last>>

ApplyDone ==
    /\ step = "epp" /\ cpu = nr_cpus_online
    /\ Goto("cool")
    /\ UNCHANGED <<bls, epp, saved, foreign, run, child, last>>

(* The cooldown, then bls_proc = Popen(bls) in the arms that want it.      *)
Cooldown ==
    /\ step = "cool"
    /\ good' = TRUE
    /\ IF arm.sched = "scx"
       THEN /\ opt' = BlsOptions /\ initial' = epp
            /\ pc' = "save" /\ i' = 0
            /\ epp_saved' = [c \in L!CPU |-> epp_big]
            /\ epp_valid' = [c \in L!CPU |-> FALSE]
            /\ handlers' = FALSE /\ exiting' = FALSE /\ attached' = FALSE
            /\ uei' = FALSE /\ status' = 0
            /\ Goto("attach")
       ELSE UNCHANGED bls /\ Goto(IF arm.kind = "ab" THEN "ping" ELSE "measure")
    /\ UNCHANGED <<epp, saved, foreign, run, ping, orphan, late, last>>

-----------------------------------------------------------------------------
(* e3_one                                                                  *)

(* What current_scx() may find in sysfs: a scheduler, or the traces of one *)
(* that is being enabled or disabled.                                      *)
MayShow == Scheduled \/ SomeLate \/ pc = "attach" \/ uei

(* The last round of _wait_attached() begins with poll(): bls has ended,   *)
(* or it has not.  The 10 s may be over before that.                       *)
wait_attached ==
    /\ step = "attach"
    /\ \/ ~bls_dead /\ Goto("look")
       \/ Goto("kill")
    /\ UNCHANGED <<bls, epp, saved, foreign, run, child, last>>

(* It ends with a look at sysfs, which does not say whose scheduler it is. *)
LookAtScx ==
    /\ step = "look"
    /\ \/ MayShow /\ Goto("ping")
       \/ ~Scheduled /\ Goto("kill")
    /\ UNCHANGED <<bls, epp, saved, foreign, run, child, last>>

(* Mutant: one placement too many.                                         *)
record_more(ok) ==
    /\ last' = [ok |-> ok, sched |-> arm.sched, under |-> under]
    /\ left' = left - 1
    /\ Goto(IF left > 0 THEN "cool" ELSE "next")

(* A measurement ends in a record; e2-coupling goes on with its next       *)
(* placement under the same EPPs.                                          *)
record(ok) ==
    /\ last' = [ok |-> ok, sched |-> arm.sched, under |-> under]
    /\ left' = left - 1
    /\ Goto(IF left > 1 THEN "cool" ELSE "next")

(* Where SIGKILL finds bls_proc.                                           *)
Caught == (IF attached THEN {"attached"} ELSE {})
          \cup (IF pc = "attach" THEN {"attaching"} ELSE {})

(* SIGKILL for bls_proc, unless it has ended.  It takes no more steps of   *)
(* its own, but nothing says when it is gone: _kill() ignores that its     *)
(* wait of 5 s has timed out.                                              *)
KillBls ==
    IF bls_dead THEN UNCHANGED <<bls, epp, late>>
    ELSE /\ L!Sigkill
         /\ late' = [s \in LateStage |-> late[s] + (IF s \in Caught THEN 1 ELSE 0)]

(* Mutant: a scheduler that is late to attach is left alone.               *)
GiveUp_alive ==
    /\ step = "kill"
    /\ good' = FALSE
    /\ Goto("record")
    /\ UNCHANGED <<bls, epp, saved, foreign, run, ping, orphan, late, last>>

(* The record will say that the run was not ok.                            *)
GiveUp ==
    /\ step = "kill"
    /\ KillBls
    /\ good' = FALSE
    /\ Goto("record")
    /\ UNCHANGED <<saved, foreign, run, ping, orphan, last>>

StartPing ==
    /\ step = "ping"
    /\ ping' = TRUE
    /\ Goto("measure")
    /\ UNCHANGED <<bls, epp, saved, foreign, run, good, orphan, late, last>>

(* The measured command ends, well or not.                                 *)
Measure ==
    /\ step = "measure"
    /\ good' \in BOOLEAN
    /\ Goto(IF arm.kind = "ab" THEN "stop_ping" ELSE "record")
    /\ UNCHANGED <<bls, epp, saved, foreign, run, ping, orphan, late, last>>

(* SIGTERM for the pinger.  It reports or not; if it does not end within   *)
(* 30 s, communicate() raises.                                             *)
StopPing ==
    /\ step = "stop_ping"
    /\ \/ /\ ping' = FALSE
          /\ good' \in {FALSE, good}
          /\ Goto(IF arm.sched = "scx" THEN "term" ELSE "record")
          /\ UNCHANGED orphan
       \/ Raise /\ UNCHANGED <<ping, good>>
    /\ UNCHANGED <<bls, epp, saved, foreign, run, late, last>>

(* What SIGTERM or SIGINT does to bls_proc.                                *)
SignalBls == IF bls_dead \/ exiting THEN UNCHANGED <<bls, epp>>
             ELSE L!on_signal \/ L!DefaultSignal

TermBls ==
    /\ step = "term"
    /\ SignalBls
    /\ Goto("stop_bls")
    /\ UNCHANGED <<saved, foreign, run, child, last>>

(* Mutant: waits for bls_proc without a timeout.                           *)
StopBls_waits ==
    /\ step = "stop_bls" /\ bls_dead
    /\ KillBls
    /\ Goto("record")
    /\ UNCHANGED <<saved, foreign, run, ping, good, orphan, last>>

(* Mutant: does not kill what did not end.                                 *)
StopBls_leaves ==
    /\ step = "stop_bls"
    /\ UNCHANGED <<bls, epp>>
    /\ Goto("record")
    /\ UNCHANGED <<saved, foreign, run, child, last>>

(* communicate() returns when bls_proc ends; after 30 s it is killed.      *)
StopBls ==
    /\ step = "stop_bls"
    /\ KillBls
    /\ Goto("record")
    /\ UNCHANGED <<saved, foreign, run, ping, good, orphan, last>>

Finish ==
    /\ step = "record"
    /\ record(good)
    /\ UNCHANGED <<bls, epp, saved, foreign, rep, todo, arm, child>>

-----------------------------------------------------------------------------
(* The finally block                                                       *)

restore_epp ==
    /\ step = "finally" /\ cpu < nr_cpus_online
    /\ epp' = [epp EXCEPT ![cpu] = saved[cpu]]
    /\ cpu' = cpu + 1
    /\ UNCHANGED <<bls, saved, foreign, step, run, child, last>>

(* Without an exception, every arm has had its turn.                       *)
Outcome == IF todo = {} /\ left = 0 /\ rep + 1 >= reps THEN "returned" ELSE "raised"

(* Mutant: misses the last CPU.                                            *)
RestoreDone_early ==
    /\ step = "finally" /\ cpu >= nr_cpus_online - 1
    /\ Goto(Outcome)
    /\ UNCHANGED <<bls, epp, saved, foreign, run, child, last>>

RestoreDone ==
    /\ step = "finally" /\ cpu = nr_cpus_online
    /\ Goto(Outcome)
    /\ UNCHANGED <<bls, epp, saved, foreign, run, child, last>>

-----------------------------------------------------------------------------
(* The others                                                              *)

(* The scheduler of a killed bls is in the way: attaching fails.           *)
AttachBusy ==
    /\ pc = "attach" /\ SomeLate
    /\ L!RestoreAndDie
    /\ UNCHANGED <<opt, initial, exiting, uei, epp, epp_saved, epp_valid, handlers>>

(* bls_proc runs, and the kernel may eject its scheduler.                  *)
BlsStep ==
    /\ \/ L!MainStep /\ (pc = "attach" => late["attached"] = 0)
       \/ AttachBusy
       \/ L!Eject
    /\ UNCHANGED <<saved, foreign, step, run, cpu, child, last>>

LateUnchanged == UNCHANGED <<bls, epp, saved, foreign, step, run, cpu, ping, good, orphan, last>>

(* The kernel drops the scheduler of a killed bls, or the bls ends without *)
(* one.                                                                    *)
LateEnd ==
    /\ \E s \in LateStage : late[s] > 0 /\ late' = [late EXCEPT ![s] = @ - 1]
    /\ LateUnchanged

(* The system call that SIGKILL found completes: the scheduler is attached *)
(* after all.                                                              *)
LateAttach ==
    /\ late["attaching"] > 0 /\ ~Scheduled
    /\ late' = [late EXCEPT !["attaching"] = @ - 1, !["attached"] = @ + 1]
    /\ LateUnchanged

(* KeyboardInterrupt in the try block: from the terminal, which signals    *)
(* the children too, or for the driver alone.  Nothing happens at "next",  *)
(* which is only the head of the loops.                                    *)
Interrupt ==
    /\ step \notin {"preflight", "next", "finally"} \cup Over
    /\ \/ SignalBls /\ ping' = FALSE
       \/ UNCHANGED <<bls, epp, ping>>
    /\ Goto("finally")
    /\ orphan' = (pc' \notin L!Ended)
    /\ UNCHANGED <<saved, foreign, run, good, late, last>>

Done == step \in Over /\ UNCHANGED <<bls, epp, saved, foreign, step, run, cpu, child, last>>

-----------------------------------------------------------------------------
DriverStep ==
    \/ preflight \/ NextArm \/ NextRep
    \/ apply_epp \/ ApplyDone \/ Cooldown
    \/ wait_attached \/ LookAtScx \/ GiveUp
    \/ StartPing \/ Measure \/ StopPing
    \/ TermBls \/ StopBls \/ Finish
    \/ restore_epp \/ RestoreDone

(* The measured command runs under what schedules the machine meanwhile.   *)
Observe ==
    under' = (IF step = "cool" THEN {} ELSE under)
             \cup (IF step' = "measure" THEN {IF Scheduled' THEN "scx" ELSE "eevdf"} ELSE {})

Next ==
    /\ \/ DriverStep \/ Interrupt \/ Done
       \/ BlsStep \/ LateEnd \/ LateAttach
    /\ Observe

Spec == Init /\ [][Next]_vars

(* The driver and what it measures go on; bls may hang anywhere.  A killed *)
(* process ends some day.                                                  *)
FairSpec == Spec /\ WF_vars(DriverStep /\ Observe) /\ WF_vars(LateEnd /\ Observe)

-----------------------------------------------------------------------------
(* Properties                                                              *)

(* "EPP is saved once at startup and restored in a finally block": once    *)
(* the session is over every EPP is what it was, although bls, which       *)
(* restores EPPs of its own when it fails, ran at the same time.  It may   *)
(* still do so as an orphan; such a session is not covered.                *)
EppRestored == step \in Over /\ ~orphan => epp = saved

(* Where an arm has its EPPs.                                              *)
Labelled == Step \ ({"preflight", "next", "epp", "finally"} \cup Over)

(* From the cooldown to the record the machine has the EPPs that the       *)
(* record names: bls, with --no-epp, leaves them alone, and what it        *)
(* restores when it fails is what it found.                                *)
LabelHolds ==
    step \in Labelled => epp = arm.epp

(* An arm without scx_bls is measured without it, also after an arm whose  *)
(* bls was late to attach and was given up, or did not end on SIGTERM.     *)
(* What may still schedule the machine is a bls that was sent SIGKILL and  *)
(* has outlived the 5 s of _kill().                                        *)
EevdfAlone ==
    step = "measure" /\ arm.sched = "eevdf" =>
        bls_dead /\ (Scheduled => late["attached"] > 0)

(* When the session returns, no child of it is left, but for what has been *)
(* sent SIGKILL and has outlived the 5 s.                                  *)
NothingLeft ==
    step = "returned" => bls_dead /\ ~ping /\ (Scheduled => late["attached"] > 0)

(* A session that returns gives the machine back: some time later nothing  *)
(* it started is there, and none of its schedulers.                        *)
MachineReturned == step = "returned" ~> ~Scheduled /\ ~SomeLate

(* The session ends even when bls hangs: every wait has a timeout.         *)
SessionEnds == <>(step \in Over)


-----------------------------------------------------------------------------
(* Why they hold: the inductive invariant behind EppRestored, LabelHolds,  *)
(* EevdfAlone and NothingLeft                                              *)

(* Where the bls of an arm may run.                                        *)
BlsWanted == {"attach", "look", "kill", "ping", "measure", "stop_ping", "term", "stop_bls"}

(* bls never comes to apply_epp().                                         *)
BlsObeys ==
    /\ opt = BlsOptions /\ pc # "apply"
    /\ attached => pc \in {"loop", "stats", "detach"}

(* bls runs in an arm that wants it, and what it has saved is what the arm *)
(* has set.                                                                *)
BlsInArm ==
    ~bls_dead /\ ~orphan =>
        /\ step \in BlsWanted /\ arm.sched = "scx"
        /\ \A c \in L!CPU : epp_valid[c] => epp_saved[c] = arm.epp[c]

(* What is left running is left by an arm that did not end.                *)
Unfinished ==
    /\ step \in {"epp"} \cup Labelled => arm \in Arms /\ left > 0
    /\ orphan => step \in {"finally", "raised"} /\ left > 0
    /\ ping => step \in {"measure", "stop_ping", "finally", "raised"} /\ left > 0
    /\ step \in {"attach", "look", "ping"} \/ (ping /\ step = "measure") => arm.kind = "ab"
    /\ step = "returned" => left = 0

(* How far apply_epp and restore_epp have come.                            *)
EppSteps ==
    /\ step \in {"preflight", "refused"} => epp = saved
    /\ step = "epp" => \A c \in L!CPU : c < cpu => epp[c] = arm.epp[c]
    /\ step \in Labelled => epp = arm.epp
    /\ step = "finally" /\ ~orphan => \A c \in L!CPU : c < cpu => epp[c] = saved[c]
    /\ step \in {"returned", "raised"} /\ ~orphan => epp = saved

BenchInv == BlsObeys /\ BlsInArm /\ Unfinished /\ EppSteps
=============================================================================
