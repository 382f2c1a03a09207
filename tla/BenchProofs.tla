---------------------------- MODULE BenchProofs ----------------------------
(***************************************************************************)
(* Proofs about Bench, for every number of CPUs, every set of arms, every  *)
(* number of repetitions and whichever calls of bls fail.                  *)
(***************************************************************************)
EXTENDS Bench, TLAPS

-----------------------------------------------------------------------------
(* Types of the loader's variables, from LoaderProofs                      *)

LP == INSTANCE LoaderProofs

LEMMA LoaderTypes == ASSUME TypeOK, L!Next PROVE L!TypeOK'
<1>1. L!TypeOK
  BY DEF TypeOK
<1>2. L!TypeOK <=> LP!TypeOK
  BY DEF
         L!TypeOK, LP!TypeOK, L!Option, LP!Option, L!Place, LP!Place,
         L!Ended, LP!Ended, L!CPU, LP!CPU
<1>3. L!TypeOK' <=> LP!TypeOK'
  BY DEF
         L!TypeOK, LP!TypeOK, L!Option, LP!Option, L!Place, LP!Place,
         L!Ended, LP!Ended, L!CPU, LP!CPU
<1>4. L!Next => LP!Next
  BY DEF
         L!CPU, LP!CPU, L!BIG, LP!BIG, L!LITTLE, LP!LITTLE, L!Fallible,
         LP!Fallible, L!Want, LP!Want, L!Outcome, LP!Outcome, L!env,
         LP!env, L!eppVars, LP!eppVars, L!Goto, LP!Goto, L!die, LP!die,
         L!RestoreAndDie, LP!RestoreAndDie, L!Continue, LP!Continue,
         L!save_epp, LP!save_epp, L!SaveDone, LP!SaveDone, L!apply_epp,
         LP!apply_epp, L!ApplyDone, LP!ApplyDone, L!Report, LP!Report,
         L!OpenSkeleton, LP!OpenSkeleton, L!LoadSkeleton,
         LP!LoadSkeleton, L!add_comm_rules, LP!add_comm_rules,
         L!InstallHandlers, LP!InstallHandlers, L!Attach, LP!Attach,
         L!LoopRound, LP!LoopRound, L!LoopBreak, LP!LoopBreak,
         L!ReadStats, LP!ReadStats, L!Detach, LP!Detach, L!restore_epp,
         LP!restore_epp, L!RestoreDone, LP!RestoreDone, L!on_signal,
         LP!on_signal, L!DefaultSignal, LP!DefaultSignal, L!Sigkill,
         LP!Sigkill, L!Eject, LP!Eject, L!Over, LP!Over, L!Ended,
         LP!Ended, L!MainStep, LP!MainStep, L!Next, LP!Next, L!vars,
         LP!vars
<1>5. LP!CpuAssumption /\ LP!EppAssumption /\ LP!FaultAssumption
  BY MachineAssumption DEF
         L!CpuAssumption, LP!CpuAssumption, L!EppAssumption,
         LP!EppAssumption, L!FaultAssumption, LP!FaultAssumption, L!CPU,
         LP!CPU, L!BIG, LP!BIG, L!LITTLE, LP!LITTLE, L!Fallible,
         LP!Fallible
<1> QED BY <1>1, <1>2, <1>3, <1>4, <1>5, LP!LoaderTypeStep
-----------------------------------------------------------------------------
(* What bls and the signals it gets do to the state shared with the driver *)

LEMMA BlsStepFacts ==
    ASSUME TypeOK, BlsObeys, L!MainStep \/ AttachBusy \/ L!Eject
    PROVE  /\ pc \notin L!Ended
           /\ BlsObeys'
           /\ \A c \in L!CPU : \/ epp'[c] = epp[c]
                               \/ epp_valid[c] /\ epp'[c] = epp_saved[c]
           /\ \A c \in L!CPU : epp_valid'[c] =>
                \/ epp_valid[c] /\ epp_saved'[c] = epp_saved[c]
                \/ epp_saved'[c] = epp[c]
<1> USE DEF L!Ended, L!Goto, L!env, L!eppVars, L!Continue, L!RestoreAndDie, L!die,
            BlsObeys
<1>0. /\ epp \in [L!CPU -> EPP] /\ epp_saved \in [L!CPU -> EPP]
      /\ epp_valid \in [L!CPU -> BOOLEAN] /\ opt.no_epp
  BY DEF TypeOK, L!TypeOK, BlsOptions
<1>1. CASE L!save_epp
  BY <1>0, <1>1 DEF L!save_epp
<1>2. CASE L!restore_epp
  BY <1>0, <1>2 DEF L!restore_epp
<1>3. CASE L!SaveDone \/ L!apply_epp \/ L!ApplyDone \/ L!Report
  BY <1>0, <1>3 DEF L!SaveDone, L!apply_epp, L!ApplyDone, L!Report
<1>4. CASE L!OpenSkeleton \/ L!LoadSkeleton \/ L!add_comm_rules \/ L!InstallHandlers
  BY <1>4 DEF L!OpenSkeleton, L!LoadSkeleton, L!add_comm_rules, L!InstallHandlers
<1>5. CASE L!Attach \/ L!LoopBreak \/ L!ReadStats
  BY <1>5 DEF L!Attach, L!LoopBreak, L!ReadStats
<1>6. CASE L!Detach \/ L!RestoreDone \/ AttachBusy \/ L!Eject
  BY <1>6 DEF L!Detach, L!RestoreDone, AttachBusy, L!Eject
<1> QED BY <1>1, <1>2, <1>3, <1>4, <1>5, <1>6 DEF L!MainStep

(* A signal changes nothing but exiting, or ends bls.                      *)
SignalOutcome ==
    /\ BlsObeys'
    /\ UNCHANGED <<opt, initial, epp, epp_saved, epp_valid>>
    /\ pc' = pc \/ bls_dead'

LEMMA SignalFacts ==
    ASSUME TypeOK, BlsObeys
    PROVE  /\ SignalBls => SignalOutcome /\ L!TypeOK'
           /\ KillBls => SignalOutcome /\ L!TypeOK' /\ bls_dead'
<1> USE DEF SignalOutcome, BlsObeys, bls_dead, L!Ended, L!eppVars, L!env, L!Goto
<1>1. ASSUME UNCHANGED <<bls, epp>> PROVE SignalOutcome /\ L!TypeOK'
  <2>1. L!TypeOK'
    BY <1>1 DEF TypeOK, L!TypeOK, bls
  <2> QED BY <1>1, <2>1 DEF bls
<1>2. ASSUME L!on_signal PROVE SignalOutcome /\ L!TypeOK'
  <2>1. L!Next
    BY <1>2 DEF L!Next
  <2> QED BY <1>2, <2>1, LoaderTypes DEF L!on_signal
<1>3. ASSUME L!DefaultSignal PROVE SignalOutcome /\ L!TypeOK'
  <2>1. L!Next
    BY <1>3 DEF L!Next
  <2> QED BY <1>3, <2>1, LoaderTypes DEF L!DefaultSignal
<1>4. ASSUME L!Sigkill PROVE SignalOutcome /\ L!TypeOK' /\ bls_dead'
  <2>1. L!Next
    BY <1>4 DEF L!Next
  <2> QED BY <1>4, <2>1, LoaderTypes DEF L!Sigkill
<1>5. bls_dead /\ UNCHANGED <<bls, epp>> => bls_dead'
  BY DEF bls
<1> QED BY <1>1, <1>2, <1>3, <1>4, <1>5 DEF SignalBls, KillBls

LEMMA BusyTypes == ASSUME TypeOK, AttachBusy PROVE L!TypeOK'
<1>1. 0 \in 0 .. nr_cpus_online
  BY MachineAssumption
<1> QED BY <1>1 DEF AttachBusy, L!RestoreAndDie, L!Goto, TypeOK, L!TypeOK, L!Place

(* A kill leaves one more bls behind, or as many as there were.            *)
LEMMA LateTypes == ASSUME TypeOK, KillBls PROVE late' \in [LateStage -> Nat]
<1>1. \A s \in LateStage : late[s] + 1 \in Nat /\ late[s] + 0 \in Nat
  BY DEF TypeOK
<1> QED BY <1>1 DEF KillBls, TypeOK
-----------------------------------------------------------------------------
(* Types                                                                   *)

LEMMA BlsOptionsType == BlsOptions \in L!Option
BY DEF BlsOptions, L!Option

LEMMA BenchTypeInit == Init => TypeOK
<1> SUFFICES ASSUME Init PROVE TypeOK
  OBVIOUS
<1>1. 0 \in 0 .. nr_cpus_online
  BY MachineAssumption
<1>2. L!TypeOK
  BY <1>1, BlsOptionsType DEF Init, L!TypeOK, L!Place, L!Ended
<1> QED BY <1>1, <1>2 DEF Init, TypeOK, Step, Record, NoRecord

(* Not Init's, but what a step of the driver leaves of the loader.         *)
LEMMA KeepsLoaderTypes == ASSUME TypeOK, UNCHANGED bls, epp' \in [L!CPU -> EPP]
                          PROVE  L!TypeOK'
BY DEF TypeOK, L!TypeOK, bls

LEMMA RecordTypes == ASSUME TypeOK, arm \in Arms, NEW ok \in BOOLEAN, record(ok), left > 0
                     PROVE  /\ last' \in Record /\ left' \in Nat
                            /\ step' \in {"cool", "next"} /\ cpu' = 0
BY ArmAssumption DEF TypeOK, Record, record, Goto, Arm

LEMMA BenchTypeStep ==
    ASSUME TypeOK, BlsObeys, Unfinished, [Next]_vars PROVE TypeOK'
<1> USE DEF Step, Over, Labelled
<1>0. /\ nr_cpus_online \in Nat /\ 0 \in 0 .. nr_cpus_online
      /\ epp \in [L!CPU -> EPP] /\ saved \in [L!CPU -> EPP] /\ cpu \in Int
      /\ \A a \in Arms : /\ a.epp \in [L!CPU -> EPP] /\ a.placements \in Nat \ {0}
                         /\ a.sched \in {"eevdf", "scx"}
      /\ cpu < nr_cpus_online => cpu \in L!CPU /\ cpu + 1 \in 0 .. nr_cpus_online
  BY MachineAssumption, ArmAssumption DEF TypeOK, L!TypeOK, Arm, L!CPU
<1>U. Next => under' \subseteq {"eevdf", "scx"}
  BY DEF Next, Observe, TypeOK
<1>1. CASE Next /\ (preflight \/ NextArm \/ NextRep)
  <2>1. L!TypeOK'
    BY <1>1, <1>0, KeepsLoaderTypes DEF preflight, NextArm, NextRep
  <2>2. rep + 1 \in Nat
    BY DEF TypeOK
  <2> QED BY <1>1, <2>1, <2>2, <1>0, <1>U
          DEF preflight, NextArm, NextRep, TypeOK, Goto, run, child
<1>2. CASE Next /\ (ApplyDone \/ wait_attached \/ LookAtScx \/ StartPing \/ Measure)
  <2>1. L!TypeOK'
    BY <1>2, <1>0, KeepsLoaderTypes DEF ApplyDone, wait_attached, LookAtScx, StartPing, Measure
  <2> QED BY <1>2, <2>1, <1>0, <1>U
          DEF ApplyDone, wait_attached, LookAtScx, StartPing, Measure, TypeOK, Goto, run, child
<1>3. CASE Next /\ apply_epp
  <2>1. arm \in Arms /\ cpu \in L!CPU /\ cpu + 1 \in 0 .. nr_cpus_online
    BY <1>3, <1>0 DEF apply_epp, Unfinished
  <2>2. epp' \in [L!CPU -> EPP]
    BY <1>3, <1>0, <2>1 DEF apply_epp
  <2>3. L!TypeOK'
    BY <1>3, <2>2, KeepsLoaderTypes DEF apply_epp
  <2>4. bls_dead \in BOOLEAN
    BY DEF bls_dead
  <2> QED BY <1>3, <2>1, <2>3, <2>4, <1>0, <1>U DEF apply_epp, Raise, TypeOK, Goto, run
<1>4. CASE Next /\ Cooldown
  <2>1. L!TypeOK'
    <3>1. CASE arm.sched = "scx"
      <4>1. /\ opt' \in L!Option /\ initial' \in [L!CPU -> EPP]
            /\ pc' \in L!Place /\ i' \in 0 .. nr_cpus_online
            /\ epp' \in [L!CPU -> EPP]
        BY <1>4, <1>0, <3>1, BlsOptionsType DEF Cooldown, L!Place
      <4>2. epp_saved' \in [L!CPU -> EPP] /\ epp_valid' \in [L!CPU -> BOOLEAN]
        BY <1>4, <3>1, MachineAssumption DEF Cooldown
      <4> QED BY <1>4, <3>1, <4>1, <4>2 DEF Cooldown, L!TypeOK
    <3>2. CASE arm.sched # "scx"
      BY <1>4, <1>0, <3>2, KeepsLoaderTypes DEF Cooldown
    <3> QED BY <3>1, <3>2
  <2> QED BY <1>4, <2>1, <1>0, <1>U DEF Cooldown, TypeOK, Goto, run
<1>5. CASE Next /\ GiveUp
  <2>1. L!TypeOK'
    BY <1>5, SignalFacts DEF GiveUp
  <2>2. late' \in [LateStage -> Nat]
    BY <1>5, LateTypes DEF GiveUp
  <2> QED BY <1>5, <2>1, <2>2, <1>0, <1>U DEF GiveUp, TypeOK, Goto, run
<1>6. CASE Next /\ Finish
  <2>1. L!TypeOK'
    BY <1>6, <1>0, KeepsLoaderTypes DEF Finish
  <2>2. record(good) /\ arm \in Arms /\ left > 0 /\ good \in BOOLEAN
    BY <1>6 DEF Finish, Unfinished, TypeOK
  <2>3. last' \in Record /\ left' \in Nat /\ step' \in {"cool", "next"} /\ cpu' = 0
    BY <2>2, RecordTypes
  <2> QED BY <1>6, <2>1, <2>3, <1>0, <1>U DEF Finish, TypeOK, child
<1>7. CASE Next /\ StopPing
  <2>1. L!TypeOK'
    BY <1>7, <1>0, KeepsLoaderTypes DEF StopPing
  <2>2. bls_dead \in BOOLEAN
    BY DEF bls_dead
  <2> QED BY <1>7, <2>1, <2>2, <1>0, <1>U DEF StopPing, Raise, TypeOK, Goto, run
<1>8. CASE Next /\ (TermBls \/ StopBls)
  <2>1. L!TypeOK'
    BY <1>8, SignalFacts DEF TermBls, StopBls
  <2>2. late' \in [LateStage -> Nat]
    BY <1>8, LateTypes DEF TermBls, StopBls, child, TypeOK
  <2> QED BY <1>8, <2>1, <2>2, <1>0, <1>U DEF TermBls, StopBls, TypeOK, Goto, run, child
<1>9. CASE Next /\ (restore_epp \/ RestoreDone)
  <2>1. epp' \in [L!CPU -> EPP]
    BY <1>9, <1>0 DEF restore_epp, RestoreDone
  <2>2. L!TypeOK'
    BY <1>9, <2>1, KeepsLoaderTypes DEF restore_epp, RestoreDone
  <2>3. Outcome \in Step
    BY DEF Outcome
  <2> QED BY <1>9, <2>2, <2>3, <1>0, <1>U
          DEF restore_epp, RestoreDone, TypeOK, Goto, run, child
<1>10. CASE Next /\ BlsStep
  <2>1. L!MainStep \/ L!Eject => L!TypeOK'
    BY LoaderTypes DEF L!Next
  <2>2. L!TypeOK'
    BY <1>10, <2>1, BusyTypes DEF BlsStep
  <2> QED BY <1>10, <2>2, <1>U DEF BlsStep, TypeOK, run, child
<1>11. CASE Next /\ Interrupt
  <2>1. L!TypeOK'
    BY <1>11, <1>0, SignalFacts, KeepsLoaderTypes DEF Interrupt
  <2>2. ping' \in BOOLEAN /\ orphan' \in BOOLEAN
    BY <1>11 DEF Interrupt, TypeOK
  <2> QED BY <1>11, <2>1, <2>2, <1>0, <1>U DEF Interrupt, TypeOK, Goto, run
<1>12. CASE Next /\ Done
  <2>1. L!TypeOK'
    BY <1>12, <1>0, KeepsLoaderTypes DEF Done
  <2> QED BY <1>12, <2>1, <1>U DEF Done, TypeOK, run, child
<1>13. CASE UNCHANGED vars
  <2>1. L!TypeOK'
    BY <1>13, <1>0, KeepsLoaderTypes DEF vars
  <2> QED BY <1>13, <2>1 DEF vars, TypeOK, run, child
<1>14. CASE Next /\ (LateEnd \/ LateAttach)
  <2>1. L!TypeOK'
    BY <1>14, <1>0, KeepsLoaderTypes DEF LateEnd, LateAttach, LateUnchanged
  <2>2. \A s \in LateStage : /\ late[s] \in Nat /\ late[s] + 1 \in Nat
                            /\ late[s] > 0 => late[s] - 1 \in Nat
    BY DEF TypeOK
  <2>3. late' \in [LateStage -> Nat]
    BY <1>14, <2>2 DEF LateEnd, LateAttach, TypeOK, LateStage
  <2> QED BY <1>14, <2>1, <2>3, <1>U DEF LateEnd, LateAttach, LateUnchanged, TypeOK, run
<1> QED BY <1>1, <1>2, <1>3, <1>4, <1>5, <1>6, <1>7, <1>8, <1>9, <1>10, <1>11, <1>12,
           <1>13, <1>14 DEF Next, DriverStep
-----------------------------------------------------------------------------
(* The invariant                                                           *)

LEMMA BenchInvInit == Init => BenchInv
<1> SUFFICES ASSUME Init PROVE BenchInv
  OBVIOUS
<1>1. BlsObeys /\ BlsInArm
  BY DEF Init, BlsObeys, BlsInArm, bls_dead, L!Ended
<1>2. Unfinished /\ EppSteps
  BY DEF Init, Unfinished, EppSteps, Labelled, Step, Over
<1> QED BY <1>1, <1>2 DEF BenchInv

LEMMA BlsStepInv == ASSUME TypeOK, TypeOK', BenchInv, BlsStep PROVE BenchInv'
<1>1. /\ pc \notin L!Ended
      /\ BlsObeys'
      /\ \A c \in L!CPU : \/ epp'[c] = epp[c]
                          \/ epp_valid[c] /\ epp'[c] = epp_saved[c]
      /\ \A c \in L!CPU : epp_valid'[c] =>
           \/ epp_valid[c] /\ epp_saved'[c] = epp_saved[c]
           \/ epp_saved'[c] = epp[c]
  BY BlsStepFacts DEF BlsStep, BenchInv
<1>2. UNCHANGED <<saved, step, arm, left, cpu, ping, orphan>>
  BY DEF BlsStep, run, child
<1>3. Unfinished'
  BY <1>2 DEF BenchInv, Unfinished
<1>4. CASE orphan
  <2>1. BlsInArm'
    BY <1>2, <1>4 DEF BlsInArm
  <2>2. step \in {"finally", "raised"}
    BY <1>4 DEF BenchInv, Unfinished
  <2>3. step \notin {"preflight", "refused", "epp"} \cup Labelled
    BY <2>2 DEF Labelled, Over
  <2>4. EppSteps'
    BY <1>2, <1>4, <2>3 DEF EppSteps
  <2> QED BY <1>1, <1>3, <2>1, <2>4 DEF BenchInv
<1>5. CASE ~orphan
  <2>1. /\ step \in BlsWanted /\ arm.sched = "scx"
        /\ \A c \in L!CPU : epp_valid[c] => epp_saved[c] = arm.epp[c]
    BY <1>1, <1>5 DEF BenchInv, BlsInArm, bls_dead
  <2>2. step \in Labelled
    BY <2>1 DEF BlsWanted, Labelled, Step, Over
  <2>3. epp = arm.epp /\ arm \in Arms
    BY <2>2 DEF BenchInv, EppSteps, Unfinished
  <2>4. \A c \in L!CPU : epp'[c] = epp[c]
    BY <1>1, <2>1, <2>3
  <2>5. epp \in [L!CPU -> EPP] /\ epp' \in [L!CPU -> EPP]
    BY DEF TypeOK, L!TypeOK
  <2>6. epp' = epp
    BY <2>4, <2>5
  <2>7. EppSteps'
    BY <1>2, <2>6 DEF BenchInv, EppSteps
  <2>8. BlsInArm'
    BY <1>1, <1>2, <2>1, <2>3 DEF BlsInArm
  <2> QED BY <1>1, <1>3, <2>7, <2>8 DEF BenchInv
<1> QED BY <1>4, <1>5

(* In an arm only its bls runs, and outside none.                          *)
LEMMA NoneOutside ==
    ASSUME BenchInv, step \notin BlsWanted \cup {"finally"} \cup Over
    PROVE  bls_dead /\ ~orphan
BY DEF BenchInv, Unfinished, BlsInArm, BlsWanted, Over

LEMMA ArmStepInv ==
    ASSUME TypeOK, TypeOK', BenchInv, Next,
           preflight \/ NextArm \/ NextRep \/ apply_epp \/ ApplyDone \/ Cooldown
    PROVE  BenchInv'
<1> USE DEF Step, Over, Labelled, BlsWanted, Goto
<1>1. bls_dead /\ ~orphan
  BY NoneOutside DEF preflight, NextArm, NextRep, apply_epp, ApplyDone, Cooldown
<1>2. ASSUME UNCHANGED bls PROVE bls_dead' /\ BlsObeys'
  BY <1>1, <1>2 DEF bls, bls_dead, L!Ended, BenchInv, BlsObeys
<1>3. CASE preflight
  BY <1>1, <1>2, <1>3
     DEF preflight, run, child, BenchInv, BlsInArm, Unfinished, EppSteps
<1>4. CASE NextArm
  <2>1. left' > 0 /\ arm' \in Arms
    BY <1>4, ArmAssumption DEF NextArm, Arm, TypeOK
  <2>2. \A c \in L!CPU : ~(c < 0)
    BY MachineAssumption DEF L!CPU
  <2> QED BY <1>1, <1>2, <1>4, <2>1, <2>2
          DEF NextArm, child, BenchInv, BlsInArm, Unfinished, EppSteps
<1>5. CASE NextRep
  <2>1. \A c \in L!CPU : ~(c < 0)
    BY MachineAssumption DEF L!CPU
  <2> QED BY <1>1, <1>2, <1>5, <2>1
          DEF NextRep, child, BenchInv, BlsInArm, Unfinished, EppSteps
<1>6. CASE apply_epp
  <2>0. arm \in Arms /\ left > 0 /\ UNCHANGED <<bls, saved, arm, left, ping>> /\ step = "epp"
    BY <1>6 DEF apply_epp, run, BenchInv, Unfinished
  <2>1. CASE epp' = [epp EXCEPT ![cpu] = arm.epp[cpu]] /\ cpu' = cpu + 1 /\ UNCHANGED <<step, orphan>>
    <3>1. epp \in [L!CPU -> EPP] /\ cpu \in Int /\ \A c \in L!CPU : c \in Int
      BY MachineAssumption DEF TypeOK, L!TypeOK, L!CPU
    <3>2. \A c \in L!CPU : c < cpu + 1 => epp'[c] = arm.epp[c]
      BY <2>0, <2>1, <3>1 DEF BenchInv, EppSteps
    <3> QED BY <1>1, <1>2, <2>0, <2>1, <3>2
            DEF BenchInv, BlsInArm, Unfinished, EppSteps
  <2>2. CASE Raise /\ UNCHANGED epp
    <3>1. \A c \in L!CPU : ~(c < 0)
      BY MachineAssumption DEF L!CPU
    <3> QED BY <1>1, <1>2, <2>0, <2>2, <3>1
            DEF Raise, BenchInv, BlsInArm, Unfinished, EppSteps
  <2> QED BY <1>6, <2>1, <2>2 DEF apply_epp
<1>7. CASE ApplyDone
  <2>0. arm \in Arms /\ left > 0
    BY <1>7 DEF ApplyDone, BenchInv, Unfinished
  <2>1. \A c \in L!CPU : epp[c] = arm.epp[c]
    BY <1>7, MachineAssumption DEF ApplyDone, BenchInv, EppSteps, L!CPU
  <2>2. epp \in [L!CPU -> EPP] /\ arm.epp \in [L!CPU -> EPP]
    BY <2>0, ArmAssumption DEF TypeOK, L!TypeOK, Arm
  <2>3. epp = arm.epp
    BY <2>1, <2>2
  <2> QED BY <1>1, <1>2, <1>7, <2>0, <2>3
          DEF ApplyDone, run, child, BenchInv, BlsInArm, Unfinished, EppSteps
<1>8. CASE Cooldown
  <2>1. CASE arm.sched = "scx"
    <3>1. arm \in Arms /\ arm.kind = "ab"
      BY <1>8, <2>1, ArmAssumption DEF Cooldown, BenchInv, Unfinished, Arm
    <3> QED BY <1>1, <1>8, <2>1, <3>1
       DEF Cooldown, run, BenchInv, BlsObeys, BlsInArm, Unfinished, EppSteps
  <2>2. CASE arm.sched # "scx"
    BY <1>1, <1>2, <1>8, <2>2
       DEF Cooldown, run, BenchInv, BlsInArm, Unfinished, EppSteps
  <2> QED BY <2>1, <2>2
<1> QED BY <1>3, <1>4, <1>5, <1>6, <1>7, <1>8
LEMMA ServeStepInv ==
    ASSUME TypeOK, TypeOK', BenchInv, Next,
           wait_attached \/ LookAtScx \/ GiveUp \/ StartPing \/ Measure \/ StopPing
           \/ TermBls \/ StopBls \/ Finish
    PROVE  BenchInv'
<1> USE DEF Step, Over, Labelled, BlsWanted, Goto
<1>a. step \in Labelled
  BY DEF wait_attached, LookAtScx, GiveUp, StartPing, Measure, StopPing, TermBls, StopBls,
         Finish
<1>b. \A c \in L!CPU : ~(c < 0)
  BY MachineAssumption DEF L!CPU
<1>0. /\ arm \in Arms /\ left > 0 /\ epp = arm.epp /\ ~orphan
      /\ BlsObeys /\ BlsInArm
      /\ arm.sched = "scx" => arm.kind = "ab"
      /\ \A c \in L!CPU : ~(c < 0)
  BY <1>a, <1>b, ArmAssumption DEF BenchInv, Unfinished, EppSteps, Arm
<1>1. ASSUME UNCHANGED bls PROVE /\ BlsObeys' /\ (bls_dead' <=> bls_dead)
                                 /\ UNCHANGED <<epp_valid, epp_saved>>
  BY <1>0, <1>1 DEF bls, bls_dead, L!Ended, BlsObeys
<1>2. CASE wait_attached \/ LookAtScx \/ StartPing
  BY <1>0, <1>1, <1>2
     DEF wait_attached, LookAtScx, StartPing, run, child, BenchInv, BlsInArm, Unfinished,
         EppSteps
<1>3. CASE Measure
  <2>1. ping => arm.kind = "ab"
    BY <1>3 DEF Measure, BenchInv, Unfinished
  <2> QED BY <1>0, <1>1, <1>3, <2>1
     DEF Measure, run, BenchInv, BlsInArm, Unfinished, EppSteps
<1>4. CASE StopPing
  <2>0. step = "stop_ping" /\ UNCHANGED <<bls, epp, saved, arm, left>> /\ cpu' = 0
    BY <1>4 DEF StopPing, Raise, run
  <2>1. CASE step' \in {"term", "record"} /\ ping' = FALSE /\ UNCHANGED orphan
             /\ (step' = "record" => arm.sched # "scx")
    BY <1>0, <1>1, <2>0, <2>1 DEF BenchInv, BlsInArm, Unfinished, EppSteps
  <2>2. CASE step' = "finally" /\ orphan' = ~bls_dead /\ UNCHANGED ping
    <3>1. BlsInArm'
      BY <1>1, <2>0, <2>2 DEF BlsInArm
    <3> QED BY <1>0, <1>1, <2>0, <2>2, <3>1 DEF BenchInv, Unfinished, EppSteps
  <2> QED BY <1>4, <2>1, <2>2 DEF StopPing, Raise
<1>5. CASE TermBls
  <2>1. SignalOutcome
    BY <1>0, <1>5, SignalFacts DEF TermBls
  <2> QED BY <1>0, <1>5, <2>1
     DEF TermBls, SignalOutcome, bls_dead, run, child, BenchInv, BlsInArm, Unfinished, EppSteps
<1>6. CASE StopBls
  <2>1. SignalOutcome /\ bls_dead'
    BY <1>0, <1>6, SignalFacts DEF StopBls
  <2> QED BY <1>0, <1>6, <2>1
     DEF StopBls, SignalOutcome, run, child, BenchInv, BlsInArm, Unfinished, EppSteps
<1>7. CASE GiveUp
  <2>1. SignalOutcome /\ bls_dead'
    BY <1>0, <1>7, SignalFacts DEF GiveUp
  <2> QED BY <1>0, <1>7, <2>1
     DEF GiveUp, SignalOutcome, run, BenchInv, BlsInArm, Unfinished, EppSteps
<1>8. CASE Finish
  <2>1. bls_dead
    BY <1>0, <1>8 DEF Finish, BlsInArm
  <2>2. step' = "cool" => left' > 0
    BY <1>8 DEF Finish, record, TypeOK
  <2> QED BY <1>0, <1>1, <1>8, <2>1, <2>2
     DEF Finish, record, child, BenchInv, BlsInArm, Unfinished, EppSteps
<1> QED BY <1>2, <1>3, <1>4, <1>5, <1>6, <1>7, <1>8
LEMMA EndStepInv ==
    ASSUME TypeOK, TypeOK', BenchInv, Next,
           restore_epp \/ RestoreDone \/ Interrupt \/ Done
    PROVE  BenchInv'
<1> USE DEF Step, Over, Labelled, BlsWanted, Goto
<1>0. /\ \A c \in L!CPU : ~(c < 0) /\ c \in Int
      /\ epp \in [L!CPU -> EPP] /\ saved \in [L!CPU -> EPP] /\ cpu \in Int
  BY MachineAssumption DEF L!CPU, TypeOK, L!TypeOK
<1>1. ASSUME UNCHANGED bls PROVE /\ BlsObeys' /\ (bls_dead' <=> bls_dead)
                                 /\ UNCHANGED <<epp_valid, epp_saved>>
  BY <1>1 DEF bls, bls_dead, L!Ended, BlsObeys, BenchInv
<1>2. CASE restore_epp
  <2>0. /\ step = "finally" /\ step' = "finally" /\ cpu' = cpu + 1
        /\ epp' = [epp EXCEPT ![cpu] = saved[cpu]]
        /\ UNCHANGED <<bls, saved, arm, left, ping, orphan>>
    BY <1>2 DEF restore_epp, run, child
  <2>1. ~orphan => \A c \in L!CPU : c < cpu + 1 => epp'[c] = saved[c]
    BY <1>0, <2>0 DEF BenchInv, EppSteps
  <2>2. BlsInArm' /\ EppSteps'
    BY <1>1, <2>0, <2>1 DEF BenchInv, BlsInArm, EppSteps
  <2> QED BY <1>1, <2>0, <2>2 DEF BenchInv, Unfinished
<1>3. CASE RestoreDone
  <2>0. /\ step = "finally" /\ step' = Outcome /\ cpu = nr_cpus_online
        /\ UNCHANGED <<bls, epp, saved, arm, left, ping, orphan>>
    BY <1>3 DEF RestoreDone, run, child
  <2>1. step' \in {"returned", "raised"} /\ (step' = "returned" => left = 0)
    BY <2>0 DEF Outcome
  <2>2. ~orphan => epp = saved
    <3>1. ~orphan => \A c \in L!CPU : epp[c] = saved[c]
      BY <2>0, MachineAssumption DEF BenchInv, EppSteps, L!CPU
    <3> QED BY <3>1, <1>0
  <2>3. BlsInArm' /\ EppSteps'
    BY <1>1, <2>0, <2>1, <2>2 DEF BenchInv, BlsInArm, EppSteps
  <2>4. left \in Nat
    BY DEF TypeOK
  <2> QED BY <1>1, <2>0, <2>1, <2>3, <2>4 DEF BenchInv, Unfinished
<1>4. CASE Interrupt
  <2>0. /\ step \in {"epp"} \cup Labelled /\ left > 0 /\ step' = "finally" /\ cpu' = 0
        /\ orphan' = (pc' \notin L!Ended)
        /\ UNCHANGED <<saved, arm, left>>
    BY <1>4 DEF Interrupt, run, BenchInv, Unfinished, TypeOK
  <2>1. BlsObeys'
    BY <1>1, <1>4, SignalFacts DEF Interrupt, SignalOutcome, BenchInv
  <2>2. BlsInArm'
    BY <2>0 DEF BlsInArm, bls_dead
  <2>3. EppSteps' /\ Unfinished'
    BY <1>0, <2>0 DEF EppSteps, Unfinished
  <2> QED BY <2>1, <2>2, <2>3 DEF BenchInv
<1>5. CASE Done
  <2>0. UNCHANGED <<bls, epp, saved, step, arm, left, cpu, ping, orphan>>
    BY <1>5 DEF Done, run, child
  <2> QED BY <1>1, <2>0 DEF BenchInv, BlsInArm, Unfinished, EppSteps
<1> QED BY <1>2, <1>3, <1>4, <1>5

LEMMA BenchInductive == ASSUME TypeOK, BenchInv, [Next]_vars PROVE TypeOK' /\ BenchInv'
<1>1. TypeOK'
  BY BenchTypeStep DEF BenchInv
<1>2. CASE UNCHANGED vars
  <2>1. UNCHANGED <<bls, epp, saved, step, arm, left, cpu, ping, orphan>>
    BY <1>2 DEF vars, run, child
  <2>2. BlsObeys' /\ BlsInArm'
    BY <2>1 DEF bls, bls_dead, BenchInv, BlsObeys, BlsInArm
  <2> QED BY <1>1, <2>1, <2>2 DEF BenchInv, Unfinished, EppSteps
<1>3. CASE Next
  <2>1. CASE LateEnd \/ LateAttach
    <3>1. UNCHANGED <<bls, epp, saved, step, arm, left, cpu, ping, orphan>>
      BY <1>3, <2>1 DEF LateEnd, LateAttach, LateUnchanged, run
    <3>2. BlsObeys' /\ BlsInArm'
      BY <3>1 DEF bls, bls_dead, BenchInv, BlsObeys, BlsInArm
    <3> QED BY <1>1, <3>1, <3>2 DEF BenchInv, Unfinished, EppSteps
  <2> QED BY <1>1, <1>3, <2>1, ArmStepInv, ServeStepInv, EndStepInv, BlsStepInv
          DEF Next, DriverStep
<1> QED BY <1>2, <1>3

-----------------------------------------------------------------------------
LEMMA BenchInvariant == Spec => [](TypeOK /\ BenchInv)
BY BenchTypeInit, BenchInvInit, BenchInductive, PTL DEF Spec

(* Every variable of the session keeps its type, whichever calls of bls    *)
(* fail and whenever it is interrupted.                                    *)
THEOREM BenchTypeCorrect == Spec => []TypeOK
BY BenchInvariant, PTL

(* A session that leaves no orphan has put every EPP back.                 *)
THEOREM EppIsRestored == Spec => []EppRestored
<1>1. BenchInv => EppRestored
  BY DEF BenchInv, EppSteps, EppRestored, Over
<1> QED BY <1>1, BenchInvariant, PTL

(* Every arm is measured under the EPPs it names.                          *)
THEOREM LabelIsKept == Spec => []LabelHolds
<1>1. BenchInv => LabelHolds
  BY DEF BenchInv, EppSteps, LabelHolds
<1> QED BY <1>1, BenchInvariant, PTL

(* Every arm without scx_bls is measured without it, but for a scheduler   *)
(* that has outlived the SIGKILL of its bls.                               *)
THEOREM EevdfIsAlone == Spec => []EevdfAlone
<1>1. BenchInv => EevdfAlone
  BY DEF BenchInv, BlsObeys, BlsInArm, Unfinished, EevdfAlone, Scheduled, bls_dead, L!Ended
<1> QED BY <1>1, BenchInvariant, PTL

(* A session that returns leaves no child behind that was not killed.      *)
THEOREM NothingIsLeft == Spec => []NothingLeft
<1>1. BenchInv => NothingLeft
  BY DEF BenchInv, BlsObeys, BlsInArm, Unfinished, NothingLeft, Scheduled, BlsWanted, bls_dead,
         L!Ended
<1> QED BY <1>1, BenchInvariant, PTL
=============================================================================
