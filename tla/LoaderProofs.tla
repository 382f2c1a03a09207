--------------------------- MODULE LoaderProofs ---------------------------
(***************************************************************************)
(* Proofs about Loader, for every number of CPUs, every partition and      *)
(* every set of EPP values.                                                *)
(***************************************************************************)
EXTENDS Loader, TLAPS

USE DEF BIG, LITTLE

LEMMA LoaderTypeStep == ASSUME TypeOK, [Next]_vars PROVE TypeOK'
<1> USE DEF env, eppVars, Goto, die, RestoreAndDie, Continue, Outcome, Place, Ended
<1>0. nr_cpus_online \in Nat /\ i \in Int
  BY CpuAssumption DEF TypeOK
<1>1. CASE save_epp
  <2>1. i \in CPU /\ i + 1 \in 0 .. nr_cpus_online
    BY <1>0, <1>1 DEF save_epp, TypeOK, CPU
  <2> QED BY <1>1, <2>1 DEF save_epp, TypeOK
<1>2. CASE apply_epp
  <2>1. i \in CPU /\ i + 1 \in 0 .. nr_cpus_online
    BY <1>0, <1>2 DEF apply_epp, TypeOK, CPU
  <2>2. Want(i) \in EPP
    BY EppAssumption DEF Want
  <2>3. CASE epp' = [epp EXCEPT ![i] = Want(i)] /\ i' = i + 1 /\ UNCHANGED <<pc, attached, status>>
    BY <1>2, <2>1, <2>2, <2>3 DEF apply_epp, TypeOK
  <2>4. CASE die /\ UNCHANGED epp
    <3>1. 0 \in 0 .. nr_cpus_online
      BY <1>0
    <3> QED BY <1>2, <2>4, <3>1 DEF apply_epp, TypeOK
  <2> QED BY <1>2, <2>3, <2>4 DEF apply_epp
<1>3. CASE restore_epp
  <2>1. i \in CPU /\ i + 1 \in 0 .. nr_cpus_online
    BY <1>0, <1>3 DEF restore_epp, TypeOK, CPU
  <2> QED BY <1>3, <2>1 DEF restore_epp, TypeOK
<1>4. 0 \in 0 .. nr_cpus_online
  BY <1>0
<1>5. CASE SaveDone \/ ApplyDone \/ Report \/ RestoreDone
  BY <1>4, <1>5 DEF SaveDone, ApplyDone, Report, RestoreDone, TypeOK
<1>6. CASE OpenSkeleton \/ LoadSkeleton \/ add_comm_rules
  BY <1>4, <1>6 DEF OpenSkeleton, LoadSkeleton, add_comm_rules, TypeOK
<1>7. CASE InstallHandlers \/ Attach \/ LoopBreak \/ LoopRound
  BY <1>4, <1>7 DEF InstallHandlers, Attach, LoopBreak, LoopRound, TypeOK
<1>8. CASE ReadStats \/ Detach
  BY <1>4, <1>8 DEF ReadStats, Detach, TypeOK
<1>9. CASE on_signal \/ DefaultSignal \/ Sigkill \/ Eject
  BY <1>4, <1>9 DEF on_signal, DefaultSignal, Sigkill, Eject, TypeOK
<1>10. CASE UNCHANGED vars
  BY <1>10 DEF vars, TypeOK
<1> QED BY <1>1, <1>2, <1>3, <1>5, <1>6, <1>7, <1>8, <1>9, <1>10
        DEF Next, MainStep, Over

(* Every variable of the loader keeps its type, whichever calls fail.      *)
THEOREM LoaderTypeCorrect == Spec => []TypeOK
<1>1. Init => TypeOK
  <2>1. 0 \in 0 .. nr_cpus_online
    BY CpuAssumption
  <2> QED BY <2>1, EppAssumption DEF Init, TypeOK, Place
<1>2. TypeOK /\ [Next]_vars => TypeOK'
  BY LoaderTypeStep
<1> QED BY <1>1, <1>2, PTL DEF Spec

-----------------------------------------------------------------------------
(* The handlers are installed before the scheduler is attached.            *)
HandlersFirst ==
    /\ pc \in {"attach", "loop", "stats", "detach"} => handlers
    /\ attached => pc \in {"loop", "stats", "detach"}

(* Once bls is attached no SIGINT or SIGTERM kills the loader outside its  *)
(* exit path, whichever calls fail.                                        *)
THEOREM SignalsAreCaught == Spec => SignalsCaught
<1> USE DEF env, eppVars, Goto, die, RestoreAndDie, Continue, Outcome
<1>1. Init => HandlersFirst
  BY DEF Init, HandlersFirst
<1>2. HandlersFirst /\ [Next]_vars => HandlersFirst'
  <2> SUFFICES ASSUME HandlersFirst, [Next]_vars PROVE HandlersFirst'
    OBVIOUS
  <2>1. CASE save_epp \/ apply_epp \/ restore_epp
    <3>1. CASE save_epp
      BY <3>1 DEF save_epp, HandlersFirst
    <3>2. CASE apply_epp
      BY <3>2 DEF apply_epp, HandlersFirst
    <3>3. CASE restore_epp
      BY <3>3 DEF restore_epp, HandlersFirst
    <3> QED BY <2>1, <3>1, <3>2, <3>3
  <2>2. CASE SaveDone \/ ApplyDone \/ Report \/ RestoreDone
    BY <2>2 DEF SaveDone, ApplyDone, Report, RestoreDone, HandlersFirst
  <2>3. CASE OpenSkeleton \/ LoadSkeleton \/ add_comm_rules
    BY <2>3 DEF OpenSkeleton, LoadSkeleton, add_comm_rules, HandlersFirst
  <2>4. CASE InstallHandlers \/ Attach \/ LoopBreak \/ LoopRound
    BY <2>4 DEF InstallHandlers, Attach, LoopBreak, LoopRound, HandlersFirst
  <2>5. CASE ReadStats \/ Detach
    BY <2>5 DEF ReadStats, Detach, HandlersFirst
  <2>6. CASE on_signal \/ DefaultSignal \/ Sigkill \/ Eject
    BY <2>6 DEF on_signal, DefaultSignal, Sigkill, Eject, HandlersFirst
  <2>7. CASE UNCHANGED vars
    BY <2>7 DEF vars, HandlersFirst
  <2> QED BY <2>1, <2>2, <2>3, <2>4, <2>5, <2>6, <2>7 DEF Next, MainStep, Over
<1>3. HandlersFirst /\ [Next]_vars => [attached => pc' # "terminated"]_vars
  <2> SUFFICES ASSUME HandlersFirst, Next, attached PROVE pc' # "terminated"
    OBVIOUS
  <2>1. pc \in {"loop", "stats", "detach"} /\ handlers
    BY DEF HandlersFirst
  <2>2. CASE MainStep
    BY <2>1, <2>2 DEF MainStep, save_epp, apply_epp, restore_epp, SaveDone, ApplyDone,
        Report, RestoreDone, OpenSkeleton, LoadSkeleton, add_comm_rules,
        InstallHandlers, Attach, LoopBreak, ReadStats, Detach
  <2>3. CASE ~MainStep
    BY <2>1, <2>3 DEF Next, LoopRound, on_signal, DefaultSignal, Sigkill, Eject, Over,
        Ended, vars
  <2> QED BY <2>2, <2>3
<1> QED BY <1>1, <1>2, <1>3, PTL DEF Spec, SignalsCaught

-----------------------------------------------------------------------------
(* Restored and PartitionHeld, when only recoverable calls fail            *)

LEMMA LoaderInvInit == Init => LoaderInv
<1> SUFFICES ASSUME Init PROVE LoaderInv
  OBVIOUS
<1>1. SavedFirst
  BY CpuAssumption DEF Init, SavedFirst, CPU
<1>2. EppProgress
  BY DEF Init, EppProgress, InForce
<1> QED BY <1>1, <1>2 DEF LoaderInv

LEMMA LoaderInvStep ==
    ASSUME TypeOK, TypeOK', LoaderInv, [Next]_vars, Faults \subseteq Recoverable
    PROVE  LoaderInv'
<1> USE DEF LoaderInv, env, eppVars, Goto, die, RestoreAndDie, Continue, Ended, InForce
<1>0. /\ nr_cpus_online \in Nat /\ i \in Int /\ i <= nr_cpus_online
      /\ CPU \subseteq Int
      /\ \A c \in CPU : c < nr_cpus_online
      /\ \A c \in CPU : c < i + 1 => c < i \/ c = i
      /\ \A c \in CPU : ~(c < 0)
  BY CpuAssumption DEF TypeOK, CPU
<1>F. /\ Outcome("read") = {TRUE} /\ Outcome("write") = {TRUE}
      /\ Outcome("rules") = {TRUE} /\ Outcome("stats") = {TRUE}
      /\ Outcome("restore") = {TRUE}
  BY DEF Outcome, Recoverable
<1>1. CASE save_epp
  <2>1. /\ epp_valid' = [epp_valid EXCEPT ![i] = TRUE]
        /\ epp_saved' = [epp_saved EXCEPT ![i] = epp[i]]
        /\ pc = "save" /\ i' = i + 1
        /\ UNCHANGED <<opt, initial, pc, epp, attached>>
    BY <1>1, <1>F DEF save_epp
  <2>2. SavedFirst'
    <3>1. epp = initial /\ epp' = initial'
      BY <2>1 DEF SavedFirst
    <3>2. \A c \in CPU : /\ epp_valid'[c] = IF c = i THEN TRUE ELSE epp_valid[c]
                         /\ epp_saved'[c] = IF c = i THEN initial[i] ELSE epp_saved[c]
      BY <2>1, <3>1 DEF TypeOK
    <3>3. \A c \in CPU : c < i + 1 => epp_valid'[c]
      BY <1>0, <2>1, <3>2 DEF SavedFirst
    <3>4. \A c \in CPU : epp_valid'[c] => epp_saved'[c] = initial[c]
      BY <3>2 DEF SavedFirst
    <3> QED BY <2>1, <3>1, <3>3, <3>4 DEF SavedFirst
  <2>3. EppProgress'
    BY <2>1 DEF EppProgress
  <2> QED BY <2>2, <2>3
<1>2. CASE SaveDone
  <2>1. SavedFirst'
    BY <1>0, <1>2 DEF SaveDone, SavedFirst
  <2>2. EppProgress'
    BY <1>0, <1>2 DEF SaveDone, SavedFirst, EppProgress, Want
  <2> QED BY <2>1, <2>2
<1>3. CASE apply_epp
  <2>1. /\ epp' = [epp EXCEPT ![i] = Want(i)]
        /\ pc = "apply" /\ i' = i + 1
        /\ UNCHANGED <<opt, initial, pc, epp_saved, epp_valid, attached>>
    BY <1>3, <1>F DEF apply_epp
  <2>2. SavedFirst'
    BY <2>1 DEF SavedFirst
  <2>3. EppProgress'
    <3>1. \A c \in CPU : epp'[c] = IF c = i THEN Want(c) ELSE epp[c]
      BY <2>1 DEF TypeOK
    <3>2. \A c \in CPU : c < i + 1 => epp'[c] = Want(c)
      BY <1>0, <2>1, <3>1 DEF EppProgress
    <3>3. \A c \in CPU : Want(c)' = Want(c)
      BY <2>1 DEF Want
    <3> QED BY <2>1, <3>2, <3>3 DEF EppProgress
  <2> QED BY <2>2, <2>3
<1>4. CASE ApplyDone
  <2>1. SavedFirst'
    BY <1>4 DEF ApplyDone, SavedFirst
  <2>2. EppProgress'
    BY <1>0, <1>4 DEF ApplyDone, EppProgress, Want
  <2> QED BY <2>1, <2>2
<1>5. CASE Report
  <2>1. SavedFirst'
    BY <1>5 DEF Report, SavedFirst
  <2>2. EppProgress'
    BY <1>0, <1>5 DEF Report, EppProgress, Want
  <2> QED BY <2>1, <2>2
<1>6. CASE OpenSkeleton \/ LoadSkeleton
  <2>1. SavedFirst'
    BY <1>6 DEF OpenSkeleton, LoadSkeleton, SavedFirst
  <2>2. EppProgress'
    BY <1>0, <1>6 DEF OpenSkeleton, LoadSkeleton, EppProgress, Want
  <2> QED BY <2>1, <2>2
<1>7. CASE add_comm_rules
  <2>1. /\ pc = "rules" /\ pc' = "handlers"
        /\ UNCHANGED <<opt, initial, eppVars, attached>>
    BY <1>7, <1>F DEF add_comm_rules
  <2>2. SavedFirst'
    BY <2>1 DEF SavedFirst
  <2>3. EppProgress'
    BY <2>1 DEF EppProgress, Want
  <2> QED BY <2>2, <2>3
<1>8. CASE InstallHandlers
  <2>1. SavedFirst'
    BY <1>8 DEF InstallHandlers, SavedFirst
  <2>2. EppProgress'
    BY <1>8 DEF InstallHandlers, EppProgress, Want
  <2> QED BY <2>1, <2>2
<1>9. CASE Attach
  <2>1. SavedFirst'
    BY <1>9 DEF Attach, SavedFirst
  <2>2. EppProgress'
    BY <1>0, <1>9 DEF Attach, EppProgress, Want
  <2> QED BY <2>1, <2>2
<1>10. CASE LoopBreak
  <2>1. SavedFirst'
    BY <1>10 DEF LoopBreak, SavedFirst
  <2>2. EppProgress'
    BY <1>10 DEF LoopBreak, EppProgress, Want
  <2> QED BY <2>1, <2>2
<1>11. CASE LoopRound
  <2>1. /\ pc = "loop" /\ pc' = "loop"
        /\ UNCHANGED <<opt, initial, eppVars, attached>>
    BY <1>11, <1>F DEF LoopRound
  <2>2. SavedFirst'
    BY <2>1 DEF SavedFirst
  <2>3. EppProgress'
    BY <2>1 DEF EppProgress, Want
  <2> QED BY <2>2, <2>3
<1>12. CASE ReadStats
  <2>1. /\ pc = "stats" /\ pc' = "detach"
        /\ UNCHANGED <<opt, initial, eppVars, attached>>
    BY <1>12, <1>F DEF ReadStats
  <2>2. SavedFirst'
    BY <2>1 DEF SavedFirst
  <2>3. EppProgress'
    BY <2>1 DEF EppProgress, Want
  <2> QED BY <2>2, <2>3
<1>13. CASE Detach
  <2>1. SavedFirst'
    BY <1>13 DEF Detach, SavedFirst
  <2>2. EppProgress'
    BY <1>0, <1>13 DEF Detach, EppProgress, Want
  <2> QED BY <2>1, <2>2
<1>14. CASE restore_epp
  <2>0. i \in CPU
    BY <1>0, <1>14 DEF restore_epp, TypeOK, CPU
  <2>1. epp_valid[i] /\ epp_saved[i] = initial[i]
    BY <1>14, <2>0 DEF restore_epp, SavedFirst
  <2>2. /\ epp' = [epp EXCEPT ![i] = initial[i]]
        /\ pc = "restore" /\ i' = i + 1
        /\ UNCHANGED <<opt, initial, pc, epp_saved, epp_valid, attached>>
    BY <1>14, <1>F, <2>1 DEF restore_epp
  <2>3. SavedFirst'
    BY <2>2 DEF SavedFirst
  <2>4. EppProgress'
    <3>1. \A c \in CPU : epp'[c] = IF c = i THEN initial[c] ELSE epp[c]
      BY <2>2 DEF TypeOK
    <3>2. \A c \in CPU : c < i + 1 => epp'[c] = initial[c]
      BY <1>0, <2>2, <3>1 DEF EppProgress
    <3> QED BY <2>2, <3>2 DEF EppProgress
  <2> QED BY <2>3, <2>4
<1>15. CASE RestoreDone
  <2>1. SavedFirst'
    BY <1>15 DEF RestoreDone, SavedFirst
  <2>2. \A c \in CPU : epp[c] = initial[c]
    BY <1>0, <1>15 DEF RestoreDone, EppProgress
  <2>3. epp = initial
    BY <2>2 DEF TypeOK
  <2>4. EppProgress'
    BY <1>15, <2>3 DEF RestoreDone, EppProgress
  <2> QED BY <2>1, <2>4
<1>16. CASE on_signal \/ Eject
  <2>1. UNCHANGED <<opt, initial, pc, i, eppVars>>
    BY <1>16 DEF on_signal, Eject
  <2>2. attached' => attached
    BY <1>16 DEF on_signal, Eject
  <2>3. SavedFirst'
    BY <2>1 DEF SavedFirst
  <2>4. EppProgress'
    BY <2>1, <2>2 DEF EppProgress, Want
  <2> QED BY <2>3, <2>4
<1>17. CASE DefaultSignal \/ Sigkill
  <2>1. SavedFirst'
    BY <1>17 DEF DefaultSignal, Sigkill, SavedFirst
  <2>2. EppProgress'
    BY <1>17 DEF DefaultSignal, Sigkill, EppProgress
  <2> QED BY <2>1, <2>2
<1>18. CASE UNCHANGED vars
  <2>1. SavedFirst'
    BY <1>18 DEF vars, SavedFirst
  <2>2. EppProgress'
    BY <1>18 DEF vars, EppProgress, Want
  <2> QED BY <2>1, <2>2
<1> QED BY <1>1, <1>2, <1>3, <1>4, <1>5, <1>6, <1>7, <1>8, <1>9, <1>10, <1>11,
           <1>12, <1>13, <1>14, <1>15, <1>16, <1>17, <1>18
        DEF Next, MainStep, Over

(* When only open, load or attach can fail, a loader that ends by itself   *)
(* and without --persist has put every EPP back, for any number of CPUs    *)
(* and whenever a signal or an ejection came.                              *)
THEOREM RestoredHolds ==
    ASSUME Faults \subseteq Recoverable
    PROVE  Spec => []Restored
<1>1. TypeOK /\ TypeOK' /\ LoaderInv /\ [Next]_vars => LoaderInv'
  BY LoaderInvStep
<1>2. LoaderInv => Restored
  BY DEF LoaderInv, EppProgress, Restored
<1> QED BY <1>1, <1>2, LoaderInvInit, LoaderTypeCorrect, PTL DEF Spec

(* Under the same condition, every CPU has the EPP of its domain for as    *)
(* long as bls schedules the machine, unless --no-epp was given.           *)
THEOREM PartitionIsHeld ==
    ASSUME Faults \subseteq Recoverable
    PROVE  Spec => []PartitionHeld
<1>1. TypeOK /\ TypeOK' /\ LoaderInv /\ [Next]_vars => LoaderInv'
  BY LoaderInvStep
<1>2. LoaderInv => PartitionHeld
  BY DEF LoaderInv, EppProgress, PartitionHeld, InForce
<1> QED BY <1>1, <1>2, LoaderInvInit, LoaderTypeCorrect, PTL DEF Spec
=============================================================================
