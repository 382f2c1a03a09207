-------------------------- MODULE PlacementProofs --------------------------
(***************************************************************************)
(* Where BlsSched puts tasks while nobody calls sched_setaffinity: claimed *)
(* CPUs are never forgotten and --strict is never broken.  With affinity   *)
(* changes this does not hold, because pick_idle_in_dom may claim a        *)
(* previous CPU that the task must not use any more.                       *)
(***************************************************************************)
EXTENDS BlsSchedProofs

(* A task belongs to a CPU it may use.                                     *)
CpuAllowed == \A t \in Task : tcpu[t] \in allowed[t]

(* With --strict a task on, or on its way to, a local DSQ is on a CPU of   *)
(* its domain.                                                             *)
StrictPlace == \A t \in Task :
    strict_domains /\ tstate[t] \in {"direct", "local"} => domain[t] = dom_of_cpu(tcpu[t])

(* The inductive invariant, together with TypeOK and OnePlace.             *)
PlaceInv == CpuAllowed /\ StrictPlace /\ ClaimAccounted

USE DEF taskVars, ctxVars, cpuVars

-----------------------------------------------------------------------------
(* Facts about the callbacks                                               *)

(* A CPU that was picked is in the domain that was asked for.              *)
LEMMA IdleInDom ==
    ASSUME TypeOK, NEW d, NEW mask, IdleIn(d, mask) # {}
    PROVE  dom_of_cpu(Min(IdleIn(d, mask))) = d
<1>0. idle \subseteq CPU /\ CPU \subseteq Nat
  BY CpuAssumption DEF TypeOK, CPU
<1>1. IdleIn(d, mask) \subseteq Nat
  BY <1>0 DEF IdleIn
<1> QED BY <1>1, MinInSet DEF IdleIn

LEMMA OwnIdleProps ==
    ASSUME TypeOK, CpuAllowed, NEW t \in Task, OwnIdle(t) # NoCpu
    PROVE  /\ OwnIdle(t) \in idle \cap CPU /\ OwnIdle(t) \in allowed[t]
           /\ dom_of_cpu(OwnIdle(t)) = domain[t]
<1>1. OwnIdle(t) \in idle /\ OwnIdle(t) \in allowed[t] \cup {tcpu[t]}
  BY PickProps DEF OwnIdle
<1>2. dom_of_cpu(OwnIdle(t)) = domain[t]
  BY IdleInDom DEF OwnIdle, pick_idle_in_dom
<1> QED BY <1>1, <1>2 DEF CpuAllowed, TypeOK

LEMMA SpillIdleProps ==
    ASSUME TypeOK, NEW t \in Task, SpillIdle(t) # NoCpu
    PROVE  /\ SpillIdle(t) \in idle \cap CPU /\ SpillIdle(t) \in allowed[t]
           /\ ~strict_domains
<1>1. ~strict_domains
  BY DEF SpillIdle
<1>2. SpillIdle(t) = pick_idle_in_dom(t, OtherDomain(domain[t]), NoCpu)
  BY <1>1 DEF SpillIdle
<1>3. SpillIdle(t) \in idle /\ SpillIdle(t) \in allowed[t] \cup {NoCpu}
  BY <1>2, PickProps
<1> QED BY <1>1, <1>3 DEF TypeOK

(* The task bls_dispatch moves waited on a DSQ, may use the CPU, and with  *)
(* --strict is of its domain.                                              *)
LEMMA DispatchMoves ==
    ASSUME TypeOK, OnePlace, NEW c \in CPU, NEW ts, NEW S, bls_dispatch(c, ts, S)
    PROVE  \/ tstate' = ts /\ UNCHANGED tcpu
           \/ \E t \in Task :
                /\ tstate[t] = "dsq" /\ c \in allowed[t]
                /\ tstate' = [ts EXCEPT ![t] = "local"]
                /\ tcpu' = [tcpu EXCEPT ![t] = c]
                /\ strict_domains => domain[t] = dom_of_cpu(c)
<1>1. CASE local[c] # <<>> \/ DispatchFrom(c) = NoDsq
  BY <1>1 DEF bls_dispatch
<1>2. CASE local[c] = <<>> /\ DispatchFrom(c) # NoDsq
  <2> DEFINE d == DispatchFrom(c)
             i == Min(Eligible(c, d))
             t == dsq[d][i]
  <2>1. /\ d \in Domain /\ i \in 1 .. Len(dsq[d])
        /\ t \in Task /\ c \in allowed[t]
    BY <1>2, DispatchProps
  <2>2. /\ tstate' = [ts EXCEPT ![t] = "local"]
        /\ tcpu' = [tcpu EXCEPT ![t] = c]
    BY <1>2 DEF bls_dispatch
  <2>3. strict_domains => d = dom_of_cpu(c)
    BY <1>2, DsqIsDomain, DomOfCpuType DEF DispatchFrom
  <2> HIDE DEF d, i
  <2>4. t \in ToSet(dsq[d])
    BY <2>1 DEF ToSet
  <2>5. tstate[t] = "dsq" /\ domain[t] = d
    BY <2>1, <2>4 DEF OnePlace, DsqHolds
  <2> HIDE DEF t
  <2> QED BY <2>1, <2>2, <2>3, <2>5
<1> QED BY <1>1, <1>2

-----------------------------------------------------------------------------
(* The shape of a step: who leaves and who enters "direct" and "local"     *)

(* A claim survives a step that keeps or accounts for every CPU and lets   *)
(* no task leave "direct" unless its CPU is woken.                         *)
LEMMA ClaimKept ==
    ASSUME ClaimAccounted,
           \A c \in CPU : c \notin idle' /\ Asleep(c)' => c \notin idle /\ Asleep(c),
           \A t \in Task : tstate[t] = "direct" =>
               tstate'[t] = "direct" /\ tcpu'[t] = tcpu[t]
    PROVE  ClaimAccounted'
  BY DEF ClaimAccounted, WakeupUnderWay

LEMMA WakePlace ==
    ASSUME TypeOK, PlaceInv, NEW t \in Task, CanWake(t),
           NEW cpu \in CPU, cpu \in allowed[t], NEW st \in {"direct", "enqueue"},
           WakeTo(t, cpu, st),
           \/ st = "enqueue" /\ UNCHANGED idle
           \/ /\ st = "direct" /\ idle' = idle \ {cpu}
              /\ strict_domains => domain[t] = dom_of_cpu(cpu)
    PROVE  PlaceInv'
<1>1. /\ tstate[t] = "asleep" /\ tcpu' = [tcpu EXCEPT ![t] = cpu]
      /\ tstate' = [tstate EXCEPT ![t] = st]
      /\ UNCHANGED <<allowed, domain, curr, insched, kicked>>
  BY DEF CanWake, WakeTo, Landing
<1>2. /\ tstate'[t] = st /\ tcpu'[t] = cpu
      /\ \A u \in Task \ {t} : tstate'[u] = tstate[u] /\ tcpu'[u] = tcpu[u]
  BY <1>1 DEF TypeOK
<1>3. CpuAllowed'
  BY <1>1, <1>2 DEF PlaceInv, CpuAllowed
<1>4. StrictPlace'
  BY <1>1, <1>2 DEF PlaceInv, StrictPlace, dom_of_cpu
<1>5. ClaimAccounted'
  <2>1. SUFFICES ASSUME NEW c \in CPU, c \notin idle', Asleep(c)'
                 PROVE  \E u \in Task : tstate'[u] = "direct" /\ tcpu'[u] = c
    BY DEF ClaimAccounted, WakeupUnderWay
  <2>2. Asleep(c)
    BY <1>1, <2>1 DEF Asleep
  <2>3. CASE c \notin idle
    <3>1. PICK u \in Task : tstate[u] = "direct" /\ tcpu[u] = c
      BY <2>2, <2>3 DEF PlaceInv, ClaimAccounted, WakeupUnderWay
    <3> QED BY <1>1, <1>2, <3>1
  <2>4. CASE c \in idle
    BY <1>2, <2>1, <2>4
  <2> QED BY <2>3, <2>4
<1> QED BY <1>3, <1>4, <1>5 DEF PlaceInv

(* A pick on CPU c.                                                        *)
LEMMA PickPlace ==
    ASSUME TypeOK, OnePlace, PlaceInv, NEW c \in CPU, NEW ts, NEW S,
           EnterSchedule(c), bls_dispatch(c, ts, S), ts \in [Task -> TaskState],
           \A u \in Task : \/ ts[u] = tstate[u] /\ domain'[u] = domain[u]
                           \/ u = curr[c] /\ ts[u] = "asleep"
    PROVE  PlaceInv'
<1>1. /\ c \notin insched /\ insched' = insched \cup {c}
      /\ kicked' = kicked \ {c}
      /\ UNCHANGED <<allowed, curr, idle>>
  BY DEF EnterSchedule
<1>2. \A u \in Task : u = curr[c] => tstate[u] = "running"
  BY <1>1, TaskAssumption DEF OnePlace, CurrentRuns
<1>3. \A x \in CPU : x \notin idle' /\ Asleep(x)' => x \notin idle /\ Asleep(x)
  BY <1>1 DEF Asleep
<1>4. CASE tstate' = ts /\ UNCHANGED tcpu
  <2>1. CpuAllowed' /\ StrictPlace'
    BY <1>1, <1>4 DEF PlaceInv, CpuAllowed, StrictPlace, dom_of_cpu
  <2>2. \A t \in Task : tstate[t] = "direct" => tstate'[t] = "direct" /\ tcpu'[t] = tcpu[t]
    BY <1>2, <1>4
  <2> QED BY <1>3, <2>1, <2>2, ClaimKept DEF PlaceInv
<1>5. ASSUME NEW t \in Task, tstate[t] = "dsq", c \in allowed[t],
             tstate' = [ts EXCEPT ![t] = "local"], tcpu' = [tcpu EXCEPT ![t] = c],
             strict_domains => domain[t] = dom_of_cpu(c)
      PROVE  PlaceInv'
  <2>1. /\ tstate'[t] = "local" /\ tcpu'[t] = c /\ domain'[t] = domain[t]
        /\ \A u \in Task \ {t} : tstate'[u] = ts[u] /\ tcpu'[u] = tcpu[u]
    BY <1>2, <1>5 DEF TypeOK
  <2>2. CpuAllowed'
    BY <1>1, <1>5, <2>1 DEF PlaceInv, CpuAllowed
  <2>3. StrictPlace'
    BY <1>5, <2>1 DEF PlaceInv, StrictPlace, dom_of_cpu
  <2>4. \A u \in Task : tstate[u] = "direct" => tstate'[u] = "direct" /\ tcpu'[u] = tcpu[u]
    BY <1>2, <1>5, <2>1
  <2> QED BY <1>3, <2>2, <2>3, <2>4, ClaimKept DEF PlaceInv
<1> QED BY <1>4, <1>5, DispatchMoves

(* The end of a switch: its CPU runs or is idle in the mask, and the task  *)
(* it runs comes from its local DSQ.                                       *)
LEMMA SetNextPlace ==
    ASSUME TypeOK, OnePlace, PlaceInv, NEW c \in CPU, c \in insched,
           NEW ts \in [Task -> TaskState], NEW claim, SetNext(c, ts, claim),
           \A u \in Task : \/ ts[u] = tstate[u] /\ domain'[u] = domain[u]
                           \/ tstate[u] = "running" /\ ts[u] = "dsq",
           kicked' = kicked \cup claim
    PROVE  /\ PlaceInv'
           /\ \A x \in CPU : strict_domains /\ curr'[x] \notin {curr[x], NoTask}
                => domain'[curr'[x]] = dom_of_cpu(x)
<1>1. /\ UNCHANGED <<allowed, tcpu>> /\ insched' = insched \ {c}
      /\ curr' = [curr EXCEPT ![c] = NextTask(c)]
  BY DEF SetNext
<1>2. \A x \in CPU : curr'[x] = IF x = c THEN NextTask(c) ELSE curr[x]
  BY <1>1 DEF TypeOK
<1>3. CpuAllowed'
  BY <1>1 DEF PlaceInv, CpuAllowed
<1>4. \A u \in Task : tstate[u] = "direct" => ts[u] = "direct"
  OBVIOUS
<1>5. CASE local[c] = <<>>
  <2>1. tstate' = ts /\ idle' = (idle \ claim) \cup {c} /\ NextTask(c) = NoTask
    BY <1>5 DEF SetNext, NextTask
  <2>2. StrictPlace'
    BY <1>1, <2>1 DEF PlaceInv, StrictPlace, dom_of_cpu
  <2>3. \A x \in CPU : x \notin idle' /\ Asleep(x)' => x \notin idle /\ Asleep(x)
    BY <1>1, <1>2, <2>1 DEF Asleep
  <2>4. ClaimAccounted'
    BY <1>1, <1>4, <2>1, <2>3, ClaimKept DEF PlaceInv
  <2> QED BY <1>2, <1>3, <2>1, <2>2, <2>4 DEF PlaceInv
<1>6. CASE local[c] # <<>>
  <2> DEFINE n == Head(local[c])
  <2>1. n \in Task /\ n \in ToSet(local[c])
    BY <1>6, TailQueue DEF OnePlace, QueuesDistinct, TypeOK
  <2>2. n # NoTask /\ NextTask(c) = n
    BY <1>6, <2>1, TaskAssumption DEF NextTask
  <2>3. /\ tstate' = [ts EXCEPT ![n] = "running"]
        /\ idle' = idle \ (claim \cup {c})
    BY <2>2 DEF SetNext
  <2> HIDE DEF n
  <2>4. tstate[n] = "local" /\ tcpu[n] = c
    BY <2>1 DEF OnePlace, LocalHolds
  <2>5. /\ tstate'[n] = "running" /\ domain'[n] = domain[n]
        /\ \A u \in Task \ {n} : tstate'[u] = ts[u]
    BY <2>1, <2>3, <2>4
  <2>6. StrictPlace'
    BY <1>1, <2>5 DEF PlaceInv, StrictPlace, dom_of_cpu
  <2>7. \A x \in CPU : x \notin idle' /\ Asleep(x)' => x \notin idle /\ Asleep(x)
    BY <1>1, <1>2, <2>2, <2>3 DEF Asleep
  <2>8. ClaimAccounted'
    BY <1>1, <1>4, <2>4, <2>5, <2>7, ClaimKept DEF PlaceInv
  <2>9. strict_domains => domain'[n] = dom_of_cpu(c)
    BY <2>1, <2>4, <2>5 DEF PlaceInv, StrictPlace
  <2> QED BY <1>2, <1>3, <2>2, <2>6, <2>8, <2>9 DEF PlaceInv
<1> QED BY <1>5, <1>6

-----------------------------------------------------------------------------
(* The steps                                                               *)

LEMMA TaskStepPlace ==
    ASSUME ~AffinityChanges, TypeOK, OnePlace, PlaceInv, NEW t \in Task, TaskStep(t)
    PROVE  PlaceInv' /\ UNCHANGED curr
<1>0. UNCHANGED curr
  BY DEF TaskStep, bls_init_task, TaskFree, SelectOwn, SelectSpill, SelectPrev, WakeBound,
         WakeTo, ActivateDirect, ActivateEnqueue, SetAffinityAsleep, ChangeQueued, bls_exit
<1>1. CASE bls_init_task(t) \/ TaskFree(t)
  <2>1. /\ tstate[t] \in {"absent", "asleep"}
        /\ UNCHANGED <<curr, insched, idle, kicked>>
    BY <1>1 DEF bls_init_task, TaskFree
  <2>2. PICK st \in {"absent", "asleep"}, m \in SUBSET CPU, k \in CPU :
          /\ k \in m
          /\ tstate' = [tstate EXCEPT ![t] = st]
          /\ allowed' = [allowed EXCEPT ![t] = m]
          /\ tcpu' = [tcpu EXCEPT ![t] = k]
    <3>1. CASE bls_init_task(t)
      BY <3>1, MaskProps DEF bls_init_task
    <3>2. CASE TaskFree(t)
      <4>1. 0 \in CPU
        BY CpuAssumption DEF CPU
      <4> QED BY <3>2, <4>1 DEF TaskFree
    <3> QED BY <1>1, <3>1, <3>2
  <2>3. /\ tstate'[t] = st /\ allowed'[t] = m /\ tcpu'[t] = k
        /\ \A u \in Task \ {t} :
             /\ tstate'[u] = tstate[u] /\ allowed'[u] = allowed[u]
             /\ tcpu'[u] = tcpu[u] /\ domain'[u] = domain[u]
    BY <1>1, <2>2 DEF bls_init_task, TaskFree, TypeOK
  <2>4. CpuAllowed' /\ StrictPlace'
    BY <2>2, <2>3 DEF PlaceInv, CpuAllowed, StrictPlace, dom_of_cpu
  <2>5. ClaimAccounted'
    <3>1. \A c \in CPU : c \notin idle' /\ Asleep(c)' => c \notin idle /\ Asleep(c)
      BY <2>1 DEF Asleep
    <3> QED BY <2>1, <2>3, <3>1, ClaimKept DEF PlaceInv
  <2> QED BY <1>0, <2>4, <2>5 DEF PlaceInv
<1>2. CASE SelectOwn(t)
  <2>1. /\ OwnIdle(t) \in CPU /\ OwnIdle(t) \in allowed[t]
        /\ dom_of_cpu(OwnIdle(t)) = domain[t]
    BY <1>2, OwnIdleProps DEF SelectOwn, PlaceInv
  <2> QED BY <1>0, <1>2, <2>1, WakePlace DEF SelectOwn
<1>3. CASE SelectSpill(t)
  <2>1. SpillIdle(t) \in CPU /\ SpillIdle(t) \in allowed[t] /\ ~strict_domains
    BY <1>3, SpillIdleProps DEF SelectSpill
  <2> QED BY <1>0, <1>3, <2>1, WakePlace DEF SelectSpill
<1>4. CASE SelectPrev(t)
  <2>1. tcpu[t] \in CPU /\ tcpu[t] \in allowed[t]
    BY DEF TypeOK, PlaceInv, CpuAllowed
  <2> QED BY <1>0, <1>4, <2>1, WakePlace DEF SelectPrev
<1>5. CASE WakeBound(t)
  <2>1. PICK c \in allowed[t] : WakeTo(t, c, "enqueue")
    BY <1>5 DEF WakeBound
  <2>2. c \in CPU
    BY DEF TypeOK
  <2> QED BY <1>0, <1>5, <2>1, <2>2, WakePlace DEF WakeBound
<1>6. CASE ActivateDirect(t)
  <2>1. /\ tstate[t] = "direct" /\ tstate' = [tstate EXCEPT ![t] = "local"]
        /\ kicked' = kicked \cup Preempted(tcpu[t])
        /\ UNCHANGED <<allowed, tcpu, domain, curr, insched, idle>>
    BY <1>6 DEF ActivateDirect
  <2>2. /\ tstate'[t] = "local"
        /\ \A u \in Task \ {t} : tstate'[u] = tstate[u]
    BY <2>1 DEF TypeOK
  <2>3. CpuAllowed' /\ StrictPlace'
    BY <2>1, <2>2 DEF PlaceInv, CpuAllowed, StrictPlace, dom_of_cpu
  <2>4. ClaimAccounted'
    <3>1. SUFFICES ASSUME NEW c \in CPU, c \notin idle', Asleep(c)'
                   PROVE  \E u \in Task : tstate'[u] = "direct" /\ tcpu'[u] = c
      BY DEF ClaimAccounted, WakeupUnderWay
    <3>2. c \notin idle /\ Asleep(c)
      BY <2>1, <3>1 DEF Asleep
    <3>3. PICK u \in Task : tstate[u] = "direct" /\ tcpu[u] = c
      BY <3>2 DEF PlaceInv, ClaimAccounted, WakeupUnderWay
    <3>4. u # t
      BY <2>1, <3>1, <3>3 DEF Preempted, Asleep
    <3> QED BY <2>1, <2>2, <3>3, <3>4
  <2> QED BY <1>0, <2>3, <2>4 DEF PlaceInv
<1>7. CASE ActivateEnqueue(t)
  <2>1. PICK claim :
          /\ idle' = idle \ claim
          /\ kicked' = kicked \cup claim \cup Preempted(tcpu[t])
    BY <1>7 DEF ActivateEnqueue
  <2>2. /\ tstate[t] = "enqueue" /\ tstate' = [tstate EXCEPT ![t] = "dsq"]
        /\ UNCHANGED <<allowed, tcpu, domain, curr, insched>>
    BY <1>7 DEF ActivateEnqueue
  <2>3. /\ tstate'[t] = "dsq"
        /\ \A u \in Task \ {t} : tstate'[u] = tstate[u]
    BY <2>2 DEF TypeOK
  <2>4. CpuAllowed' /\ StrictPlace'
    BY <2>2, <2>3 DEF PlaceInv, CpuAllowed, StrictPlace, dom_of_cpu
  <2>5. \A c \in CPU : c \notin idle' /\ Asleep(c)' => c \notin idle /\ Asleep(c)
    BY <2>1, <2>2 DEF Asleep
  <2>6. ClaimAccounted'
    BY <2>2, <2>3, <2>5, ClaimKept DEF PlaceInv
  <2> QED BY <1>0, <2>4, <2>6 DEF PlaceInv
<1>8. CASE bls_exit(t)
  <2>1. UNCHANGED <<tstate, allowed, tcpu, domain, curr, insched, idle, kicked>>
    BY <1>8 DEF bls_exit
  <2> QED BY <1>0, <2>1 DEF PlaceInv, CpuAllowed, StrictPlace, ClaimAccounted,
                           Asleep, WakeupUnderWay, dom_of_cpu
<1>9. CASE ChangeQueued(t)
  <2>1. PICK claim, moved :
          /\ allowed' = [allowed EXCEPT ![t] = allowed[t]]
          /\ tcpu' = [tcpu EXCEPT ![t] = tcpu[t]]
          /\ idle' = idle \ claim
          /\ kicked' = kicked \cup claim \cup moved
    <3>1. MaskAfter(t) = {allowed[t]} /\ tcpu[t] \in allowed[t]
      BY DEF MaskAfter, PlaceInv, CpuAllowed
    <3>2. PICK m \in MaskAfter(t) : \E c \in (IF tcpu[t] \in m THEN {tcpu[t]} ELSE m) :
            /\ allowed' = [allowed EXCEPT ![t] = m]
            /\ tcpu' = [tcpu EXCEPT ![t] = c]
            /\ idle' = idle \ kick_idle_in_dom(domain[t], m)
            /\ kicked' = kicked \cup kick_idle_in_dom(domain[t], m)
                                \cup (IF c = tcpu[t] THEN {} ELSE Preempted(c))
      BY <1>9 DEF ChangeQueued
    <3> QED BY <3>1, <3>2
  <2>2. /\ tstate[t] \in {"dsq", "local"} /\ tstate' = [tstate EXCEPT ![t] = "dsq"]
        /\ UNCHANGED <<domain, curr, insched>>
    BY <1>9 DEF ChangeQueued
  <2>3. UNCHANGED <<allowed, tcpu>>
    BY <2>1 DEF TypeOK
  <2>4. /\ tstate'[t] = "dsq"
        /\ \A u \in Task \ {t} : tstate'[u] = tstate[u]
    BY <2>2 DEF TypeOK
  <2>5. CpuAllowed' /\ StrictPlace'
    BY <2>2, <2>3, <2>4 DEF PlaceInv, CpuAllowed, StrictPlace, dom_of_cpu
  <2>6. \A x \in CPU : x \notin idle' /\ Asleep(x)' => x \notin idle /\ Asleep(x)
    BY <2>1, <2>2 DEF Asleep
  <2>7. ClaimAccounted'
    BY <2>2, <2>3, <2>4, <2>6, ClaimKept DEF PlaceInv
  <2> QED BY <1>0, <2>5, <2>7 DEF PlaceInv
<1> QED BY <1>1, <1>2, <1>3, <1>4, <1>5, <1>6, <1>7, <1>8, <1>9
        DEF TaskStep, SetAffinityAsleep

LEMMA CpuStepPlace ==
    ASSUME ~AffinityChanges, TypeOK, OnePlace, PlaceInv, NEW c \in CPU, CpuStep(c)
    PROVE  /\ PlaceInv'
           /\ \A x \in CPU : strict_domains /\ curr'[x] \notin {curr[x], NoTask}
                => domain'[curr'[x]] = dom_of_cpu(x)
<1>0. tstate \in [Task -> TaskState]
  BY DEF TypeOK
<1>1. CASE IdleResched(c) \/ SliceEnd(c)
  <2>1. /\ EnterSchedule(c) /\ bls_dispatch(c, tstate, {})
        /\ UNCHANGED <<domain, curr>>
    BY <1>1 DEF IdleResched, SliceEnd, EnterSchedule
  <2> QED BY <1>0, <2>1, PickPlace
<1>2. CASE Block(c)
  <2>1. PICK delta \in Deltas :
          /\ bls_stopping(curr[c], delta)
          /\ bls_dispatch(c, [tstate EXCEPT ![curr[c]] = "asleep"],
                          ReclassifyStats(curr[c], delta))
    BY <1>2 DEF Block
  <2> DEFINE ts == [tstate EXCEPT ![curr[c]] = "asleep"]
  <2>2. EnterSchedule(c) /\ curr[c] \in Task /\ UNCHANGED curr
    BY <1>2 DEF Block, TypeOK, EnterSchedule
  <2>3. /\ ts \in [Task -> TaskState] /\ ts[curr[c]] = "asleep"
        /\ \A u \in Task \ {curr[c]} : ts[u] = tstate[u] /\ domain'[u] = domain[u]
    BY <2>1, <2>2 DEF TypeOK, TaskState, bls_stopping
  <2>4. PICK S : bls_dispatch(c, ts, S)
    BY <2>1
  <2> HIDE DEF ts
  <2> QED BY <2>2, <2>3, <2>4, PickPlace
<1>3. CASE Switch(c)
  <2>1. /\ c \in insched /\ SetNext(c, tstate, {})
        /\ UNCHANGED <<domain, kicked>>
    BY <1>3 DEF Switch
  <2> QED BY <1>0, <2>1, SetNextPlace
<1>4. CASE SwitchPreempt(c)
  <2> DEFINE p == curr[c]
             ts == [tstate EXCEPT ![p] = "dsq"]
  <2>1. PICK delta \in Deltas :
          /\ bls_stopping(p, delta)
          /\ \E claim : /\ kicked' = kicked \cup claim
                        /\ SetNext(c, ts, claim)
    BY <1>4 DEF SwitchPreempt
  <2>2. c \in insched /\ p \in Task /\ tstate[p] = "running"
    BY <1>4 DEF SwitchPreempt, StillRunnable, TypeOK
  <2>3. /\ ts \in [Task -> TaskState] /\ ts[p] = "dsq"
        /\ \A u \in Task \ {p} : ts[u] = tstate[u] /\ domain'[u] = domain[u]
    BY <2>1, <2>2 DEF TypeOK, TaskState, bls_stopping
  <2>4. \A u \in Task : \/ ts[u] = tstate[u] /\ domain'[u] = domain[u]
                        \/ tstate[u] = "running" /\ ts[u] = "dsq"
    BY <2>2, <2>3
  <2>5. PICK claim : kicked' = kicked \cup claim /\ SetNext(c, ts, claim)
    BY <2>1
  <2> HIDE DEF ts
  <2> QED BY <2>2, <2>3, <2>4, <2>5, SetNextPlace
<1>5. CASE ChangeRunning(c)
  <2>1. /\ curr[c] # NoTask /\ c \notin insched
        /\ UNCHANGED <<tstate, tcpu, curr, insched, idle, kicked>>
    BY <1>5 DEF ChangeRunning
  <2>2. curr[c] \in Task /\ tstate[curr[c]] = "running"
    BY <2>1 DEF OnePlace, CurrentRuns, TypeOK
  <2>3. \A u \in Task \ {curr[c]} : domain'[u] = domain[u]
    BY <1>5 DEF ChangeRunning, bls_stopping, TypeOK
  <2>4. \A u \in Task : allowed'[u] = allowed[u]
    BY <1>5 DEF ChangeRunning, MaskAfter, TypeOK
  <2>5. CpuAllowed' /\ StrictPlace'
    BY <2>1, <2>2, <2>3, <2>4 DEF PlaceInv, CpuAllowed, StrictPlace, dom_of_cpu
  <2>6. ClaimAccounted'
    BY <2>1 DEF PlaceInv, ClaimAccounted, Asleep, WakeupUnderWay
  <2> QED BY <2>1, <2>5, <2>6 DEF PlaceInv
<1> QED BY <1>1, <1>2, <1>3, <1>4, <1>5 DEF CpuStep

LEMMA NextPlace ==
    ASSUME ~AffinityChanges, TypeOK, OnePlace, PlaceInv, [Next]_vars
    PROVE  /\ PlaceInv'
           /\ \A x \in CPU : strict_domains /\ curr'[x] \notin {curr[x], NoTask}
                => domain'[curr'[x]] = dom_of_cpu(x)
<1>1. CASE \E t \in Task : TaskStep(t)
  BY <1>1, TaskStepPlace
<1>2. CASE \E c \in CPU : CpuStep(c)
  BY <1>2, CpuStepPlace
<1>3. CASE UNCHANGED vars
  BY <1>3 DEF vars, PlaceInv, CpuAllowed, StrictPlace, ClaimAccounted, Asleep,
              WakeupUnderWay, dom_of_cpu
<1> QED BY <1>1, <1>2, <1>3 DEF Next, Ejected

LEMMA InitPlace == Init => PlaceInv
<1> SUFFICES ASSUME Init PROVE PlaceInv
  OBVIOUS
<1>1. 0 \in CPU
  BY CpuAssumption DEF CPU
<1> QED BY <1>1 DEF Init, PlaceInv, CpuAllowed, StrictPlace, ClaimAccounted

-----------------------------------------------------------------------------
(* While nobody changes an affinity, every CPU that pick_idle_in_dom or    *)
(* kick_idle_in_dom claimed is woken or about to get its task.             *)
THEOREM ClaimsAccounted ==
    ASSUME ~AffinityChanges
    PROVE  Spec => []ClaimAccounted
<1>1. TypeOK /\ OnePlace /\ PlaceInv /\ [Next]_vars => PlaceInv'
  BY NextPlace
<1>2. PlaceInv => ClaimAccounted
  BY DEF PlaceInv
<1> QED BY <1>1, <1>2, InitPlace, TypeCorrect, OnePlaceHolds, PTL DEF Spec

(* Under the same condition, with --strict a CPU only ever switches to a   *)
(* task classified into its domain.                                        *)
THEOREM StrictIsKept ==
    ASSUME ~AffinityChanges
    PROVE  Spec => StrictSwitch
<1>1. TypeOK /\ OnePlace /\ PlaceInv /\ [Next]_vars => PlaceInv'
  BY NextPlace
<1>2. TypeOK /\ OnePlace /\ PlaceInv /\ [Next]_vars =>
        [\A c \in CPU : strict_domains /\ curr'[c] \notin {curr[c], NoTask}
            => domain'[curr'[c]] = dom_of_cpu(c)]_vars
  BY NextPlace
<1> QED BY <1>1, <1>2, InitPlace, TypeCorrect, OnePlaceHolds, PTL DEF Spec, StrictSwitch
=============================================================================
