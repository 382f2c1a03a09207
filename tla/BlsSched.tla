------------------------------ MODULE BlsSched ------------------------------
(***************************************************************************)
(* The sched_ext scheduler of bls.bpf.c together with the part of the      *)
(* sched_ext core it talks to.                                             *)
(*                                                                         *)
(* Interleaving is what makes this code hard, so the steps follow the      *)
(* kernel's locks.  A wakeup is two steps: ops.select_cpu, which may claim *)
(* an idle CPU, and the later activation on the chosen runqueue.  A        *)
(* reschedule is two steps as well: the pick, with ops.dispatch, and the   *)
(* switch, with ops.stopping, ops.enqueue, ops.running and the update of   *)
(* the idle mask; the CPU is in `insched' between them and its runqueue    *)
(* lock keeps activations away from it.  Every scan of the idle mask and   *)
(* every operation on a DSQ is one atomic step.                            *)
(***************************************************************************)
EXTENDS BlsCommon, SequencesExt

CONSTANTS
    nr_cpus,           \* CPUs are 0 .. nr_cpus-1
    cpu_dom,           \* the loader's partition
    Task,              \* tasks that may exist
    NoTask,            \* the idle task
    Comm,              \* comms a task may have when it is created
    ByComm,            \* what classify_by_comm answers for each of them
    Masks,             \* affinity masks in use
    AffinityChanges,   \* does anyone call sched_setaffinity?
    strict_domains,    \* forbid cross-domain steal
    Deltas,            \* lengths of a stint on a CPU
    RemoteDeltas,      \* the same, measured by ops run from another CPU
    Tracked,           \* the counters that are kept
    StatBound          \* counters count modulo this bound

CPU == 0 .. nr_cpus - 1

ASSUME CpuAssumption == nr_cpus \in Nat \ {0} /\ cpu_dom \in [CPU -> Domain]
ASSUME TaskAssumption == NoTask \notin Task
ASSUME CommAssumption == ByComm \in [Comm -> Domain \cup {NoRule}]
ASSUME MaskAssumption == Masks \subseteq ((SUBSET CPU) \ {{}}) /\ Masks # {}
ASSUME FlagAssumption == AffinityChanges \in BOOLEAN /\ strict_domains \in BOOLEAN
ASSUME DeltaAssumption == Deltas \subseteq U64Value /\ RemoteDeltas \subseteq U64Value
ASSUME StatAssumption == StatBound \in Nat \ {0}

VARIABLES
    tstate,        \* where each task is, see TaskState
    allowed,       \* p->cpus_ptr
    tcpu,          \* task_cpu(p): the runqueue the task belongs to
    domain,        \* task_ctx.domain
    comm_pinned,   \* task_ctx.comm_pinned
    exec_ewma,     \* task_ctx.exec_ewma_ns
    dsq,           \* the two shared DSQs
    local,         \* the local DSQ of each CPU
    curr,          \* the task each CPU runs, NoTask when it is idle
    insched,       \* CPUs between pick and switch, runqueue lock held
    idle,          \* the idle mask
    kicked,        \* CPUs with a reschedule pending
    stats,         \* the counters in Tracked
    uei            \* "none" until ops.exit ran

taskVars == <<tstate, allowed, tcpu>>
ctxVars  == <<domain, comm_pinned, exec_ewma>>
cpuVars  == <<curr, insched, idle, kicked>>
vars     == <<taskVars, ctxVars, dsq, local, cpuVars, stats, uei>>

(* absent: no such task.  asleep: not runnable.  direct, enqueue: woken by *)
(* ops.select_cpu and not yet activated, with or without a direct insert   *)
(* into the local DSQ.  dsq, local: on its domain's DSQ, or on the local   *)
(* DSQ of tcpu.                                                            *)
TaskState == {"absent", "asleep", "direct", "enqueue", "dsq", "local", "running"}

TypeOK ==
    /\ tstate \in [Task -> TaskState]
    /\ allowed \in [Task -> (SUBSET CPU) \ {{}}]
    /\ tcpu \in [Task -> CPU]
    /\ domain \in [Task -> Domain]
    /\ comm_pinned \in [Task -> BOOLEAN]
    /\ exec_ewma \in [Task -> U64Value]
    /\ dsq \in [Domain -> Seq(Task)]
    /\ local \in [CPU -> Seq(Task)]
    /\ curr \in [CPU -> Task \cup {NoTask}]
    /\ insched \subseteq CPU
    /\ idle \subseteq CPU
    /\ kicked \subseteq CPU
    /\ stats \in [Tracked -> 0 .. (StatBound - 1)]
    /\ uei \in {"none", "stall"}

(* bls_init creates both DSQs; no task has been handed over yet.           *)
Init ==
    /\ tstate = [t \in Task |-> "absent"]
    /\ allowed = [t \in Task |-> CPU]
    /\ tcpu = [t \in Task |-> 0]
    /\ domain = [t \in Task |-> BIG]
    /\ comm_pinned = [t \in Task |-> FALSE]
    /\ exec_ewma = [t \in Task |-> 0]
    /\ dsq = [d \in Domain |-> <<>>]
    /\ local = [c \in CPU |-> <<>>]
    /\ curr = [c \in CPU |-> NoTask]
    /\ insched = {}
    /\ idle = CPU
    /\ kicked = {}
    /\ stats = [i \in Tracked |-> 0]
    /\ uei = "none"

-----------------------------------------------------------------------------
(* Helpers of bls.bpf.c                                                    *)

dom_of_cpu(c) == IF cpu_dom[c] = LITTLE THEN LITTLE ELSE BIG

(* stat_add(i, 1) for every i in S.                                        *)
Count(S) == [i \in Tracked |-> (stats[i] + (IF i \in S THEN 1 ELSE 0)) % StatBound]

NoCpu == -1

(* The idle CPUs of a domain that the task may use.                        *)
IdleIn(d, mask) == {c \in idle \cap mask : dom_of_cpu(c) = d}

(* The CPU claimed for a waking task.  The test of prev_cpu comes first    *)
(* and does not look at the affinity mask.                                 *)
pick_idle_in_dom(t, d, prev_cpu) ==
    IF prev_cpu \in idle /\ dom_of_cpu(prev_cpu) = d THEN prev_cpu
    ELSE IF IdleIn(d, allowed[t]) # {} THEN Min(IdleIn(d, allowed[t]))
    ELSE NoCpu

(* Mutant: kicks the -1 of a scan that found nothing.                      *)
kick_unchecked(d, mask) ==
    IF IdleIn(d, mask) = {} THEN {NoCpu} ELSE {Min(IdleIn(d, mask))}

(* The CPUs claimed and kicked for a task queued with affinity mask: none  *)
(* or one.                                                                 *)
kick_idle_in_dom(d, mask) ==
    IF IdleIn(d, mask) = {} THEN {} ELSE {Min(IdleIn(d, mask))}

(* The counters bls_enqueue bumps for a task of domain d.                  *)
EnqStats(d) == {"ENQ", IF d = LITTLE THEN "DSQ_LITTLE" ELSE "DSQ_BIG"}

(* bls_stopping for a stint of length delta; RECLASSIFY is counted by the  *)
(* calling action.  A task that stops was started, so the early return on  *)
(* started_at = 0 is left to BlsTask.                                      *)
StoppedEwma(t, delta) == Ewma(exec_ewma[t], delta)
StoppedDomain(t, delta) == Reclassify(domain[t], comm_pinned[t], StoppedEwma(t, delta))
ReclassifyStats(t, delta) ==
    IF StoppedDomain(t, delta) # domain[t] THEN {"RECLASSIFY"} ELSE {}
bls_stopping(t, delta) ==
    /\ exec_ewma' = [exec_ewma EXCEPT ![t] = StoppedEwma(t, delta)]
    /\ domain' = [domain EXCEPT ![t] = StoppedDomain(t, delta)]
    /\ UNCHANGED comm_pinned

-----------------------------------------------------------------------------
(* Task creation and destruction                                           *)

(* The scheduler tail of a context switch is over for t.                   *)
OffCpu(t) == \A c \in CPU : curr[c] # t

(* ops.init_task on fork, or on attach for a task that already exists.     *)
bls_init_task(t) ==
    /\ tstate[t] = "absent"
    /\ \E c \in Comm, m \in Masks, cpu \in CPU :
        LET init == initial_domain(ByComm[c]) IN
        /\ cpu \in m
        /\ allowed' = [allowed EXCEPT ![t] = m]
        /\ tcpu' = [tcpu EXCEPT ![t] = cpu]
        /\ domain' = [domain EXCEPT ![t] = init.domain]
        /\ comm_pinned' = [comm_pinned EXCEPT ![t] = init.pinned]
        /\ stats' = Count({IF init.domain = LITTLE THEN "TASKS_LITTLE" ELSE "TASKS_BIG"})
    /\ exec_ewma' = [exec_ewma EXCEPT ![t] = 0]
    /\ tstate' = [tstate EXCEPT ![t] = "asleep"]
    /\ UNCHANGED <<dsq, local, cpuVars, uei>>

(* A task that exited is freed, and its task storage with it.              *)
TaskFree(t) ==
    /\ tstate[t] = "asleep" /\ OffCpu(t)
    /\ tstate' = [tstate EXCEPT ![t] = "absent"]
    /\ allowed' = [allowed EXCEPT ![t] = CPU]
    /\ tcpu' = [tcpu EXCEPT ![t] = 0]
    /\ domain' = [domain EXCEPT ![t] = BIG]
    /\ comm_pinned' = [comm_pinned EXCEPT ![t] = FALSE]
    /\ exec_ewma' = [exec_ewma EXCEPT ![t] = 0]
    /\ UNCHANGED <<dsq, local, cpuVars, stats, uei>>

-----------------------------------------------------------------------------
(* Wakeup, first half: ops.select_cpu                                      *)

(* select_task_rq replaces a CPU the task may not use.                     *)
Landing(t, cpu) == IF cpu \in allowed[t] THEN {cpu} ELSE allowed[t]

(* Mutant: select_cpu returns prev_cpu although it claimed another CPU.    *)
WakeTo_prev(t, cpu, state) ==
    /\ \E c \in Landing(t, tcpu[t]) : tcpu' = [tcpu EXCEPT ![t] = c]
    /\ tstate' = [tstate EXCEPT ![t] = state]
    /\ UNCHANGED <<allowed, ctxVars, dsq, local, curr, insched, kicked, uei>>

(* The CPU and the path bls_select_cpu decided on.                         *)
WakeTo(t, cpu, state) ==
    /\ \E c \in Landing(t, cpu) : tcpu' = [tcpu EXCEPT ![t] = c]
    /\ tstate' = [tstate EXCEPT ![t] = state]
    /\ UNCHANGED <<allowed, ctxVars, dsq, local, curr, insched, kicked, uei>>

CanWake(t) == tstate[t] = "asleep" /\ OffCpu(t)

(* The core asks ops.select_cpu only when there is a choice.               *)
HasChoice(t) == \E a, b \in allowed[t] : a # b

OwnIdle(t) == pick_idle_in_dom(t, domain[t], tcpu[t])

(* Mutant: spills with --strict too.                                       *)
SpillIdle_always(t) == pick_idle_in_dom(t, OtherDomain(domain[t]), NoCpu)

SpillIdle(t) ==
    IF strict_domains THEN NoCpu
    ELSE pick_idle_in_dom(t, OtherDomain(domain[t]), NoCpu)

SelectOwn(t) ==
    /\ CanWake(t) /\ HasChoice(t)
    /\ OwnIdle(t) # NoCpu
    /\ idle' = idle \ {OwnIdle(t)}
    /\ stats' = Count({"DIRECT"})
    /\ WakeTo(t, OwnIdle(t), "direct")

SelectSpill(t) ==
    /\ CanWake(t) /\ HasChoice(t)
    /\ OwnIdle(t) = NoCpu /\ SpillIdle(t) # NoCpu
    /\ idle' = idle \ {SpillIdle(t)}
    /\ stats' = Count({"NO_IDLE_IN_DOM", "DIRECT", "STEAL"})
    /\ WakeTo(t, SpillIdle(t), "direct")

SelectPrev(t) ==
    /\ CanWake(t) /\ HasChoice(t)
    /\ OwnIdle(t) = NoCpu /\ SpillIdle(t) = NoCpu
    /\ stats' = Count({"NO_IDLE_IN_DOM"})
    /\ WakeTo(t, tcpu[t], "enqueue")
    /\ UNCHANGED idle

(* A task bound to one CPU is placed without asking the scheduler.         *)
WakeBound(t) ==
    /\ CanWake(t) /\ ~HasChoice(t)
    /\ \E c \in allowed[t] : WakeTo(t, c, "enqueue")
    /\ UNCHANGED <<idle, stats>>

-----------------------------------------------------------------------------
(* Wakeup, second half: activation under the runqueue lock of tcpu         *)

(* The core reschedules an idle CPU whose runqueue gets a task.            *)
Preempted(c) == IF curr[c] = NoTask THEN {c} ELSE {}

ActivateDirect(t) ==
    /\ tstate[t] = "direct" /\ tcpu[t] \notin insched
    /\ local' = [local EXCEPT ![tcpu[t]] = Append(@, t)]
    /\ tstate' = [tstate EXCEPT ![t] = "local"]
    /\ kicked' = kicked \cup Preempted(tcpu[t])
    /\ UNCHANGED <<allowed, tcpu, ctxVars, dsq, curr, insched, idle, stats, uei>>

(* bls_enqueue for a task that wakes up.                                   *)
ActivateEnqueue(t) ==
    /\ tstate[t] = "enqueue" /\ tcpu[t] \notin insched
    /\ LET d == domain[t]
           claim == kick_idle_in_dom(d, allowed[t])
       IN  /\ dsq' = [dsq EXCEPT ![dom_dsq(d)] = Append(@, t)]
           /\ idle' = idle \ claim
           /\ kicked' = kicked \cup claim \cup Preempted(tcpu[t])
           /\ stats' = Count(EnqStats(d))
    /\ tstate' = [tstate EXCEPT ![t] = "dsq"]
    /\ UNCHANGED <<allowed, tcpu, ctxVars, local, curr, insched, uei>>

-----------------------------------------------------------------------------
(* Reschedule, first half: the CPU picks its next task                     *)

NoDsq == -1

(* What scx_bpf_dsq_move_to_local may take from a DSQ for a CPU.           *)
Eligible(c, d) == {i \in 1 .. Len(dsq[d]) : c \in allowed[dsq[d][i]]}

(* The DSQ bls_dispatch takes a task from: its own domain's, else, unless  *)
(* strict, the other one's.                                                *)
DispatchFrom(c) ==
    LET own == dom_dsq(dom_of_cpu(c))
        other == dom_dsq(OtherDomain(dom_of_cpu(c)))
    IN  IF Eligible(c, own) # {} THEN own
        ELSE IF ~strict_domains /\ Eligible(c, other) # {} THEN other
        ELSE NoDsq

(* Mutant: the task stays on the DSQ as well.                              *)
bls_dispatch_copy(c, ts, S) ==
    LET d == IF local[c] # <<>> THEN NoDsq ELSE DispatchFrom(c)
        i == Min(Eligible(c, d))
        t == dsq[d][i]
        hit == IF d = dom_of_cpu(c) THEN "LOCAL_HIT" ELSE "STEAL"
    IN  IF d = NoDsq
        THEN /\ tstate' = ts
             /\ stats' = Count(S)
             /\ UNCHANGED <<tcpu, dsq, local>>
        ELSE /\ tstate' = [ts EXCEPT ![t] = "local"]
             /\ tcpu' = [tcpu EXCEPT ![t] = c]
             /\ local' = [local EXCEPT ![c] = <<t>>]
             /\ stats' = Count(S \cup {hit})
             /\ UNCHANGED dsq

(* Picking on CPU c, the task states being ts by then and the counters in  *)
(* S already bumped.  ops.dispatch is asked only when the local DSQ is     *)
(* empty.                                                                  *)
bls_dispatch(c, ts, S) ==
    LET d == IF local[c] # <<>> THEN NoDsq ELSE DispatchFrom(c)
        i == Min(Eligible(c, d))
        t == dsq[d][i]
        hit == IF d = dom_of_cpu(c) THEN "LOCAL_HIT" ELSE "STEAL"
    IN  IF d = NoDsq
        THEN /\ tstate' = ts
             /\ stats' = Count(S)
             /\ UNCHANGED <<tcpu, dsq, local>>
        ELSE /\ tstate' = [ts EXCEPT ![t] = "local"]
             /\ tcpu' = [tcpu EXCEPT ![t] = c]
             /\ dsq' = [dsq EXCEPT ![d] = RemoveAt(@, i)]
             /\ local' = [local EXCEPT ![c] = <<t>>]
             /\ stats' = Count(S \cup {hit})

EnterSchedule(c) ==
    /\ c \notin insched
    /\ insched' = insched \cup {c}
    /\ kicked' = kicked \ {c}
    /\ UNCHANGED <<allowed, curr, idle, uei>>

IdleResched(c) ==
    /\ curr[c] = NoTask /\ c \in kicked
    /\ EnterSchedule(c)
    /\ bls_dispatch(c, tstate, {})
    /\ UNCHANGED ctxVars

(* The slice of the running task is used up.                               *)
SliceEnd(c) ==
    /\ curr[c] # NoTask
    /\ EnterSchedule(c)
    /\ bls_dispatch(c, tstate, {})
    /\ UNCHANGED ctxVars

(* The running task blocks or exits: it is dequeued, with                  *)
(* ops.stopping(runnable = false), before the pick.                        *)
Block(c) ==
    /\ curr[c] # NoTask
    /\ EnterSchedule(c)
    /\ \E delta \in Deltas :
        /\ bls_stopping(curr[c], delta)
        /\ bls_dispatch(c, [tstate EXCEPT ![curr[c]] = "asleep"],
                        ReclassifyStats(curr[c], delta))

-----------------------------------------------------------------------------
(* Reschedule, second half: put_prev_task, then set_next_task              *)

NextTask(c) == IF local[c] = <<>> THEN NoTask ELSE Head(local[c])

(* Run the picked task, bls_running included, or set the CPU's idle bit.   *)
(* ts and claim are what put_prev_task left.                               *)
SetNext(c, ts, claim) ==
    /\ curr' = [curr EXCEPT ![c] = NextTask(c)]
    /\ insched' = insched \ {c}
    /\ IF NextTask(c) = NoTask
       THEN /\ tstate' = ts
            /\ idle' = (idle \ claim) \cup {c}
            /\ UNCHANGED local
       ELSE /\ tstate' = [ts EXCEPT ![NextTask(c)] = "running"]
            /\ idle' = idle \ (claim \cup {c})
            /\ local' = [local EXCEPT ![c] = Tail(@)]
    /\ UNCHANGED <<allowed, tcpu, uei>>

StillRunnable(c) == curr[c] # NoTask /\ tstate[curr[c]] = "running"

(* The previous task gave the CPU up, or the CPU was idle.                 *)
Switch(c) ==
    /\ c \in insched /\ ~StillRunnable(c)
    /\ SetNext(c, tstate, {})
    /\ UNCHANGED <<ctxVars, dsq, kicked, stats>>

(* Mutant: a preempted task goes to the head of the DSQ.                   *)
SwitchPreempt_head(c) ==
    /\ c \in insched /\ StillRunnable(c)
    /\ \E delta \in Deltas :
        LET p == curr[c]
            d == StoppedDomain(p, delta)
            claim == kick_idle_in_dom(d, allowed[p])
        IN  /\ bls_stopping(p, delta)
            /\ dsq' = [dsq EXCEPT ![dom_dsq(d)] = <<p>> \o @]
            /\ kicked' = kicked \cup claim
            /\ stats' = Count(ReclassifyStats(p, delta) \cup EnqStats(d))
            /\ SetNext(c, [tstate EXCEPT ![p] = "dsq"], claim)

(* The previous task is still runnable: ops.stopping, then bls_enqueue on  *)
(* its possibly new domain, also when no other task was found              *)
(* (SCX_OPS_ENQ_LAST).  All of this precedes the idle bit of c itself.     *)
SwitchPreempt(c) ==
    /\ c \in insched /\ StillRunnable(c)
    /\ \E delta \in Deltas :
        LET p == curr[c]
            d == StoppedDomain(p, delta)
            claim == kick_idle_in_dom(d, allowed[p])
        IN  /\ bls_stopping(p, delta)
            /\ dsq' = [dsq EXCEPT ![dom_dsq(d)] = Append(@, p)]
            /\ kicked' = kicked \cup claim
            /\ stats' = Count(ReclassifyStats(p, delta) \cup EnqStats(d))
            /\ SetNext(c, [tstate EXCEPT ![p] = "dsq"], claim)

-----------------------------------------------------------------------------
(* Changes made to a task from outside                                     *)

(* The masks a task may get: its own when something else is changed, any   *)
(* when someone calls sched_setaffinity.                                   *)
MaskAfter(t) == {allowed[t]} \cup (IF AffinityChanges THEN Masks ELSE {})

(* A change of a running task's properties (nice, cgroup, an affinity that *)
(* keeps the CPU) takes it off and puts it back: ops.stopping and          *)
(* ops.running, on the caller's CPU.                                       *)
ChangeRunning(c) ==
    /\ curr[c] # NoTask /\ c \notin insched
    /\ \E delta \in RemoteDeltas :
        /\ bls_stopping(curr[c], delta)
        /\ stats' = Count(ReclassifyStats(curr[c], delta))
    /\ \E m \in MaskAfter(curr[c]) : c \in m /\ allowed' = [allowed EXCEPT ![curr[c]] = m]
    /\ UNCHANGED <<tstate, tcpu, dsq, local, cpuVars, uei>>

(* sched_setaffinity on a sleeping task leaves task_cpu alone.             *)
SetAffinityAsleep(t) ==
    /\ AffinityChanges /\ tstate[t] = "asleep"
    /\ \E m \in Masks : allowed' = [allowed EXCEPT ![t] = m]
    /\ UNCHANGED <<tstate, tcpu, ctxVars, dsq, local, cpuVars, stats, uei>>

(* A queue without task t.                                                 *)
Unlink(s, t) ==
    IF t \in ToSet(s) THEN RemoveAt(s, CHOOSE k \in 1 .. Len(s) : s[k] = t) ELSE s

(* A change of a queued task's properties (nice, cgroup, policy, affinity) *)
(* dequeues the task and calls bls_enqueue again, on a runqueue that the   *)
(* new mask allows.                                                        *)
ChangeQueued(t) ==
    /\ tstate[t] \in {"dsq", "local"}
    /\ tcpu[t] \notin insched
    /\ \E m \in MaskAfter(t) : \E c \in (IF tcpu[t] \in m THEN {tcpu[t]} ELSE m) :
        LET d == domain[t]
            claim == kick_idle_in_dom(d, m)
            moved == IF c = tcpu[t] THEN {} ELSE Preempted(c)
        IN  /\ c \notin insched
            /\ allowed' = [allowed EXCEPT ![t] = m]
            /\ tcpu' = [tcpu EXCEPT ![t] = c]
            /\ dsq' = [dsq EXCEPT ![dom_dsq(d)] = Append(Unlink(@, t), t)]
            /\ local' = [local EXCEPT ![tcpu[t]] = Unlink(@, t)]
            /\ idle' = idle \ claim
            /\ kicked' = kicked \cup claim \cup moved
            /\ stats' = Count(EnqStats(d))
    /\ tstate' = [tstate EXCEPT ![t] = "dsq"]
    /\ UNCHANGED <<ctxVars, curr, insched, uei>>

-----------------------------------------------------------------------------
(* The watchdog                                                            *)

(* CPU c does nothing and nothing is about to wake it.                     *)
Asleep(c) == curr[c] = NoTask /\ c \notin insched \cup kicked

(* A direct insert will reach CPU c.                                       *)
WakeupUnderWay(c) == \E t \in Task : tstate[t] = "direct" /\ tcpu[t] = c

(* No CPU of the task's domain is going to serve it.  Such a task may stay *)
(* queued for longer than timeout_ms.                                      *)
Overdue(t) ==
    /\ tstate[t] = "dsq"
    /\ \A c \in allowed[t] : dom_of_cpu(c) = domain[t] => Asleep(c)

(* The watchdog ejects the scheduler; bls_exit records why.                *)
bls_exit(t) ==
    /\ Overdue(t)
    /\ uei' = "stall"
    /\ UNCHANGED <<taskVars, ctxVars, dsq, local, cpuVars, stats>>

Ejected == uei # "none" /\ UNCHANGED vars

-----------------------------------------------------------------------------
TaskStep(t) ==
    \/ bls_init_task(t) \/ TaskFree(t)
    \/ SelectOwn(t) \/ SelectSpill(t) \/ SelectPrev(t) \/ WakeBound(t)
    \/ ActivateDirect(t) \/ ActivateEnqueue(t)
    \/ SetAffinityAsleep(t) \/ ChangeQueued(t)
    \/ bls_exit(t)

CpuStep(c) ==
    \/ IdleResched(c) \/ SliceEnd(c) \/ Block(c)
    \/ Switch(c) \/ SwitchPreempt(c)
    \/ ChangeRunning(c)

Next ==
    \/ /\ uei = "none"
       /\ \/ \E t \in Task : TaskStep(t)
          \/ \E c \in CPU : CpuStep(c)
    \/ Ejected

Spec == Init /\ [][Next]_vars

(* CPU c enters or leaves the scheduler.  Exactly the actions that start   *)
(* and end a reschedule of c do this, and one of them can whenever c is    *)
(* not asleep.                                                             *)
Turn(c) ==
    /\ uei = "none" /\ ~Asleep(c)
    /\ insched' = IF c \in insched THEN insched \ {c} ELSE insched \cup {c}

(* The wakeup of t completes.  Exactly ActivateDirect and ActivateEnqueue  *)
(* do this, and one of them can whenever the runqueue is not locked.       *)
Arrival(t) ==
    /\ uei = "none" /\ tcpu[t] \notin insched
    /\ \/ tstate[t] = "direct" /\ tstate' = [tstate EXCEPT ![t] = "local"]
       \/ tstate[t] = "enqueue" /\ tstate' = [tstate EXCEPT ![t] = "dsq"]

(* What the kernel guarantees: the wakeup of t, once started, completes    *)
(* (strongly fair, because the runqueue lock it waits for is a queued      *)
(* spinlock); on every CPU a pending reschedule happens, a task leaves     *)
(* when its slice is over, and a switch completes.  Nothing forces a task  *)
(* to wake up, to be created or to be changed, nor the watchdog to act.    *)
(* Stated on Turn and Arrival, this is cheaper to check than on the        *)
(* actions that make them.                                                 *)
Fairness(t) ==
    /\ SF_tstate(Arrival(t))
    /\ \A c \in CPU : WF_insched(Turn(c))

-----------------------------------------------------------------------------
(* Properties                                                              *)

(* No queue holds a task twice.                                            *)
QueuesDistinct ==
    /\ \A d \in Domain : IsInjective(dsq[d])
    /\ \A c \in CPU : IsInjective(local[c])

(* A DSQ holds the queued tasks of its domain.                             *)
DsqHolds == \A t \in Task, d \in Domain :
    t \in ToSet(dsq[d]) <=> tstate[t] = "dsq" /\ domain[t] = d

(* A local DSQ holds the tasks picked for, or woken on, its CPU.           *)
LocalHolds == \A t \in Task, c \in CPU :
    t \in ToSet(local[c]) <=> tstate[t] = "local" /\ tcpu[t] = c

(* A running task is the current task of its CPU.                          *)
RunnerIsCurrent == \A t \in Task : tstate[t] = "running" => curr[tcpu[t]] = t

(* The current task of a CPU belongs to it and runs, unless it blocked and *)
(* the switch is not over.                                                 *)
CurrentRuns == \A c \in CPU : curr[c] # NoTask =>
    /\ tcpu[curr[c]] = c
    /\ tstate[curr[c]] = "running" \/ (c \in insched /\ tstate[curr[c]] = "asleep")

(* No task is lost and none is held twice: a task is on the DSQ of the     *)
(* domain it is classified into, on the local DSQ of its CPU, or running   *)
(* on its CPU, exactly when its state says so, and once.  Reclassification *)
(* in bls_stopping, the insert of bls_enqueue and the moves of             *)
(* bls_dispatch would break it if their order were wrong.                  *)
OnePlace ==
    QueuesDistinct /\ DsqHolds /\ LocalHolds /\ RunnerIsCurrent /\ CurrentRuns

(* What a task sees of all this: the steps of a wakeup and the queues are  *)
(* all waiting, and a task that has blocked no longer runs although the    *)
(* switch is not over.                                                     *)
StatusOf(t) ==
    IF tstate[t] \in {"direct", "enqueue", "dsq", "local"} THEN "waiting" ELSE tstate[t]
Status == [t \in Task |-> StatusOf(t)]
Runner == [c \in CPU |-> IF StillRunnable(c) THEN curr[c] ELSE NoTask]

Life == INSTANCE TaskLife WITH status <- Status, mask <- allowed, runner <- Runner

(* Whatever bls.bpf.c claims, queues, dispatches and steals, a task runs   *)
(* only after it was woken, on one CPU at a time and where its mask lets   *)
(* it, also when the mask is rewritten while the task waits or runs.       *)
Implements == Life!Spec

(* A claim is never lost: an idle CPU that is no longer in the idle mask   *)
(* (pick_idle_in_dom or kick_idle_in_dom cleared its bit) is about to be   *)
(* rescheduled, or is the CPU of a task whose direct insert is under way.  *)
(* Otherwise no later scan could find the CPU although it is free.         *)
ClaimAccounted ==
    \A c \in CPU \ idle : Asleep(c) => WakeupUnderWay(c)

(* With --strict a CPU only ever switches to a task classified into its    *)
(* own domain, whatever the order of claims, kicks, reclassifications and  *)
(* dispatches ("scheduled from a per-domain DSQ onto that domain's CPUs"). *)
StrictSwitch ==
    [][\A c \in CPU : strict_domains /\ curr'[c] \notin {curr[c], NoTask}
                        => domain'[curr'[c]] = dom_of_cpu(c)]_vars

(* CPU c takes no task of domain d now: it serves its own domain first.    *)
Crowded(c, d) ==
    dom_of_cpu(c) # d /\ (strict_domains \/ Eligible(c, dom_dsq(dom_of_cpu(c))) # {})

(* Every CPU the queued task may use sleeps, or has tasks of its own       *)
(* domain to serve first.                                                  *)
LeftWaiting(t) ==
    tstate[t] = "dsq" /\ \A c \in allowed[t] : Asleep(c) \/ Crowded(c, domain[t])

(* A runnable task runs, unless again and again every CPU it may use is    *)
(* asleep or serves its own domain first, or the scheduler is ejected:     *)
(* both DSQs are served in order, so the other tasks, preempted and        *)
(* reclassified as they are, cannot keep it waiting while a CPU of its     *)
(* domain is awake.  A task bound to the other domain's CPUs waits only    *)
(* for that domain's tasks.  That the watchdog acts is not assumed.        *)
Runs(t) ==
    tstate[t] \in {"direct", "enqueue", "dsq", "local"}
        ~> tstate[t] = "running" \/ LeftWaiting(t) \/ uei # "none"

(* A queued task is within reach of a CPU that takes tasks from its DSQ    *)
(* ("scheduled from a per-domain DSQ onto that domain's CPUs").            *)
QueuedReachable ==
    \A t \in Task : tstate[t] = "dsq" =>
        \E c \in allowed[t] : strict_domains => dom_of_cpu(c) = domain[t]

(* "Wake an idle CPU in `dom` so a freshly queued task is picked up        *)
(* promptly": while a task is queued, some CPU of its domain that may take *)
(* it is awake or about to be woken.                                       *)
QueuedIsNoticed ==
    \A t \in Task : tstate[t] = "dsq" =>
        \E c \in allowed[t] :
            dom_of_cpu(c) = domain[t] /\ (~Asleep(c) \/ WakeupUnderWay(c))
=============================================================================
