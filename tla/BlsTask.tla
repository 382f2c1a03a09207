------------------------------ MODULE BlsTask ------------------------------
(***************************************************************************)
(* The task_ctx of one task of bls.bpf.c against the clock: bls_running    *)
(* and bls_stopping, the run-time counters and the EWMA classifier.        *)
(*                                                                         *)
(* ops.running and ops.stopping usually run on the CPU of the task.  When  *)
(* somebody changes a running task from another CPU, both run on that      *)
(* other CPU, whose clock may differ by its skew.                          *)
(***************************************************************************)
EXTENDS BlsCommon

CONSTANTS
    nr_cpus,
    cpu_dom,
    skew,           \* how far the clock of each CPU is ahead
    Remote,         \* does anyone change the task from another CPU?
    Pinned,         \* values of comm_pinned at init_task
    NSEC_PER_MSEC,
    Elapse,         \* how much time may pass at once
    MaxNow,         \* bound on the clock
    MaxStints       \* bound on the stints on the CPUs of one domain

CPU == 0 .. nr_cpus - 1
NoCpu == -1

ASSUME CpuAssumption == nr_cpus \in Nat \ {0} /\ cpu_dom \in [CPU -> Domain]
ASSUME SkewAssumption == skew \in [CPU -> Nat]
ASSUME RemoteAssumption == Remote \in BOOLEAN /\ Pinned \subseteq BOOLEAN
ASSUME ClockAssumption ==
    /\ NSEC_PER_MSEC \in Nat \ {0}
    /\ Elapse \subseteq Nat \ {0}
    /\ MaxNow \in Nat \ {0} /\ MaxStints \in Nat

VARIABLES
    now,           \* real time
    cpu,           \* the CPU the task runs on, or NoCpu
    started_at,    \* task_ctx
    exec_ewma,
    ran,           \* ran_big_ns and ran_little_ns, by domain
    domain,
    comm_pinned,
    run_ms,        \* BLS_STAT_RUN_BIG_MS and BLS_STAT_RUN_LITTLE_MS
    truth,         \* history: time really spent on the CPUs of each domain
    stints,        \* history: completed stints by domain of the CPU
    sincePromo,    \* history: stops since the last promotion, up to Settle
    longRun        \* history: consecutive long stints, up to Patience

ctxVars == <<started_at, exec_ewma, ran, domain, comm_pinned>>
vars == <<now, cpu, ctxVars, run_ms, truth, stints, sincePromo, longRun>>

(* After a promotion the classifier needs this many stops to demote.       *)
Settle == 3

(* A stint this long keeps the EWMA above the threshold: the division in   *)
(* the EWMA loses at most 3.                                               *)
LongStint == big_slice_thresh + 4

(* So many long stints in a row promote a task whatever its history: each  *)
(* one adds at least 1 to an EWMA that is not above the threshold.         *)
Patience == big_slice_thresh + 1

TypeOK ==
    /\ now \in Nat
    /\ cpu \in CPU \cup {NoCpu}
    /\ started_at \in U64Value
    /\ exec_ewma \in U64Value
    /\ ran \in [Domain -> U64Value]
    /\ domain \in Domain
    /\ comm_pinned \in BOOLEAN
    /\ run_ms \in [Domain -> U64Value]
    /\ truth \in [Domain -> Nat]
    /\ stints \in [Domain -> Nat]
    /\ sincePromo \in 0 .. Settle
    /\ longRun \in 0 .. Patience

(* bls_init_task, for a comm that matched a rule or did not.               *)
Init ==
    /\ now = 1
    /\ cpu = NoCpu
    /\ started_at = 0
    /\ exec_ewma = 0
    /\ ran = [d \in Domain |-> 0]
    /\ comm_pinned \in Pinned
    /\ \E rule \in Domain : domain = initial_domain(IF comm_pinned THEN rule ELSE NoRule).domain
    /\ run_ms = [d \in Domain |-> 0]
    /\ truth = [d \in Domain |-> 0]
    /\ stints = [d \in Domain |-> 0]
    /\ sincePromo = Settle
    /\ longRun = 0

-----------------------------------------------------------------------------
dom_of_cpu(c) == IF cpu_dom[c] = LITTLE THEN LITTLE ELSE BIG

(* scx_bpf_now() on CPU c.                                                 *)
scx_bpf_now(c) == (now + skew[c]) % U64

Capped(n, bound) == IF n < bound THEN n ELSE bound

(* Time passes; it counts for the domain of the CPU the task is on.        *)
Tick ==
    \E k \in Elapse :
        /\ now + k <= MaxNow
        /\ now' = now + k
        /\ truth' = IF cpu = NoCpu THEN truth
                    ELSE [truth EXCEPT ![dom_of_cpu(cpu)] = @ + k]
        /\ UNCHANGED <<cpu, ctxVars, run_ms, stints, sincePromo, longRun>>

(* ops.running on the task's own CPU.                                      *)
bls_running(c) ==
    /\ cpu = NoCpu /\ stints[dom_of_cpu(c)] < MaxStints
    /\ cpu' = c
    /\ started_at' = scx_bpf_now(c)
    /\ UNCHANGED <<now, exec_ewma, ran, domain, comm_pinned,
                   run_ms, truth, stints, sincePromo, longRun>>

(* Mutant: a stint always counts for the domain the task is classified in. *)
Account_domain(x, delta) ==
    /\ ran' = [ran EXCEPT ![domain] = (@ + delta) % U64]
    /\ run_ms' = [run_ms EXCEPT ![domain] = (@ + delta \div NSEC_PER_MSEC) % U64]
    /\ stints' = [stints EXCEPT ![dom_of_cpu(x)] = @ + 1]

(* Mutant: the per-domain milliseconds are rounded up.                     *)
Account_round_up(x, delta) ==
    LET d == dom_of_cpu(x) IN
    /\ ran' = [ran EXCEPT ![d] = (@ + delta) % U64]
    /\ run_ms' = [run_ms EXCEPT ![d] = (@ + delta \div NSEC_PER_MSEC + 1) % U64]
    /\ stints' = [stints EXCEPT ![d] = @ + 1]

(* Mutant: nanoseconds are multiplied where they should be divided.        *)
Account_multiply(x, delta) ==
    LET d == dom_of_cpu(x) IN
    /\ ran' = [ran EXCEPT ![d] = (@ + delta) % U64]
    /\ run_ms' = [run_ms EXCEPT ![d] = @ + delta * NSEC_PER_MSEC]
    /\ stints' = [stints EXCEPT ![d] = @ + 1]

(* The counters, by the domain of the CPU x that executes the callback.    *)
Account(x, delta) ==
    LET d == dom_of_cpu(x) IN
    /\ ran' = [ran EXCEPT ![d] = (@ + delta) % U64]
    /\ run_ms' = [run_ms EXCEPT ![d] = (@ + delta \div NSEC_PER_MSEC) % U64]
    /\ stints' = [stints EXCEPT ![d] = @ + 1]

(* ops.stopping executed on CPU x.  restart is the value of started_at     *)
(* afterwards: 0, or the result of the bls_running that follows.           *)
Stopping(x, restart) ==
    LET delta == (scx_bpf_now(x) - started_at) % U64
        ewma == Ewma(exec_ewma, delta)
        dom == Reclassify(domain, comm_pinned, ewma)
    IN  /\ started_at' = restart
        /\ IF started_at = 0
           THEN UNCHANGED <<ran, run_ms, stints, exec_ewma, domain, sincePromo, longRun>>
           ELSE /\ Account(x, delta)
                /\ exec_ewma' = ewma
                /\ domain' = dom
                /\ sincePromo' = IF domain = LITTLE /\ dom = BIG THEN 0
                                 ELSE Capped(sincePromo + 1, Settle)
                /\ longRun' = IF delta >= LongStint THEN Capped(longRun + 1, Patience) ELSE 0
        /\ UNCHANGED <<now, comm_pinned, truth>>

(* The task leaves its CPU: it blocks, exits or its slice is over.         *)
bls_stopping ==
    /\ cpu # NoCpu
    /\ Stopping(cpu, 0)
    /\ cpu' = NoCpu

(* The running task is changed by itself or from another CPU x:            *)
(* ops.stopping and ops.running on x, while the task keeps its CPU.        *)
ChangeFrom(x) ==
    /\ cpu # NoCpu /\ (x = cpu \/ Remote)
    /\ stints[dom_of_cpu(x)] < MaxStints
    /\ Stopping(x, scx_bpf_now(x))
    /\ UNCHANGED cpu

Next ==
    \/ Tick
    \/ \E c \in CPU : bls_running(c) \/ ChangeFrom(c)
    \/ bls_stopping

Spec == Init /\ [][Next]_vars

-----------------------------------------------------------------------------
(* Properties                                                              *)

(* What bls_stopping accumulates is what happened: between two stints      *)
(* ran_big_ns and ran_little_ns are the time the task spent on big and on  *)
(* little CPUs ("task-time on big cores", bls_common.h).                   *)
TimeAccounted == cpu = NoCpu => ran = truth

(* The millisecond counters lose less than one millisecond per stint to    *)
(* the division in bls_stopping and never gain anything.                   *)
MsTruncation ==
    \A d \in Domain :
        /\ run_ms[d] * NSEC_PER_MSEC <= ran[d]
        /\ stints[d] > 0 => ran[d] < (run_ms[d] + stints[d]) * NSEC_PER_MSEC

(* Hysteresis: after bls_stopping promoted a task, it takes at least       *)
(* Settle stops before it is demoted again, however short they are ("so a  *)
(* task oscillating around the boundary does not ping-pong").              *)
NoPingPong ==
    [][domain = BIG /\ domain' = LITTLE => sincePromo >= Settle - 1]_vars

(* A task that may adapt and runs long stints is promoted: the truncating  *)
(* EWMA does not get stuck below the threshold, whatever came before.      *)
LongRunnerPromoted ==
    longRun = Patience /\ Adapts(comm_pinned) => domain = BIG
=============================================================================
