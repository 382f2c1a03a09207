---------------------------- MODULE BlsTaskProofs ----------------------------
(***************************************************************************)
(* Proofs about BlsTask, for every clock, every skew between the CPUs,     *)
(* every threshold and every classifier mode.                              *)
(*                                                                         *)
(* The types are right whatever happens.  The other properties need what   *)
(* the run task_remote shows to be needed: that the callbacks are executed *)
(* on the task's CPU.  And they need a clock that has not come so far that *)
(* a u64 wraps, which takes a machine that is up for more than a century.  *)
(***************************************************************************)
EXTENDS BlsTask, TLAPS

InRange ==
    /\ 4 * MaxNow < U64
    /\ \A c \in CPU : MaxNow + skew[c] < U64

USE DEF ctxVars, Domain, BIG, LITTLE, Settle, Patience, LongStint

-----------------------------------------------------------------------------
(* Facts about the helpers                                                 *)

LEMMA Wrapped ==
    ASSUME NEW x \in Int
    PROVE  x % U64 \in U64Value
  BY U64Assumption DEF U64Value

LEMMA NotWrapped ==
    ASSUME NEW x \in Nat, x < U64
    PROVE  x % U64 = x
  BY U64Assumption

LEMMA DomType == ASSUME NEW c \in CPU PROVE dom_of_cpu(c) \in Domain
  BY DEF dom_of_cpu

LEMMA NowType == ASSUME TypeOK, NEW c \in CPU PROVE scx_bpf_now(c) \in U64Value
  BY Wrapped, SkewAssumption DEF TypeOK, scx_bpf_now

LEMMA EwmaIsU64 ==
    ASSUME NEW e \in U64Value, NEW d \in U64Value
    PROVE  Ewma(e, d) \in U64Value
<1> DEFINE m == (e * 3 + d) % U64
<1>1. m \in 0 .. (U64 - 1)
  BY U64Assumption DEF U64Value
<1> HIDE DEF m
<1>2. m \div 4 \in 0 .. (U64 - 1)
  BY <1>1, U64Assumption
<1> QED BY <1>2 DEF m, Ewma, U64Value

LEMMA ReclassifyIsDomain ==
    ASSUME NEW d \in Domain, NEW pinned, NEW ewma
    PROVE  Reclassify(d, pinned, ewma) \in Domain
  BY DEF Reclassify

LEMMA NoCpuIsNone == NoCpu \notin CPU
  BY CpuAssumption DEF CPU, NoCpu

-----------------------------------------------------------------------------
(* Types                                                                   *)

LEMMA TaskTypeInit == Init => TypeOK
<1> SUFFICES ASSUME Init PROVE TypeOK
  OBVIOUS
<1>1. domain \in Domain
  BY ClassifyModeAssumption DEF Init, initial_domain, NoRule
<1>2. 0 \in U64Value /\ big_slice_thresh \in Nat
  BY U64Assumption, ThreshAssumption DEF U64Value
<1> QED BY <1>1, <1>2, RemoteAssumption DEF Init, TypeOK

LEMMA StoppingTypes ==
    ASSUME TypeOK, NEW x \in CPU, NEW restart \in U64Value, Stopping(x, restart)
    PROVE  /\ started_at' \in U64Value /\ exec_ewma' \in U64Value
           /\ ran' \in [Domain -> U64Value] /\ run_ms' \in [Domain -> U64Value]
           /\ stints' \in [Domain -> Nat] /\ domain' \in Domain
           /\ sincePromo' \in 0 .. Settle /\ longRun' \in 0 .. Patience
           /\ UNCHANGED <<now, comm_pinned, truth>>
<1> DEFINE delta == (scx_bpf_now(x) - started_at) % U64
           ewma == Ewma(exec_ewma, delta)
           d == dom_of_cpu(x)
<1>1. delta \in U64Value
  <2>1. scx_bpf_now(x) - started_at \in Int
    BY NowType DEF TypeOK, U64Value
  <2> QED BY <2>1, Wrapped
<1>2. d \in Domain
  BY DomType
<1>3. CASE started_at = 0
  BY <1>3 DEF Stopping, TypeOK
<1>4. CASE started_at # 0
  <2>1. /\ Account(x, delta) /\ exec_ewma' = ewma
        /\ domain' = Reclassify(domain, comm_pinned, ewma)
        /\ sincePromo' = IF domain = LITTLE /\ domain' = BIG THEN 0
                         ELSE Capped(sincePromo + 1, Settle)
        /\ longRun' = IF delta >= LongStint THEN Capped(longRun + 1, Patience) ELSE 0
        /\ started_at' = restart /\ UNCHANGED <<now, comm_pinned, truth>>
    BY <1>4 DEF Stopping
  <2> HIDE DEF delta, d
  <2>2. ewma \in U64Value
    BY <1>1, EwmaIsU64 DEF TypeOK
  <2>3. domain' \in Domain
    BY <2>1, ReclassifyIsDomain DEF TypeOK
  <2>4. big_slice_thresh \in Nat
    BY ThreshAssumption DEF U64Value
  <2>5. sincePromo' \in 0 .. Settle /\ longRun' \in 0 .. Patience
    BY <2>1, <2>4 DEF Capped, TypeOK
  <2>6. /\ ran' \in [Domain -> U64Value] /\ run_ms' \in [Domain -> U64Value]
        /\ stints' \in [Domain -> Nat]
    <3>1. (ran[d] + delta) % U64 \in U64Value
      BY <1>1, <1>2, Wrapped DEF TypeOK, U64Value
    <3>2. delta \div NSEC_PER_MSEC \in Int
      BY <1>1, ClockAssumption DEF U64Value
    <3>3. (run_ms[d] + delta \div NSEC_PER_MSEC) % U64 \in U64Value
      BY <1>2, <3>2, Wrapped DEF TypeOK, U64Value
    <3>4. /\ ran' = [ran EXCEPT ![d] = (ran[d] + delta) % U64]
          /\ run_ms' = [run_ms EXCEPT ![d] = (run_ms[d] + delta \div NSEC_PER_MSEC) % U64]
          /\ stints' = [stints EXCEPT ![d] = stints[d] + 1]
      BY <2>1 DEF Account, d
    <3> QED BY <3>1, <3>3, <3>4, <1>2 DEF TypeOK
  <2> QED BY <2>1, <2>2, <2>3, <2>5, <2>6
<1> QED BY <1>3, <1>4

LEMMA TaskTypeStep == ASSUME TypeOK, [Next]_vars PROVE TypeOK'
<1>1. CASE Tick
  <2>1. PICK k \in Elapse :
            /\ now' = now + k
            /\ truth' = IF cpu = NoCpu THEN truth
                        ELSE [truth EXCEPT ![dom_of_cpu(cpu)] = @ + k]
            /\ UNCHANGED <<cpu, ctxVars, run_ms, stints, sincePromo, longRun>>
    BY <1>1 DEF Tick
  <2>2. k \in Nat
    BY ClockAssumption
  <2>3. truth' \in [Domain -> Nat]
    BY <2>1, <2>2, DomType DEF TypeOK
  <2> QED BY <2>1, <2>2, <2>3 DEF TypeOK
<1>2. CASE \E c \in CPU : bls_running(c)
  <2>1. PICK c \in CPU : bls_running(c)
    BY <1>2
  <2> QED BY <2>1, NowType DEF bls_running, TypeOK
<1>3. CASE bls_stopping
  <2>1. cpu \in CPU /\ Stopping(cpu, 0) /\ cpu' = NoCpu
    BY <1>3 DEF bls_stopping, TypeOK
  <2>2. 0 \in U64Value
    BY U64Assumption DEF U64Value
  <2> QED BY <2>1, <2>2, StoppingTypes DEF TypeOK
<1>4. CASE \E c \in CPU : ChangeFrom(c)
  <2>1. PICK x \in CPU : ChangeFrom(x)
    BY <1>4
  <2>2. Stopping(x, scx_bpf_now(x)) /\ UNCHANGED cpu
    BY <2>1 DEF ChangeFrom
  <2> QED BY <2>2, NowType, StoppingTypes DEF TypeOK
<1>5. CASE UNCHANGED vars
  BY <1>5 DEF vars, TypeOK
<1> QED BY <1>1, <1>2, <1>3, <1>4, <1>5 DEF Next

(* task_ctx and the counters stay in their types whatever the clocks of    *)
(* the CPUs and whoever executes bls_running and bls_stopping.             *)
THEOREM TaskTypeCorrect == Spec => []TypeOK
  BY TaskTypeInit, TaskTypeStep, PTL DEF Spec

-----------------------------------------------------------------------------
(* The inductive invariant while nobody changes the task from elsewhere    *)

(* While the task runs, started_at is when it was put on its CPU, in the   *)
(* time of that CPU.                                                       *)
StartKnown ==
    cpu # NoCpu => started_at > 0 /\ started_at - skew[cpu] <= now

(* What the task has not been charged for yet: the current stint.          *)
Uncharged(d) ==
    IF cpu # NoCpu /\ dom_of_cpu(cpu) = d THEN now - (started_at - skew[cpu]) ELSE 0

Charged == \A d \in Domain : ran[d] + Uncharged(d) = truth[d]

(* Nothing has wrapped: the task ran no longer than the clock.             *)
Young ==
    /\ now \in 1 .. MaxNow
    /\ truth[BIG] + truth[LITTLE] < now
    /\ exec_ewma < now

(* The milliseconds lost are less than one per stint; written so that it   *)
(* says for a task without stints that nothing is lost.                    *)
MsLoss ==
    \A d \in Domain :
        /\ run_ms[d] * NSEC_PER_MSEC <= ran[d]
        /\ ran[d] + stints[d] <= (run_ms[d] + stints[d]) * NSEC_PER_MSEC

(* The first stops after a promotion leave the EWMA above three quarters,  *)
(* then nine sixteenths of the threshold.                                  *)
JustPromoted ==
    /\ sincePromo <= 1 => domain = BIG
    /\ sincePromo = 0 => exec_ewma > big_slice_thresh
    /\ sincePromo = 1 => 4 * exec_ewma >= 3 * big_slice_thresh

(* Every long stint adds one to an EWMA that is not above the threshold.   *)
Climbing ==
    /\ exec_ewma >= longRun
    /\ LongRunnerPromoted

TaskInv == StartKnown /\ Charged /\ Young /\ MsLoss /\ JustPromoted /\ Climbing

(* The EWMA of a clock that is in range does not wrap.                     *)
LEMMA EwmaInRange ==
    ASSUME InRange, TypeOK, Young, NEW d \in Nat, d < now
    PROVE  /\ Ewma(exec_ewma, d) = (exec_ewma * 3 + d) \div 4
           /\ Ewma(exec_ewma, d) < now
<1>1. exec_ewma \in Nat /\ now \in Nat /\ MaxNow \in Nat
  BY ClockAssumption DEF TypeOK, U64Value
<1>2. exec_ewma * 3 + d < 4 * now /\ exec_ewma * 3 + d < U64
  BY <1>1, U64Assumption DEF Young, InRange
<1>3. (exec_ewma * 3 + d) % U64 = exec_ewma * 3 + d
  BY <1>1, <1>2, NotWrapped
<1> QED BY <1>1, <1>2, <1>3 DEF Ewma

(* The length of a stint that is computed on the task's CPU is its length. *)
LEMMA StintLength ==
    ASSUME InRange, TypeOK, StartKnown, Charged, Young, cpu # NoCpu
    PROVE  LET delta == (scx_bpf_now(cpu) - started_at) % U64
               d == dom_of_cpu(cpu) IN
           /\ delta \in Nat /\ delta = Uncharged(d) /\ delta < now
           /\ ran[d] + delta = truth[d] /\ ran[d] + delta < now
           /\ scx_bpf_now(cpu) = now + skew[cpu]
<1> DEFINE d == dom_of_cpu(cpu)
<1>1. cpu \in CPU /\ d \in Domain
  BY DomType DEF TypeOK
<1>2. /\ now \in Nat /\ skew[cpu] \in Nat /\ started_at \in Nat /\ MaxNow \in Nat
      /\ now <= MaxNow /\ MaxNow + skew[cpu] < U64
  BY <1>1, SkewAssumption, ClockAssumption DEF TypeOK, U64Value, Young, InRange
<1>3. scx_bpf_now(cpu) = now + skew[cpu]
  BY <1>2, NotWrapped, U64Assumption DEF scx_bpf_now
<1>4. scx_bpf_now(cpu) - started_at \in Nat /\ scx_bpf_now(cpu) - started_at < U64
  BY <1>2, <1>3, U64Assumption DEF StartKnown
<1>5. (scx_bpf_now(cpu) - started_at) % U64 = now + skew[cpu] - started_at
  <2> DEFINE x == scx_bpf_now(cpu) - started_at
  <2>1. x \in Nat /\ x < U64
    BY <1>4
  <2> HIDE DEF x
  <2>2. x % U64 = x
    BY <2>1, NotWrapped
  <2>3. x = now + skew[cpu] - started_at
    BY <1>2, <1>3 DEF x
  <2> QED BY <2>2, <2>3 DEF x
<1>6. Uncharged(d) = now + skew[cpu] - started_at
  BY <1>2 DEF Uncharged
<1>7. ran[d] + Uncharged(d) = truth[d]
  BY <1>1 DEF Charged
<1>8. truth[d] < now /\ ran[d] \in Nat /\ truth[d] \in Nat
  BY <1>1 DEF Young, TypeOK, U64Value
<1> HIDE DEF d
<1>9. /\ (now + skew[cpu] - started_at) \in Nat
      /\ ran[d] + (now + skew[cpu] - started_at) = truth[d]
  BY <1>2, <1>3, <1>4, <1>6, <1>7
<1>10. now + skew[cpu] - started_at < now
  BY <1>2, <1>8, <1>9
<1> QED BY <1>3, <1>5, <1>6, <1>8, <1>9, <1>10 DEF d

LEMMA TaskInvInit == ASSUME Init PROVE TaskInv
<1>1. StartKnown /\ Charged
  BY DEF Init, StartKnown, Charged, Uncharged
<1>2. Young
  BY ClockAssumption DEF Init, Young
<1>3. MsLoss
  BY ClockAssumption DEF Init, MsLoss
<1>4. JustPromoted /\ Climbing
  BY ThreshAssumption DEF Init, JustPromoted, Climbing, LongRunnerPromoted, U64Value
<1> QED BY <1>1, <1>2, <1>3, <1>4 DEF TaskInv

(* A stint that is charged: rounding down loses less than a millisecond.   *)
LEMMA MsOfStint ==
    ASSUME NEW ms \in Nat, NEW time \in Nat, NEW n \in Nat, NEW delta \in Nat,
           ms * NSEC_PER_MSEC <= time, time + n <= (ms + n) * NSEC_PER_MSEC
    PROVE  LET q == delta \div NSEC_PER_MSEC IN
           /\ q \in Nat /\ ms + q <= time + delta
           /\ (ms + q) * NSEC_PER_MSEC <= time + delta
           /\ time + delta + (n + 1) <= (ms + q + (n + 1)) * NSEC_PER_MSEC
<1> DEFINE q == delta \div NSEC_PER_MSEC
           K == NSEC_PER_MSEC
<1>1. K \in Nat /\ K >= 1
  BY ClockAssumption
<1>2. q \in Nat /\ q * K <= delta /\ delta < q * K + K
  BY <1>1
<1> HIDE DEF q, K
<1>3. /\ (ms + q) * K = ms * K + q * K
      /\ (ms + q + (n + 1)) * K = (ms + n) * K + q * K + K
  BY <1>1, <1>2
<1>4. ms * K \in Nat /\ (ms + n) * K \in Nat /\ q * K \in Nat
  BY <1>1, <1>2
<1>5. ms + q <= (ms + q) * K
  BY <1>1, <1>2
<1>6. ms * K <= time /\ time + n <= (ms + n) * K
  BY DEF K
<1> QED BY <1>1, <1>2, <1>3, <1>4, <1>5, <1>6 DEF q, K

(* What a stop on the task's CPU does to the task: it is charged for the   *)
(* stint, and the classifier sees its length.                              *)
LEMMA StopStep ==
    ASSUME InRange, TypeOK, TaskInv, cpu # NoCpu, NEW restart, Stopping(cpu, restart)
    PROVE  LET d == dom_of_cpu(cpu)  IN
           /\ started_at' = restart
           /\ UNCHANGED <<now, comm_pinned, truth>>
           /\ \A e \in Domain : ran'[e] = truth[e]
           /\ MsLoss'
           /\ exec_ewma' \in Nat /\ exec_ewma' < now
           /\ JustPromoted' /\ Climbing'
           /\ domain = BIG /\ domain' = LITTLE => sincePromo >= Settle - 1
<1> DEFINE d == dom_of_cpu(cpu)
           delta == (scx_bpf_now(cpu) - started_at) % U64
           ewma == Ewma(exec_ewma, delta)
<1>0. cpu \in CPU /\ d \in Domain /\ StartKnown /\ Charged /\ Young /\ MsLoss
  BY DomType DEF TypeOK, TaskInv
<1>1. /\ delta \in Nat /\ delta < now /\ ran[d] + delta = truth[d] /\ ran[d] + delta < now
      /\ now < U64 /\ now \in Nat
  BY <1>0, StintLength, U64Assumption, ClockAssumption DEF InRange, Young
<1>2. started_at # 0
  BY <1>0 DEF StartKnown, TypeOK, U64Value
<1>3. /\ Account(cpu, delta) /\ exec_ewma' = ewma
      /\ domain' = Reclassify(domain, comm_pinned, ewma)
      /\ sincePromo' = IF domain = LITTLE /\ domain' = BIG THEN 0
                       ELSE Capped(sincePromo + 1, Settle)
      /\ longRun' = IF delta >= LongStint THEN Capped(longRun + 1, Patience) ELSE 0
      /\ started_at' = restart /\ UNCHANGED <<now, comm_pinned, truth>>
  BY <1>2 DEF Stopping
<1> HIDE DEF delta, d
<1>4. ewma = (exec_ewma * 3 + delta) \div 4 /\ ewma < now
  BY <1>0, <1>1, EwmaInRange
<1> HIDE DEF ewma
<1>5. /\ exec_ewma \in Nat /\ big_slice_thresh \in Nat /\ domain \in {BIG, LITTLE}
      /\ longRun \in 0 .. Patience /\ sincePromo \in 0 .. Settle /\ comm_pinned \in BOOLEAN
  BY ThreshAssumption DEF TypeOK, U64Value
<1>6. ewma \in Nat
  BY <1>1, <1>4, <1>5
<1>7. /\ ran' = [ran EXCEPT ![d] = (ran[d] + delta) % U64]
      /\ run_ms' = [run_ms EXCEPT ![d] = (run_ms[d] + delta \div NSEC_PER_MSEC) % U64]
      /\ stints' = [stints EXCEPT ![d] = stints[d] + 1]
  BY <1>3 DEF Account, d
<1>8. /\ ran[d] \in Nat /\ run_ms[d] \in Nat /\ stints[d] \in Nat
      /\ ran \in [Domain -> U64Value] /\ run_ms \in [Domain -> U64Value]
      /\ stints \in [Domain -> Nat]
  BY <1>0 DEF TypeOK, U64Value
<1>9. (ran[d] + delta) % U64 = ran[d] + delta
  <2> DEFINE x == ran[d] + delta
  <2>1. x \in Nat /\ x < U64
    BY <1>1, <1>8, U64Assumption
  <2> HIDE DEF x
  <2>2. x % U64 = x
    BY <2>1, NotWrapped
  <2> QED BY <2>2 DEF x
<1>10. \A e \in Domain : ran'[e] = truth[e]
  <2>1. \A e \in Domain : e # d => ran'[e] = ran[e] /\ Uncharged(e) = 0
    BY <1>7, <1>8 DEF Uncharged, d
  <2>2. \A e \in Domain : ran[e] \in Nat /\ truth[e] \in Nat /\ ran[e] + Uncharged(e) = truth[e]
    BY <1>0 DEF Charged, TypeOK, U64Value
  <2>3. ran'[d] = truth[d]
    BY <1>0, <1>1, <1>7, <1>8, <1>9
  <2>4. ASSUME NEW e \in Domain, e # d PROVE ran'[e] = truth[e]
    <3>1. ran'[e] = ran[e] /\ ran[e] + 0 = truth[e] /\ ran[e] \in Nat
      BY <2>1, <2>2, <2>4
    <3> QED BY <3>1
  <2> QED BY <2>3, <2>4
<1>11. MsLoss'
  <2> DEFINE q == delta \div NSEC_PER_MSEC
  <2>1. /\ q \in Nat /\ run_ms[d] + q <= ran[d] + delta
        /\ (run_ms[d] + q) * NSEC_PER_MSEC <= ran[d] + delta
        /\ ran[d] + delta + (stints[d] + 1) <= (run_ms[d] + q + (stints[d] + 1)) * NSEC_PER_MSEC
    BY <1>0, <1>1, <1>8, MsOfStint DEF MsLoss
  <2> HIDE DEF q
  <2>2. (run_ms[d] + q) % U64 = run_ms[d] + q
    <3> DEFINE x == run_ms[d] + q
    <3>1. x \in Nat /\ x < U64
      BY <1>1, <1>8, <2>1, U64Assumption
    <3> HIDE DEF x
    <3>2. x % U64 = x
      BY <3>1, NotWrapped
    <3> QED BY <3>2 DEF x
  <2>3. run_ms' = [run_ms EXCEPT ![d] = run_ms[d] + q] /\ ran' = [ran EXCEPT ![d] = ran[d] + delta]
    BY <1>7, <1>9, <2>2 DEF q
  <2>4. ASSUME NEW e \in Domain
        PROVE  /\ run_ms'[e] * NSEC_PER_MSEC <= ran'[e]
               /\ ran'[e] + stints'[e] <= (run_ms'[e] + stints'[e]) * NSEC_PER_MSEC
    <3>1. CASE e = d
      <4>1. run_ms'[e] = run_ms[d] + q /\ ran'[e] = ran[d] + delta /\ stints'[e] = stints[d] + 1
        BY <3>1, <2>3, <1>7, <1>8
      <4> QED BY <4>1, <2>1
    <3>2. CASE e # d
      <4>1. run_ms'[e] = run_ms[e] /\ ran'[e] = ran[e] /\ stints'[e] = stints[e]
        BY <3>2, <2>3, <1>7, <1>8
      <4> QED BY <4>1, <1>0 DEF MsLoss
    <3> QED BY <3>1, <3>2
  <2> QED BY <2>4 DEF MsLoss
<1>12. JustPromoted' /\ (domain = BIG /\ domain' = LITTLE => sincePromo >= Settle - 1)
  <2>1. JustPromoted
    BY DEF TaskInv
  <2>2. domain' = IF Adapts(comm_pinned) /\ domain = LITTLE /\ ewma > big_slice_thresh THEN BIG
                  ELSE IF Adapts(comm_pinned) /\ domain = BIG /\ ewma < big_slice_thresh \div 2
                  THEN LITTLE ELSE domain
    BY <1>3, <1>5, Zenon DEF Reclassify
  <2>3. CASE domain = LITTLE /\ domain' = BIG
    BY <2>2, <2>3, <1>3, <1>5, <1>6 DEF JustPromoted
  <2>4. CASE ~(domain = LITTLE /\ domain' = BIG)
    <3>1. sincePromo' = IF sincePromo + 1 < 3 THEN sincePromo + 1 ELSE 3
      BY <2>4, <1>3, <1>5 DEF Capped
    <3>2. sincePromo = 0 => ewma >= big_slice_thresh \div 2 /\ 4 * ewma >= 3 * big_slice_thresh
      BY <2>1, <1>1, <1>4, <1>5, <1>6 DEF JustPromoted
    <3>3. sincePromo = 1 => ewma >= big_slice_thresh \div 2
      BY <2>1, <1>1, <1>4, <1>5, <1>6 DEF JustPromoted
    <3>4. sincePromo <= 1 => domain = BIG /\ domain' = BIG
      BY <2>1, <2>2, <3>2, <3>3, <1>5, <1>6 DEF JustPromoted
    <3> QED BY <3>1, <3>2, <3>4, <1>3, <1>5 DEF JustPromoted
  <2> QED BY <2>3, <2>4
<1>13. Climbing'
  <2>1. exec_ewma >= longRun
    BY DEF TaskInv, Climbing
  <2>2. delta >= big_slice_thresh + 4 =>
            ewma >= exec_ewma + 1 \/ ewma >= big_slice_thresh + 1
    BY <1>1, <1>4, <1>5, <1>6
  <2>3. exec_ewma' >= longRun' /\ longRun' \in Nat
    BY <2>1, <2>2, <1>1, <1>3, <1>5, <1>6 DEF Capped
  <2>4. longRun' = Patience /\ Adapts(comm_pinned) => domain' = BIG
    <3> SUFFICES ASSUME longRun' = Patience, Adapts(comm_pinned) PROVE domain' = BIG
      OBVIOUS
    <3>1. ewma > big_slice_thresh /\ ~(ewma < big_slice_thresh \div 2)
      BY <2>3, <1>3, <1>5, <1>6
    <3> QED BY <3>1, <1>3, <1>5, Zenon DEF Reclassify
  <2> QED BY <2>3, <2>4, <1>3 DEF Climbing, LongRunnerPromoted, Adapts
<1> QED BY <1>3, <1>4, <1>6, <1>10, <1>11, <1>12, <1>13

LEMMA TaskInvStep ==
    ASSUME ~Remote, InRange, TypeOK, TaskInv, [Next]_vars
    PROVE  /\ TaskInv'
           /\ domain = BIG /\ domain' = LITTLE => sincePromo >= Settle - 1
<1>0. TypeOK'
  BY TaskTypeStep
<1>1. CASE Tick
  <2>1. PICK k \in Elapse :
            /\ now + k <= MaxNow /\ now' = now + k
            /\ truth' = IF cpu = NoCpu THEN truth
                        ELSE [truth EXCEPT ![dom_of_cpu(cpu)] = truth[dom_of_cpu(cpu)] + k]
            /\ UNCHANGED <<cpu, ctxVars, run_ms, stints, sincePromo, longRun>>
    BY <1>1 DEF Tick
  <2>2. k \in Nat /\ k > 0 /\ now \in Nat /\ exec_ewma \in Nat
    BY ClockAssumption DEF TypeOK, U64Value
  <2>3. StartKnown'
    BY <2>1, <2>2, SkewAssumption DEF TaskInv, StartKnown, TypeOK, U64Value
  <2>4. Charged'
    <3> SUFFICES ASSUME NEW d \in Domain PROVE ran'[d] + Uncharged(d)' = truth'[d]
      BY DEF Charged
    <3>1. ran[d] + Uncharged(d) = truth[d] /\ ran[d] \in Nat /\ truth[d] \in Nat
      BY DEF TaskInv, Charged, TypeOK, U64Value
    <3>2. CASE cpu # NoCpu /\ dom_of_cpu(cpu) = d
      <4>0. cpu' = cpu /\ started_at' = started_at /\ now' = now + k
        BY <2>1
      <4>1. /\ Uncharged(d) = now - (started_at - skew[cpu])
            /\ Uncharged(d)' = now' - (started_at' - skew[cpu'])
        BY <3>2, <4>0, Zenon DEF Uncharged, dom_of_cpu
      <4>2. truth'[d] = truth[d] + k /\ skew[cpu] \in Nat /\ started_at \in Nat
        BY <3>2, <2>1, SkewAssumption DEF TypeOK, U64Value
      <4> QED BY <4>0, <4>1, <4>2, <3>1, <2>1, <2>2
    <3>3. CASE ~(cpu # NoCpu /\ dom_of_cpu(cpu) = d)
      <4>1. Uncharged(d) = 0 /\ Uncharged(d)' = 0 /\ truth'[d] = truth[d] /\ ran'[d] = ran[d]
        BY <3>3, <2>1 DEF Uncharged, dom_of_cpu, TypeOK
      <4> QED BY <4>1, <3>1
    <3> QED BY <3>2, <3>3
  <2>5. Young'
    <3>1. truth'[BIG] + truth'[LITTLE] <= truth[BIG] + truth[LITTLE] + k
      BY <2>1, <2>2, DomType DEF TypeOK
    <3>2. truth[BIG] \in Nat /\ truth[LITTLE] \in Nat /\ truth'[BIG] \in Nat /\ truth'[LITTLE] \in Nat
      BY <1>0 DEF TypeOK
    <3> QED BY <3>1, <3>2, <2>1, <2>2, ClockAssumption DEF TaskInv, Young
  <2>6. MsLoss' /\ JustPromoted' /\ Climbing' /\ domain' = domain
    BY <2>1 DEF TaskInv, MsLoss, JustPromoted, Climbing, LongRunnerPromoted
  <2> QED BY <2>3, <2>4, <2>5, <2>6 DEF TaskInv
<1>2. CASE \E c \in CPU : bls_running(c)
  <2>1. PICK c \in CPU : bls_running(c)
    BY <1>2
  <2>2. /\ cpu = NoCpu /\ cpu' = c /\ started_at' = scx_bpf_now(c)
        /\ UNCHANGED <<now, exec_ewma, ran, domain, comm_pinned, run_ms, truth, stints,
                       sincePromo, longRun>>
    BY <2>1 DEF bls_running
  <2>3. scx_bpf_now(c) = now + skew[c] /\ now \in Nat /\ now >= 1 /\ skew[c] \in Nat
    <3>1. now + skew[c] \in Nat /\ now + skew[c] < U64 /\ now \in Nat /\ now >= 1 /\ skew[c] \in Nat
      BY SkewAssumption, ClockAssumption, U64Assumption DEF TypeOK, TaskInv, Young, InRange
    <3> QED BY <3>1, NotWrapped DEF scx_bpf_now
  <2>4. StartKnown'
    BY <2>2, <2>3 DEF StartKnown
  <2>5. Charged'
    <3> SUFFICES ASSUME NEW d \in Domain PROVE ran'[d] + Uncharged(d)' = truth'[d]
      BY DEF Charged
    <3>1. Uncharged(d) = 0 /\ Uncharged(d)' = 0
      BY <2>2, <2>3 DEF Uncharged
    <3> QED BY <3>1, <2>2 DEF TaskInv, Charged
  <2>6. Young' /\ MsLoss' /\ JustPromoted' /\ Climbing' /\ domain' = domain
    BY <2>2 DEF TaskInv, Young, MsLoss, JustPromoted, Climbing, LongRunnerPromoted
  <2> QED BY <2>4, <2>5, <2>6 DEF TaskInv
<1>3. ASSUME cpu # NoCpu, NEW restart, Stopping(cpu, restart),
             \/ cpu' = NoCpu
             \/ cpu' = cpu /\ restart = scx_bpf_now(cpu)
      PROVE  /\ TaskInv'
             /\ domain = BIG /\ domain' = LITTLE => sincePromo >= Settle - 1
  <2>1. /\ started_at' = restart
        /\ UNCHANGED <<now, comm_pinned, truth>>
        /\ \A e \in Domain : ran'[e] = truth[e]
        /\ MsLoss'
        /\ exec_ewma' \in Nat /\ exec_ewma' < now
        /\ JustPromoted' /\ Climbing'
        /\ domain = BIG /\ domain' = LITTLE => sincePromo >= Settle - 1
    BY <1>3, StopStep
  <2>2. Young'
    BY <2>1 DEF TaskInv, Young
  <2>3. cpu' # NoCpu => /\ cpu \in CPU /\ started_at' = now + skew[cpu]
                        /\ now \in Nat /\ now >= 1 /\ skew[cpu] \in Nat /\ cpu' = cpu
    <3>1. cpu \in CPU
      BY <1>3 DEF TypeOK
    <3>2. scx_bpf_now(cpu) = now + skew[cpu]
      BY <1>3, StintLength DEF TaskInv
    <3> QED BY <3>1, <3>2, <2>1, <1>3, SkewAssumption DEF TypeOK, TaskInv, Young
  <2>4. StartKnown'
    BY <2>1, <2>3 DEF StartKnown
  <2>5. Charged'
    <3> SUFFICES ASSUME NEW d \in Domain PROVE ran'[d] + Uncharged(d)' = truth'[d]
      BY DEF Charged
    <3>1. Uncharged(d)' = 0
      BY <2>1, <2>3 DEF Uncharged
    <3>2. ran'[d] = truth'[d] /\ truth'[d] \in Nat
      BY <2>1 DEF TypeOK
    <3> QED BY <3>1, <3>2
  <2> QED BY <2>1, <2>2, <2>4, <2>5 DEF TaskInv
<1>4. CASE bls_stopping
  BY <1>3, <1>4 DEF bls_stopping
<1>5. CASE \E c \in CPU : ChangeFrom(c)
  <2>1. PICK x \in CPU : ChangeFrom(x)
    BY <1>5
  <2>2. x = cpu /\ cpu # NoCpu /\ Stopping(cpu, scx_bpf_now(cpu)) /\ cpu' = cpu
    BY <2>1 DEF ChangeFrom
  <2> QED BY <2>2, <1>3
<1>6. CASE UNCHANGED vars
  BY <1>6 DEF vars, TaskInv, StartKnown, Charged, Uncharged, dom_of_cpu, Young, MsLoss,
              JustPromoted, Climbing, LongRunnerPromoted
<1> QED BY <1>1, <1>2, <1>4, <1>5, <1>6 DEF Next

LEMMA TaskInvHolds == ASSUME ~Remote, InRange PROVE Spec => []TaskInv
<1>1. Init => TaskInv
  BY TaskInvInit
<1>2. TypeOK /\ TaskInv /\ [Next]_vars => TaskInv'
  BY TaskInvStep
<1> QED BY <1>1, <1>2, TaskTypeCorrect, PTL DEF Spec

-----------------------------------------------------------------------------
(* While the callbacks run on the task's CPU, ran_big_ns and ran_little_ns *)
(* are the time the task spent on big and on little CPUs, whatever the     *)
(* skew between the clocks: started_at and now come from the same one.     *)
THEOREM TimeIsAccounted == ASSUME ~Remote, InRange PROVE Spec => []TimeAccounted
<1>1. TypeOK /\ TaskInv => TimeAccounted
  <2> SUFFICES ASSUME TypeOK, TaskInv, cpu = NoCpu PROVE ran = truth
    BY DEF TimeAccounted
  <2>1. \A d \in Domain : ran[d] = truth[d]
    BY DEF TaskInv, Charged, Uncharged, TypeOK, U64Value
  <2> QED BY <2>1 DEF TypeOK
<1> QED BY <1>1, TaskInvHolds, TaskTypeCorrect, PTL

(* The division in bls_stopping loses less than a millisecond per stint    *)
(* and gains nothing, for every number of stints.                          *)
THEOREM MsIsTruncated == ASSUME ~Remote, InRange PROVE Spec => []MsTruncation
<1>1. TypeOK /\ TaskInv => MsTruncation
  <2> SUFFICES ASSUME TypeOK, TaskInv, NEW d \in Domain
               PROVE  /\ run_ms[d] * NSEC_PER_MSEC <= ran[d]
                      /\ stints[d] > 0 => ran[d] < (run_ms[d] + stints[d]) * NSEC_PER_MSEC
    BY DEF MsTruncation
  <2>1. /\ run_ms[d] * NSEC_PER_MSEC <= ran[d]
        /\ ran[d] + stints[d] <= (run_ms[d] + stints[d]) * NSEC_PER_MSEC
    BY DEF TaskInv, MsLoss
  <2>2. /\ ran[d] \in Nat /\ stints[d] \in Nat
        /\ (run_ms[d] + stints[d]) * NSEC_PER_MSEC \in Nat
    BY ClockAssumption DEF TypeOK, U64Value
  <2> QED BY <2>1, <2>2
<1> QED BY <1>1, TaskInvHolds, TaskTypeCorrect, PTL

(* The truncating EWMA of bls_stopping promotes every task that may adapt  *)
(* after big_slice_thresh + 1 long stints at the latest.                   *)
THEOREM LongRunnerIsPromoted == ASSUME ~Remote, InRange PROVE Spec => []LongRunnerPromoted
<1>1. TaskInv => LongRunnerPromoted
  BY DEF TaskInv, Climbing
<1> QED BY <1>1, TaskInvHolds, PTL

(* The hysteresis of bls_stopping: for every threshold, a task that was    *)
(* promoted is not demoted by the next two stops.                          *)
THEOREM NeverPingPong == ASSUME ~Remote, InRange PROVE Spec => NoPingPong
<1>1. TypeOK /\ TaskInv /\ [Next]_vars
        => [domain = BIG /\ domain' = LITTLE => sincePromo >= Settle - 1]_vars
  BY TaskInvStep
<1> QED BY <1>1, TaskInvHolds, TaskTypeCorrect, PTL DEF Spec, NoPingPong
=============================================================================
