--------------------------- MODULE BlsSchedProofs ---------------------------
(***************************************************************************)
(* Proofs about BlsSched, for every number of CPUs and tasks, every        *)
(* partition, every set of affinity masks and every classifier mode: the   *)
(* types, and OnePlace, which with TypeOK is inductive: no callback of     *)
(* bls.bpf.c, in whatever interleaving, loses a task or queues it twice;   *)
(* and that it implements TaskLife.                                        *)
(***************************************************************************)
EXTENDS BlsSched, SequenceTheorems, WellFoundedInduction, TLAPS

-----------------------------------------------------------------------------
(* The sequence operators the queues are built from: which elements an     *)
(* append, a removal or a tail leaves, and that no duplicates appear       *)

(* A nonempty set of naturals has a least element and Min finds it, as the *)
(* scans over CPU numbers and the search of a DSQ do.                      *)
LEMMA MinInSet ==
    ASSUME NEW S, S \subseteq Nat, S # {}
    PROVE  Min(S) \in S /\ \A y \in S : Min(S) <= y
<1> DEFINE R == {ss \in Nat \X Nat : ss[1] < ss[2]}
<1>1. IsWellFoundedOn(R, Nat)
  BY NatLessThanWellFounded DEF OpToRel
<1>2. PICK x \in S : \A y \in S : ~ (<<y, x>> \in R)
  <2> HIDE DEF R
  <2> QED BY <1>1, WFMin, Zenon
<1>3. ASSUME NEW y \in S PROVE x <= y
  <2>1. x \in Nat /\ y \in Nat
    OBVIOUS
  <2>2. y < x => <<y, x>> \in R
    BY <2>1
  <2>3. ~ (<<y, x>> \in R)
    BY <1>2
  <2> QED BY <2>1, <2>2, <2>3, SMT
<1> QED BY <1>3 DEF Min

(* Removing an element keeps the others in order.                          *)
LEMMA RemoveAtProps ==
    ASSUME NEW T, NEW s \in Seq(T), NEW i \in 1 .. Len(s)
    PROVE  /\ RemoveAt(s, i) \in Seq(T)
           /\ Len(RemoveAt(s, i)) = Len(s) - 1
           /\ \A k \in 1 .. Len(s) - 1 :
                RemoveAt(s, i)[k] = IF k < i THEN s[k] ELSE s[k + 1]
<1> DEFINE a == SubSeq(s, 1, i - 1)
           b == SubSeq(s, i + 1, Len(s))
<1>0. Len(s) \in Nat /\ i \in Nat /\ i >= 1 /\ i <= Len(s)
  OBVIOUS
<1>1. /\ a \in Seq(T)
      /\ Len(a) = i - 1
      /\ \A k \in 1 .. i - 1 : a[k] = s[k]
  BY <1>0
<1>2. /\ b \in Seq(T)
      /\ Len(b) = Len(s) - i
      /\ \A k \in 1 .. Len(s) - i : b[k] = s[i + k]
  BY <1>0
<1>3. RemoveAt(s, i) = a \o b
  BY DEF RemoveAt
<1> HIDE DEF a, b
<1>4. /\ a \o b \in Seq(T)
      /\ Len(a \o b) = Len(s) - 1
      /\ \A k \in 1 .. Len(s) - 1 :
            (a \o b)[k] = IF k <= i - 1 THEN a[k] ELSE b[k - (i - 1)]
  <2>1. /\ a \o b \in Seq(T)
        /\ Len(a \o b) = Len(a) + Len(b)
        /\ \A k \in 1 .. Len(a) + Len(b) :
            (a \o b)[k] = IF k <= Len(a) THEN a[k] ELSE b[k - Len(a)]
    BY <1>1, <1>2, ConcatProperties
  <2>2. Len(a) + Len(b) = Len(s) - 1
    BY <1>0, <1>1, <1>2
  <2> QED BY <1>1, <2>1, <2>2
<1>5. ASSUME NEW k \in 1 .. Len(s) - 1
      PROVE  (a \o b)[k] = IF k < i THEN s[k] ELSE s[k + 1]
  <2>1. CASE k < i
    BY <1>0, <1>1, <1>4, <2>1
  <2>2. CASE ~ (k < i)
    <3>1. (a \o b)[k] = b[k - (i - 1)]
      BY <1>0, <1>4, <2>2
    <3>2. k - (i - 1) \in 1 .. Len(s) - i
      BY <1>0, <2>2
    <3>3. b[k - (i - 1)] = s[i + (k - (i - 1))]
      BY <3>2, <1>2
    <3>4. i + (k - (i - 1)) = k + 1
      BY <1>0
    <3> QED BY <3>1, <3>3, <3>4, <2>2, <1>0
  <2> QED BY <2>1, <2>2
<1> QED BY <1>3, <1>4, <1>5

(* Inserting a task at the tail of a queue it is not on.                   *)
LEMMA AppendQueue ==
    ASSUME NEW T, NEW s \in Seq(T), NEW e \in T
    PROVE  /\ Append(s, e) \in Seq(T)
           /\ ToSet(Append(s, e)) = ToSet(s) \cup {e}
           /\ IsInjective(s) /\ e \notin ToSet(s) => IsInjective(Append(s, e))
<1> DEFINE a == Append(s, e)
<1>0. Len(s) \in Nat /\ DOMAIN s = 1 .. Len(s)
  OBVIOUS
<1>1. /\ a \in Seq(T)
      /\ Len(a) = Len(s) + 1
      /\ DOMAIN a = 1 .. Len(s) + 1
      /\ \A k \in 1 .. Len(s) : a[k] = s[k]
      /\ a[Len(s) + 1] = e
  BY <1>0
<1> HIDE DEF a
<1>2. \A k \in 1 .. Len(s) + 1 : k \in 1 .. Len(s) \/ k = Len(s) + 1
  BY <1>0
<1>3. ToSet(a) = ToSet(s) \cup {e}
  BY <1>0, <1>1, <1>2 DEF ToSet
<1>4. ASSUME IsInjective(s), e \notin ToSet(s) PROVE IsInjective(a)
  BY <1>0, <1>1, <1>2, <1>4 DEF IsInjective, ToSet
<1> QED BY <1>1, <1>3, <1>4 DEF a

(* Taking the element at a position off a queue without duplicates.        *)
LEMMA RemoveAtQueue ==
    ASSUME NEW T, NEW s \in Seq(T), NEW i \in 1 .. Len(s), IsInjective(s)
    PROVE  /\ RemoveAt(s, i) \in Seq(T)
           /\ ToSet(RemoveAt(s, i)) = ToSet(s) \ {s[i]}
           /\ IsInjective(RemoveAt(s, i))
<1> DEFINE r == RemoveAt(s, i)
           at(k) == IF k < i THEN k ELSE k + 1
<1>0. /\ Len(s) \in Nat /\ DOMAIN s = 1 .. Len(s)
      /\ i \in Nat /\ i >= 1 /\ i <= Len(s)
  OBVIOUS
<1>1. /\ r \in Seq(T)
      /\ Len(r) = Len(s) - 1
      /\ \A k \in 1 .. Len(s) - 1 : r[k] = IF k < i THEN s[k] ELSE s[k + 1]
  BY RemoveAtProps
<1>2. DOMAIN r = 1 .. Len(s) - 1
  BY <1>1
<1> HIDE DEF r
<1>3. \A k \in 1 .. Len(s) - 1 : at(k) \in 1 .. Len(s) /\ at(k) # i /\ r[k] = s[at(k)]
  BY <1>0, <1>1
<1>4. \A k, l \in 1 .. Len(s) - 1 : at(k) = at(l) => k = l
  BY <1>0
<1>5. \A k \in 1 .. Len(s) : k # i => \E l \in 1 .. Len(s) - 1 : at(l) = k
  <2>1. TAKE k \in 1 .. Len(s)
  <2>2. HAVE k # i
  <2>3. CASE k < i
    BY <1>0, <2>3
  <2>4. CASE ~ (k < i)
    <3>1. k - 1 \in 1 .. Len(s) - 1 /\ at(k - 1) = k
      BY <1>0, <2>2, <2>4
    <3> QED BY <3>1
  <2> QED BY <2>3, <2>4
<1> HIDE DEF at
<1>6. ToSet(r) = ToSet(s) \ {s[i]}
  <2>1. ASSUME NEW x \in ToSet(r) PROVE x \in ToSet(s) \ {s[i]}
    <3>1. PICK k \in 1 .. Len(s) - 1 : x = r[k]
      BY <1>2 DEF ToSet
    <3>2. x = s[at(k)] /\ at(k) \in DOMAIN s /\ at(k) # i /\ i \in DOMAIN s
      BY <1>0, <1>3, <3>1
    <3> QED BY <3>2 DEF ToSet, IsInjective
  <2>2. ASSUME NEW x \in ToSet(s) \ {s[i]} PROVE x \in ToSet(r)
    <3>1. PICK k \in 1 .. Len(s) : x = s[k]
      BY <1>0 DEF ToSet
    <3>2. PICK l \in 1 .. Len(s) - 1 : at(l) = k
      BY <1>5, <3>1
    <3>3. x = r[l]
      BY <1>3, <3>1, <3>2
    <3> QED BY <1>2, <3>3 DEF ToSet
  <2> QED BY <2>1, <2>2
<1>7. IsInjective(r)
  <2>1. SUFFICES ASSUME NEW k \in 1 .. Len(s) - 1, NEW l \in 1 .. Len(s) - 1, r[k] = r[l]
                 PROVE  k = l
    BY <1>2 DEF IsInjective
  <2>2. s[at(k)] = s[at(l)] /\ at(k) \in DOMAIN s /\ at(l) \in DOMAIN s
    BY <1>0, <1>3, <2>1
  <2>3. at(k) = at(l)
    BY <2>2 DEF IsInjective
  <2> QED BY <1>4, <2>3
<1> QED BY <1>1, <1>6, <1>7 DEF r

(* Taking the first element off a queue without duplicates.                *)
LEMMA TailQueue ==
    ASSUME NEW T, NEW s \in Seq(T), s # <<>>, IsInjective(s)
    PROVE  /\ Head(s) \in ToSet(s) /\ Head(s) \in T
           /\ Tail(s) \in Seq(T)
           /\ ToSet(Tail(s)) = ToSet(s) \ {Head(s)}
           /\ IsInjective(Tail(s))
<1>0. /\ Len(s) \in Nat /\ Len(s) >= 1 /\ DOMAIN s = 1 .. Len(s)
      /\ Head(s) = s[1]
  BY EmptySeq, LenProperties
<1>1. /\ Tail(s) \in Seq(T)
      /\ Len(Tail(s)) = Len(s) - 1
      /\ DOMAIN Tail(s) = 1 .. Len(s) - 1
      /\ \A k \in 1 .. Len(s) - 1 : Tail(s)[k] = s[k + 1]
  BY <1>0, HeadTailProperties
<1> DEFINE r == Tail(s)
<1> HIDE DEF r
<1>2. /\ r \in Seq(T)
      /\ DOMAIN r = 1 .. Len(s) - 1
      /\ \A k \in 1 .. Len(s) - 1 : r[k] = s[k + 1] /\ k + 1 \in DOMAIN s /\ k + 1 # 1
  BY <1>0, <1>1 DEF r
<1>3. ToSet(r) = ToSet(s) \ {s[1]}
  <2>1. ASSUME NEW x \in ToSet(r) PROVE x \in ToSet(s) \ {s[1]}
    <3>1. PICK k \in 1 .. Len(s) - 1 : x = r[k]
      BY <1>2 DEF ToSet
    <3>2. x = s[k + 1] /\ k + 1 \in DOMAIN s /\ k + 1 # 1 /\ 1 \in DOMAIN s
      BY <1>0, <1>2, <3>1
    <3> QED BY <3>2 DEF ToSet, IsInjective
  <2>2. ASSUME NEW x \in ToSet(s) \ {s[1]} PROVE x \in ToSet(r)
    <3>1. PICK k \in 1 .. Len(s) : x = s[k]
      BY <1>0 DEF ToSet
    <3>2. k - 1 \in 1 .. Len(s) - 1 /\ (k - 1) + 1 = k
      BY <1>0, <2>2, <3>1
    <3>3. x = r[k - 1]
      BY <1>2, <3>1, <3>2
    <3> QED BY <1>2, <3>2, <3>3 DEF ToSet
  <2> QED BY <2>1, <2>2
<1>4. IsInjective(r)
  <2>1. SUFFICES ASSUME NEW k \in 1 .. Len(s) - 1, NEW l \in 1 .. Len(s) - 1, r[k] = r[l]
                 PROVE  k = l
    BY <1>2 DEF IsInjective
  <2>2. s[k + 1] = s[l + 1] /\ k + 1 \in DOMAIN s /\ l + 1 \in DOMAIN s
    BY <1>2, <2>1
  <2>3. k + 1 = l + 1
    BY <2>2 DEF IsInjective
  <2> QED BY <1>0, <2>3
<1>5. s[1] \in ToSet(s) /\ s[1] \in T
  BY <1>0 DEF ToSet
<1> QED BY <1>0, <1>2, <1>3, <1>4, <1>5 DEF r

-----------------------------------------------------------------------------
USE DEF BIG, LITTLE, Domain, OtherDomain, NoCpu, NoDsq, NoRule,
        FLAT, COMM, ADAPTIVE, HYBRID

-----------------------------------------------------------------------------
(* Facts about the helpers                                                 *)

(* A waking task's EWMA stays a u64.                                       *)
LEMMA EwmaType ==
    ASSUME NEW e \in U64Value, NEW d \in U64Value
    PROVE  Ewma(e, d) \in U64Value
<1> DEFINE m == (e * 3 + d) % U64
<1>1. m \in 0 .. (U64 - 1)
  BY U64Assumption DEF U64Value
<1> HIDE DEF m
<1>2. m \div 4 \in 0 .. (U64 - 1)
  BY <1>1, U64Assumption
<1> QED BY <1>2 DEF m, Ewma, U64Value

(* The classifier answers with a domain.                                   *)
LEMMA ReclassifyType ==
    ASSUME NEW d \in Domain, NEW pinned, NEW ewma
    PROVE  Reclassify(d, pinned, ewma) \in Domain
  BY DEF Reclassify

LEMMA InitialDomainType ==
    ASSUME NEW c \in Comm
    PROVE  /\ initial_domain(ByComm[c]).domain \in Domain
           /\ initial_domain(ByComm[c]).pinned \in BOOLEAN
  BY CommAssumption DEF initial_domain

(* Counters stay below their bound.                                        *)
LEMMA CountType ==
    ASSUME TypeOK, NEW S
    PROVE  Count(S) \in [Tracked -> 0 .. (StatBound - 1)]
<1>1. SUFFICES ASSUME NEW j \in Tracked
               PROVE  (stats[j] + (IF j \in S THEN 1 ELSE 0)) % StatBound \in 0 .. (StatBound - 1)
  BY DEF Count
<1>2. stats[j] \in Nat
  BY StatAssumption DEF TypeOK
<1>3. stats[j] + (IF j \in S THEN 1 ELSE 0) \in Nat
  BY <1>2
<1> QED BY <1>3, StatAssumption

LEMMA DomOfCpuType ==
    ASSUME NEW c PROVE dom_of_cpu(c) \in Domain
  BY DEF dom_of_cpu

LEMMA DsqIsDomain ==
    ASSUME NEW d \in Domain PROVE dom_dsq(d) = d
  BY DEF dom_dsq

(* A scan of the idle mask returns an idle CPU of the domain, or none.     *)
LEMMA IdleInProps ==
    ASSUME TypeOK, NEW d, NEW mask, IdleIn(d, mask) # {}
    PROVE  Min(IdleIn(d, mask)) \in idle \cap mask
<1>0. idle \subseteq CPU /\ CPU \subseteq Nat
  BY CpuAssumption DEF TypeOK, CPU
<1>1. IdleIn(d, mask) \subseteq Nat
  BY <1>0 DEF IdleIn
<1> QED BY <1>1, MinInSet DEF IdleIn

LEMMA PickProps ==
    ASSUME TypeOK, NEW t \in Task, NEW d, NEW prev,
           pick_idle_in_dom(t, d, prev) # NoCpu
    PROVE  /\ pick_idle_in_dom(t, d, prev) \in idle
           /\ pick_idle_in_dom(t, d, prev) \in allowed[t] \cup {prev}
  BY IdleInProps DEF pick_idle_in_dom

LEMMA KickProps ==
    ASSUME TypeOK, NEW d, NEW mask
    PROVE  kick_idle_in_dom(d, mask) \subseteq idle
  BY IdleInProps DEF kick_idle_in_dom

(* bls_dispatch finds a position of a DSQ.                                 *)
LEMMA DispatchProps ==
    ASSUME TypeOK, NEW c \in CPU, DispatchFrom(c) # NoDsq
    PROVE  /\ DispatchFrom(c) \in Domain
           /\ Min(Eligible(c, DispatchFrom(c))) \in 1 .. Len(dsq[DispatchFrom(c)])
           /\ dsq[DispatchFrom(c)][Min(Eligible(c, DispatchFrom(c)))] \in Task
           /\ c \in allowed[dsq[DispatchFrom(c)][Min(Eligible(c, DispatchFrom(c)))]]
<1> DEFINE d == DispatchFrom(c)
<1>1. d \in Domain /\ Eligible(c, d) # {}
  BY DomOfCpuType, DsqIsDomain DEF DispatchFrom
<1> HIDE DEF d
<1>2. dsq[d] \in Seq(Task) /\ Len(dsq[d]) \in Nat
  BY <1>1 DEF TypeOK
<1>3. Eligible(c, d) \subseteq Nat
  BY <1>2 DEF Eligible
<1>4. Min(Eligible(c, d)) \in Eligible(c, d)
  BY <1>1, <1>3, MinInSet
<1>5. Min(Eligible(c, d)) \in 1 .. Len(dsq[d])
  BY <1>4 DEF Eligible
<1>6. dsq[d][Min(Eligible(c, d))] \in Task
  BY <1>2, <1>5, ElementOfSeq
<1>7. c \in allowed[dsq[d][Min(Eligible(c, d))]]
  BY <1>4 DEF Eligible
<1> QED BY <1>1, <1>5, <1>6, <1>7 DEF d

-----------------------------------------------------------------------------
(* Type correctness                                                        *)

(* What the pick does to the types; TypeOK of the rest is up to the        *)
(* calling action.                                                         *)
LEMMA DispatchType ==
    ASSUME TypeOK, NEW c \in CPU, NEW ts \in [Task -> TaskState], NEW S,
           bls_dispatch(c, ts, S)
    PROVE  /\ tstate' \in [Task -> TaskState]
           /\ tcpu' \in [Task -> CPU]
           /\ dsq' \in [Domain -> Seq(Task)]
           /\ local' \in [CPU -> Seq(Task)]
           /\ stats' \in [Tracked -> 0 .. (StatBound - 1)]
<1>1. CASE local[c] # <<>> \/ DispatchFrom(c) = NoDsq
  <2>1. /\ tstate' = ts /\ stats' = Count(S)
        /\ UNCHANGED <<tcpu, dsq, local>>
    BY <1>1 DEF bls_dispatch
  <2> QED BY <2>1, CountType DEF TypeOK
<1>2. CASE local[c] = <<>> /\ DispatchFrom(c) # NoDsq
  <2> DEFINE d == DispatchFrom(c)
             i == Min(Eligible(c, d))
             t == dsq[d][i]
             hit == IF d = dom_of_cpu(c) THEN "LOCAL_HIT" ELSE "STEAL"
  <2>1. d \in Domain /\ i \in 1 .. Len(dsq[d]) /\ t \in Task
    BY <1>2, DispatchProps
  <2>2. /\ tstate' = [ts EXCEPT ![t] = "local"]
        /\ tcpu' = [tcpu EXCEPT ![t] = c]
        /\ dsq' = [dsq EXCEPT ![d] = RemoveAt(@, i)]
        /\ local' = [local EXCEPT ![c] = <<t>>]
        /\ stats' = Count(S \cup {hit})
    BY <1>2 DEF bls_dispatch
  <2> HIDE DEF d, i, t, hit
  <2>3. dsq[d] \in Seq(Task)
    BY <2>1 DEF TypeOK
  <2>4. RemoveAt(dsq[d], i) \in Seq(Task)
    BY <2>1, <2>3, RemoveAtProps
  <2>5. tstate' \in [Task -> TaskState] /\ tcpu' \in [Task -> CPU]
    BY <2>1, <2>2 DEF TypeOK, TaskState
  <2>6. dsq' \in [Domain -> Seq(Task)] /\ local' \in [CPU -> Seq(Task)]
    BY <2>1, <2>2, <2>4 DEF TypeOK
  <2> QED BY <2>2, <2>5, <2>6, CountType
<1> QED BY <1>1, <1>2

(* The same for the end of a switch.                                       *)
LEMMA SetNextType ==
    ASSUME TypeOK, NEW c \in CPU, NEW ts \in [Task -> TaskState], NEW claim,
           SetNext(c, ts, claim)
    PROVE  /\ tstate' \in [Task -> TaskState]
           /\ local' \in [CPU -> Seq(Task)]
           /\ curr' \in [CPU -> Task \cup {NoTask}]
           /\ insched' \subseteq CPU
           /\ idle' \subseteq CPU
           /\ UNCHANGED <<allowed, tcpu, uei>>
<1>1. CASE local[c] = <<>>
  BY <1>1 DEF SetNext, NextTask, TypeOK
<1>2. CASE local[c] # <<>>
  <2>1. local[c] \in Seq(Task)
    BY DEF TypeOK
  <2>2. Head(local[c]) \in Task /\ Tail(local[c]) \in Seq(Task)
    BY <1>2, <2>1, HeadTailProperties
  <2>3. Head(local[c]) # NoTask
    BY <2>2, TaskAssumption
  <2> QED BY <1>2, <2>2, <2>3 DEF SetNext, NextTask, TypeOK, TaskState
<1> QED BY <1>1, <1>2

(* bls_stopping keeps the task context typed.                              *)
LEMMA StoppingType ==
    ASSUME TypeOK, NEW t \in Task, NEW delta \in U64Value, bls_stopping(t, delta)
    PROVE  /\ domain' \in [Task -> Domain]
           /\ exec_ewma' \in [Task -> U64Value]
           /\ comm_pinned' \in [Task -> BOOLEAN]
           /\ StoppedDomain(t, delta) \in Domain
<1>1. Ewma(exec_ewma[t], delta) \in U64Value
  BY EwmaType DEF TypeOK
<1>2. StoppedDomain(t, delta) \in Domain
  BY ReclassifyType DEF TypeOK, StoppedDomain
<1> QED BY <1>1, <1>2 DEF bls_stopping, StoppedEwma, TypeOK

(* Removing a task from a queue it may be on.                              *)
LEMMA UnlinkType ==
    ASSUME NEW s \in Seq(Task), NEW t \in Task
    PROVE  Unlink(s, t) \in Seq(Task)
<1>1. CASE t \in ToSet(s)
  <2> DEFINE k == CHOOSE k \in 1 .. Len(s) : s[k] = t
  <2>1. \E j \in 1 .. Len(s) : s[j] = t
    BY <1>1 DEF ToSet
  <2>2. k \in 1 .. Len(s)
    BY <2>1
  <2> HIDE DEF k
  <2>3. RemoveAt(s, k) \in Seq(Task)
    BY <2>2, RemoveAtProps
  <2> QED BY <1>1, <2>3 DEF Unlink, k
<1>2. CASE t \notin ToSet(s)
  BY <1>2 DEF Unlink
<1> QED BY <1>1, <1>2

LEMMA MaskProps ==
    ASSUME NEW m \in Masks
    PROVE  m \in (SUBSET CPU) \ {{}}
  BY MaskAssumption

(* A mask that a change leaves is one, too.                                *)
LEMMA MaskAfterType ==
    ASSUME TypeOK, NEW t \in Task, NEW m \in MaskAfter(t)
    PROVE  m \in (SUBSET CPU) \ {{}}
  BY MaskProps DEF MaskAfter, TypeOK

LEMMA TaskStepType ==
    ASSUME TypeOK, NEW t \in Task, TaskStep(t)
    PROVE  TypeOK'
<1> USE DEF vars, taskVars, ctxVars, cpuVars
<1>1. CASE bls_init_task(t)
  <2>1. PICK c \in Comm, m \in Masks, cpu \in CPU :
            LET init == initial_domain(ByComm[c]) IN
            /\ cpu \in m
            /\ allowed' = [allowed EXCEPT ![t] = m]
            /\ tcpu' = [tcpu EXCEPT ![t] = cpu]
            /\ domain' = [domain EXCEPT ![t] = init.domain]
            /\ comm_pinned' = [comm_pinned EXCEPT ![t] = init.pinned]
            /\ stats' = Count({IF init.domain = LITTLE THEN "TASKS_LITTLE" ELSE "TASKS_BIG"})
    BY <1>1 DEF bls_init_task
  <2>2. /\ exec_ewma' = [exec_ewma EXCEPT ![t] = 0]
        /\ tstate' = [tstate EXCEPT ![t] = "asleep"]
        /\ UNCHANGED <<dsq, local, cpuVars, uei>>
    BY <1>1 DEF bls_init_task
  <2>3. domain' \in [Task -> Domain] /\ comm_pinned' \in [Task -> BOOLEAN]
    BY <2>1, InitialDomainType DEF TypeOK
  <2>4. stats' \in [Tracked -> 0 .. (StatBound - 1)]
    BY <2>1, CountType
  <2>5. allowed' \in [Task -> (SUBSET CPU) \ {{}}] /\ tcpu' \in [Task -> CPU]
    BY <2>1, MaskProps DEF TypeOK
  <2>6. 0 \in U64Value
    BY U64Assumption DEF U64Value
  <2> QED BY <2>2, <2>3, <2>4, <2>5, <2>6 DEF TypeOK, TaskState
<1>2. CASE TaskFree(t)
  <2>1. 0 \in U64Value
    BY U64Assumption DEF U64Value
  <2>2. 0 \in CPU
    BY CpuAssumption DEF CPU
  <2>3. CPU \in (SUBSET CPU) \ {{}}
    BY <2>2
  <2> QED BY <1>2, <2>1, <2>2, <2>3 DEF TaskFree, TypeOK, TaskState
<1>3. ASSUME NEW cpu, NEW st \in TaskState, WakeTo(t, cpu, st), cpu \in CPU,
             idle' \subseteq CPU, stats' \in [Tracked -> 0 .. (StatBound - 1)]
      PROVE  TypeOK'
  <2>1. Landing(t, cpu) \subseteq CPU
    BY <1>3 DEF Landing, TypeOK
  <2> QED BY <1>3, <2>1 DEF WakeTo, TypeOK
<1>4. CASE SelectOwn(t)
  <2>1. OwnIdle(t) \in CPU
    BY <1>4, PickProps DEF SelectOwn, OwnIdle, TypeOK
  <2>2. idle' \subseteq CPU /\ stats' \in [Tracked -> 0 .. (StatBound - 1)]
    BY <1>4, CountType DEF SelectOwn, TypeOK
  <2> QED BY <1>3, <1>4, <2>1, <2>2 DEF SelectOwn, TaskState
<1>5. CASE SelectSpill(t)
  <2>1. SpillIdle(t) \in CPU
    BY <1>5, PickProps DEF SelectSpill, SpillIdle, TypeOK
  <2>2. idle' \subseteq CPU /\ stats' \in [Tracked -> 0 .. (StatBound - 1)]
    BY <1>5, CountType DEF SelectSpill, TypeOK
  <2> QED BY <1>3, <1>5, <2>1, <2>2 DEF SelectSpill, TaskState
<1>6. CASE SelectPrev(t)
  <2>1. tcpu[t] \in CPU /\ idle' \subseteq CPU
    BY <1>6 DEF SelectPrev, TypeOK
  <2>2. stats' \in [Tracked -> 0 .. (StatBound - 1)]
    BY <1>6, CountType DEF SelectPrev
  <2> QED BY <1>3, <1>6, <2>1, <2>2 DEF SelectPrev, TaskState
<1>7. CASE WakeBound(t)
  <2>1. PICK c \in allowed[t] : WakeTo(t, c, "enqueue")
    BY <1>7 DEF WakeBound
  <2>2. c \in CPU /\ idle' \subseteq CPU /\ stats' \in [Tracked -> 0 .. (StatBound - 1)]
    BY <1>7 DEF WakeBound, TypeOK
  <2> QED BY <1>3, <2>1, <2>2 DEF TaskState
<1>8. CASE ActivateDirect(t)
  <2>1. tcpu[t] \in CPU /\ local[tcpu[t]] \in Seq(Task)
    BY DEF TypeOK
  <2>2. Append(local[tcpu[t]], t) \in Seq(Task)
    BY <2>1, AppendProperties
  <2> QED BY <1>8, <2>1, <2>2 DEF ActivateDirect, Preempted, TypeOK, TaskState
<1>9. CASE ActivateEnqueue(t)
  <2> DEFINE d == domain[t]
             claim == kick_idle_in_dom(d, allowed[t])
  <2>1. d \in Domain /\ dom_dsq(d) = d /\ tcpu[t] \in CPU /\ dsq[d] \in Seq(Task)
    BY DsqIsDomain DEF TypeOK
  <2>2. claim \subseteq CPU
    BY KickProps DEF TypeOK
  <2>3. Append(dsq[d], t) \in Seq(Task)
    BY <2>1, AppendProperties
  <2>4. /\ dsq' = [dsq EXCEPT ![dom_dsq(d)] = Append(@, t)]
        /\ idle' = idle \ claim
        /\ kicked' = kicked \cup claim \cup Preempted(tcpu[t])
        /\ stats' = Count(EnqStats(d))
        /\ tstate' = [tstate EXCEPT ![t] = "dsq"]
        /\ UNCHANGED <<allowed, tcpu, ctxVars, local, curr, insched, uei>>
    BY <1>9 DEF ActivateEnqueue
  <2>5. stats' \in [Tracked -> 0 .. (StatBound - 1)]
    BY <2>4, CountType
  <2> HIDE DEF d, claim
  <2> QED BY <2>1, <2>2, <2>3, <2>4, <2>5 DEF Preempted, TypeOK, TaskState
<1>10. CASE SetAffinityAsleep(t)
  BY <1>10, MaskProps DEF SetAffinityAsleep, TypeOK
<1>11. CASE ChangeQueued(t)
  <2>1. PICK m \in MaskAfter(t) : \E c \in (IF tcpu[t] \in m THEN {tcpu[t]} ELSE m) :
            LET d == domain[t]
                claim == kick_idle_in_dom(d, m)
                moved == IF c = tcpu[t] THEN {} ELSE Preempted(c)
            IN  /\ c \notin insched
                /\ allowed' = [allowed EXCEPT ![t] = m]
                /\ tcpu' = [tcpu EXCEPT ![t] = c]
                /\ dsq' = [dsq EXCEPT ![dom_dsq(d)] = Append(Unlink(@, t), t)]
                /\ local' = [local EXCEPT ![tcpu[t]] = Unlink(@, t)]
                /\ idle' = idle \ claim
                /\ kicked' = kicked \cup claim \cup moved
                /\ stats' = Count(EnqStats(d))
    BY <1>11 DEF ChangeQueued
  <2>2. PICK c \in (IF tcpu[t] \in m THEN {tcpu[t]} ELSE m) :
            LET d == domain[t]
                claim == kick_idle_in_dom(d, m)
                moved == IF c = tcpu[t] THEN {} ELSE Preempted(c)
            IN  /\ c \notin insched
                /\ allowed' = [allowed EXCEPT ![t] = m]
                /\ tcpu' = [tcpu EXCEPT ![t] = c]
                /\ dsq' = [dsq EXCEPT ![dom_dsq(d)] = Append(Unlink(@, t), t)]
                /\ local' = [local EXCEPT ![tcpu[t]] = Unlink(@, t)]
                /\ idle' = idle \ claim
                /\ kicked' = kicked \cup claim \cup moved
                /\ stats' = Count(EnqStats(d))
    BY <2>1
  <2> DEFINE d == domain[t]
  <2>3. c \in CPU /\ m \in (SUBSET CPU) \ {{}}
    BY <2>2, MaskAfterType DEF TypeOK
  <2>4. d \in Domain /\ dom_dsq(d) = d /\ dsq[d] \in Seq(Task)
    BY DsqIsDomain DEF TypeOK
  <2>5. tcpu[t] \in CPU /\ local[tcpu[t]] \in Seq(Task)
    BY DEF TypeOK
  <2>6. Unlink(local[tcpu[t]], t) \in Seq(Task) /\ Append(Unlink(dsq[d], t), t) \in Seq(Task)
    BY <2>4, <2>5, UnlinkType, AppendProperties
  <2>7. kick_idle_in_dom(d, m) \subseteq CPU
    BY KickProps DEF TypeOK
  <2>8. stats' \in [Tracked -> 0 .. (StatBound - 1)]
    BY <2>2, CountType
  <2>9. dsq' \in [Domain -> Seq(Task)] /\ local' \in [CPU -> Seq(Task)]
    BY <2>2, <2>4, <2>5, <2>6 DEF TypeOK
  <2>10. idle' \subseteq CPU /\ kicked' \subseteq CPU
    BY <2>2, <2>3, <2>7 DEF Preempted, TypeOK
  <2>11. allowed' \in [Task -> (SUBSET CPU) \ {{}}] /\ tcpu' \in [Task -> CPU]
    BY <2>2, <2>3 DEF TypeOK
  <2> QED BY <1>11, <2>8, <2>9, <2>10, <2>11 DEF ChangeQueued, TypeOK, TaskState
<1>12. CASE bls_exit(t)
  BY <1>12 DEF bls_exit, TypeOK
<1> QED BY <1>1, <1>2, <1>4, <1>5, <1>6, <1>7, <1>8, <1>9, <1>10, <1>11, <1>12
        DEF TaskStep

LEMMA CpuStepType ==
    ASSUME TypeOK, NEW c \in CPU, CpuStep(c)
    PROVE  TypeOK'
<1> USE DEF vars, taskVars, ctxVars, cpuVars
<1>0. ASSUME EnterSchedule(c)
      PROVE  /\ allowed' \in [Task -> (SUBSET CPU) \ {{}}]
             /\ curr' \in [CPU -> Task \cup {NoTask}]
             /\ insched' \subseteq CPU /\ idle' \subseteq CPU /\ kicked' \subseteq CPU
             /\ uei' \in {"none", "stall"}
  BY <1>0 DEF EnterSchedule, TypeOK
<1>1. CASE IdleResched(c) \/ SliceEnd(c)
  <2>1. EnterSchedule(c) /\ bls_dispatch(c, tstate, {}) /\ UNCHANGED ctxVars
    BY <1>1 DEF IdleResched, SliceEnd
  <2>2. tstate \in [Task -> TaskState]
    BY DEF TypeOK
  <2> QED BY <1>0, <2>1, <2>2, DispatchType DEF TypeOK
<1>2. CASE Block(c)
  <2>1. PICK delta \in Deltas :
            /\ bls_stopping(curr[c], delta)
            /\ bls_dispatch(c, [tstate EXCEPT ![curr[c]] = "asleep"],
                            ReclassifyStats(curr[c], delta))
    BY <1>2 DEF Block
  <2>2. curr[c] \in Task /\ delta \in U64Value /\ EnterSchedule(c)
    BY <1>2, DeltaAssumption DEF Block, TypeOK
  <2>3. [tstate EXCEPT ![curr[c]] = "asleep"] \in [Task -> TaskState]
    BY <2>2 DEF TypeOK, TaskState
  <2>4. /\ domain' \in [Task -> Domain]
        /\ exec_ewma' \in [Task -> U64Value]
        /\ comm_pinned' \in [Task -> BOOLEAN]
    BY <2>1, <2>2, StoppingType
  <2>5. /\ tstate' \in [Task -> TaskState]
        /\ tcpu' \in [Task -> CPU]
        /\ dsq' \in [Domain -> Seq(Task)]
        /\ local' \in [CPU -> Seq(Task)]
        /\ stats' \in [Tracked -> 0 .. (StatBound - 1)]
    BY <2>1, <2>3, DispatchType
  <2> QED BY <1>0, <2>2, <2>4, <2>5 DEF TypeOK
<1>3. CASE Switch(c)
  <2>1. SetNext(c, tstate, {}) /\ UNCHANGED <<ctxVars, dsq, kicked, stats>>
    BY <1>3 DEF Switch
  <2>2. tstate \in [Task -> TaskState]
    BY DEF TypeOK
  <2>3. /\ tstate' \in [Task -> TaskState]
        /\ local' \in [CPU -> Seq(Task)]
        /\ curr' \in [CPU -> Task \cup {NoTask}]
        /\ insched' \subseteq CPU /\ idle' \subseteq CPU
        /\ UNCHANGED <<allowed, tcpu, uei>>
    BY <2>1, <2>2, SetNextType
  <2> QED BY <2>1, <2>3 DEF TypeOK
<1>4. CASE SwitchPreempt(c)
  <2> DEFINE p == curr[c]
             d(x) == StoppedDomain(p, x)
             claim(x) == kick_idle_in_dom(d(x), allowed[p])
  <2>1. PICK x \in Deltas :
            /\ bls_stopping(p, x)
            /\ dsq' = [dsq EXCEPT ![dom_dsq(d(x))] = Append(@, p)]
            /\ kicked' = kicked \cup claim(x)
            /\ stats' = Count(ReclassifyStats(p, x) \cup EnqStats(d(x)))
            /\ SetNext(c, [tstate EXCEPT ![p] = "dsq"], claim(x))
    BY <1>4 DEF SwitchPreempt
  <2>2. p \in Task /\ x \in U64Value
    BY <1>4, DeltaAssumption DEF SwitchPreempt, StillRunnable, TypeOK
  <2>3. /\ domain' \in [Task -> Domain]
        /\ exec_ewma' \in [Task -> U64Value]
        /\ comm_pinned' \in [Task -> BOOLEAN]
        /\ d(x) \in Domain
    BY <2>1, <2>2, StoppingType
  <2>4. claim(x) \subseteq CPU
    BY KickProps DEF TypeOK
  <2>5. stats' \in [Tracked -> 0 .. (StatBound - 1)]
    BY <2>1, CountType
  <2>6. [tstate EXCEPT ![p] = "dsq"] \in [Task -> TaskState]
    BY <2>2 DEF TypeOK, TaskState
  <2>7. /\ tstate' \in [Task -> TaskState]
        /\ local' \in [CPU -> Seq(Task)]
        /\ curr' \in [CPU -> Task \cup {NoTask}]
        /\ insched' \subseteq CPU /\ idle' \subseteq CPU
        /\ UNCHANGED <<allowed, tcpu, uei>>
    BY <2>1, <2>6, SetNextType
  <2> HIDE DEF p, d, claim
  <2>8. dsq[d(x)] \in Seq(Task) /\ dom_dsq(d(x)) = d(x)
    BY <2>3, DsqIsDomain DEF TypeOK
  <2>9. Append(dsq[d(x)], p) \in Seq(Task)
    BY <2>2, <2>8, AppendProperties
  <2>10. dsq' \in [Domain -> Seq(Task)] /\ kicked' \subseteq CPU
    BY <2>1, <2>3, <2>4, <2>8, <2>9 DEF TypeOK
  <2> QED BY <2>3, <2>5, <2>7, <2>10 DEF TypeOK
<1>5. CASE ChangeRunning(c)
  <2>1. curr[c] \in Task
    BY <1>5 DEF ChangeRunning, TypeOK
  <2>2. PICK x \in RemoteDeltas :
            bls_stopping(curr[c], x) /\ stats' = Count(ReclassifyStats(curr[c], x))
    BY <1>5 DEF ChangeRunning
  <2>3. x \in U64Value
    BY DeltaAssumption
  <2>4. /\ domain' \in [Task -> Domain]
        /\ exec_ewma' \in [Task -> U64Value]
        /\ comm_pinned' \in [Task -> BOOLEAN]
        /\ stats' \in [Tracked -> 0 .. (StatBound - 1)]
    BY <2>1, <2>2, <2>3, StoppingType, CountType
  <2>5. PICK m \in MaskAfter(curr[c]) : allowed' = [allowed EXCEPT ![curr[c]] = m]
    BY <1>5 DEF ChangeRunning
  <2>6. m \in (SUBSET CPU) \ {{}}
    BY <2>1, MaskAfterType
  <2>7. allowed' \in [Task -> (SUBSET CPU) \ {{}}]
    BY <2>5, <2>6 DEF TypeOK
  <2> QED BY <1>5, <2>4, <2>7 DEF ChangeRunning, TypeOK
<1> QED BY <1>1, <1>2, <1>3, <1>4, <1>5 DEF CpuStep

(* Every variable of the scheduler model keeps its type: no scan leaves    *)
(* the CPUs, no EWMA or counter leaves its width.                          *)
THEOREM TypeCorrect == Spec => []TypeOK
<1>1. Init => TypeOK
  <2>1. SUFFICES ASSUME Init PROVE TypeOK
    OBVIOUS
  <2>2. 0 \in U64Value
    BY U64Assumption DEF U64Value
  <2>3. 0 \in CPU
    BY CpuAssumption DEF CPU
  <2>4. CPU \in (SUBSET CPU) \ {{}}
    BY <2>3
  <2>5. 0 \in 0 .. (StatBound - 1)
    BY StatAssumption
  <2> QED BY <2>1, <2>2, <2>3, <2>4, <2>5 DEF Init, TypeOK, TaskState
<1>2. TypeOK /\ [Next]_vars => TypeOK'
  <2>1. SUFFICES ASSUME TypeOK, [Next]_vars PROVE TypeOK'
    OBVIOUS
  <2>2. CASE \E t \in Task : TaskStep(t)
    BY <2>1, <2>2, TaskStepType
  <2>3. CASE \E c \in CPU : CpuStep(c)
    BY <2>1, <2>3, CpuStepType
  <2>4. CASE UNCHANGED vars
    BY <2>1, <2>4 DEF TypeOK, vars, taskVars, ctxVars, cpuVars
  <2> QED BY <2>1, <2>2, <2>3, <2>4 DEF Next, Ejected
<1> QED BY <1>1, <1>2, PTL DEF Spec

-----------------------------------------------------------------------------
(* What the queue operations do to the sets of queued tasks                *)

(* One more task at the end of a DSQ.                                      *)
LEMMA DsqInsert ==
    ASSUME TypeOK, QueuesDistinct, NEW d \in Domain, NEW t \in Task, t \notin ToSet(dsq[d]),
           dsq' = [dsq EXCEPT ![d] = Append(@, t)]
    PROVE  \A e \in Domain :
             /\ IsInjective(dsq'[e])
             /\ ToSet(dsq'[e]) = ToSet(dsq[e]) \cup (IF e = d THEN {t} ELSE {})
<1>1. /\ ToSet(Append(dsq[d], t)) = ToSet(dsq[d]) \cup {t}
      /\ IsInjective(Append(dsq[d], t))
  BY AppendQueue DEF TypeOK, QueuesDistinct
<1>2. TAKE e \in Domain
<1>3. CASE e = d
  <2>1. dsq'[e] = Append(dsq[d], t)
    BY <1>3 DEF TypeOK
  <2> QED BY <1>1, <1>3, <2>1
<1>4. CASE e # d
  <2>1. dsq'[e] = dsq[e]
    BY <1>4 DEF TypeOK
  <2> QED BY <1>4, <2>1 DEF QueuesDistinct
<1> QED BY <1>3, <1>4

(* One more task at the end of a local DSQ.                                *)
LEMMA LocalInsert ==
    ASSUME TypeOK, QueuesDistinct, NEW c \in CPU, NEW t \in Task, t \notin ToSet(local[c]),
           local' = [local EXCEPT ![c] = Append(@, t)]
    PROVE  \A e \in CPU :
             /\ IsInjective(local'[e])
             /\ ToSet(local'[e]) = ToSet(local[e]) \cup (IF e = c THEN {t} ELSE {})
<1>1. /\ ToSet(Append(local[c], t)) = ToSet(local[c]) \cup {t}
      /\ IsInjective(Append(local[c], t))
  BY AppendQueue DEF TypeOK, QueuesDistinct
<1>2. TAKE e \in CPU
<1>3. CASE e = c
  <2>1. local'[e] = Append(local[c], t)
    BY <1>3 DEF TypeOK
  <2> QED BY <1>1, <1>3, <2>1
<1>4. CASE e # c
  <2>1. local'[e] = local[e]
    BY <1>4 DEF TypeOK
  <2> QED BY <1>4, <2>1 DEF QueuesDistinct
<1> QED BY <1>3, <1>4

(* A DSQ without the task at position i.                                   *)
LEMMA DsqRemove ==
    ASSUME TypeOK, QueuesDistinct, NEW d \in Domain, NEW i \in 1 .. Len(dsq[d]),
           dsq' = [dsq EXCEPT ![d] = RemoveAt(@, i)]
    PROVE  \A e \in Domain :
             /\ IsInjective(dsq'[e])
             /\ ToSet(dsq'[e]) = ToSet(dsq[e]) \ (IF e = d THEN {dsq[d][i]} ELSE {})
<1>1. /\ ToSet(RemoveAt(dsq[d], i)) = ToSet(dsq[d]) \ {dsq[d][i]}
      /\ IsInjective(RemoveAt(dsq[d], i))
  BY RemoveAtQueue DEF TypeOK, QueuesDistinct
<1>2. TAKE e \in Domain
<1>3. CASE e = d
  <2>1. dsq'[e] = RemoveAt(dsq[d], i)
    BY <1>3 DEF TypeOK
  <2> QED BY <1>1, <1>3, <2>1
<1>4. CASE e # d
  <2>1. dsq'[e] = dsq[e]
    BY <1>4 DEF TypeOK
  <2> QED BY <1>4, <2>1 DEF QueuesDistinct
<1> QED BY <1>3, <1>4

(* A local DSQ without its first task.                                     *)
LEMMA LocalTail ==
    ASSUME TypeOK, QueuesDistinct, NEW c \in CPU, local[c] # <<>>,
           local' = [local EXCEPT ![c] = Tail(@)]
    PROVE  \A e \in CPU :
             /\ IsInjective(local'[e])
             /\ ToSet(local'[e]) = ToSet(local[e]) \ (IF e = c THEN {Head(local[c])} ELSE {})
<1>1. /\ ToSet(Tail(local[c])) = ToSet(local[c]) \ {Head(local[c])}
      /\ IsInjective(Tail(local[c]))
  BY TailQueue DEF TypeOK, QueuesDistinct
<1>2. TAKE e \in CPU
<1>3. CASE e = c
  <2>1. local'[e] = Tail(local[c])
    BY <1>3 DEF TypeOK
  <2> QED BY <1>1, <1>3, <2>1
<1>4. CASE e # c
  <2>1. local'[e] = local[e]
    BY <1>4 DEF TypeOK
  <2> QED BY <1>4, <2>1 DEF QueuesDistinct
<1> QED BY <1>3, <1>4

(* A queue of one task.                                                    *)
LEMMA SingleSets ==
    ASSUME NEW T, NEW t \in T
    PROVE  IsInjective(<<t>>) /\ ToSet(<<t>>) = {t}
  BY DEF IsInjective, ToSet

LEMMA EmptySets ==
    IsInjective(<<>>) /\ ToSet(<<>>) = {}
  BY DEF IsInjective, ToSet

-----------------------------------------------------------------------------
(* Steps of a task                                                         *)

(* A task that is absent, waking up, or asleep and switched out, is        *)
(* nowhere.                                                                *)
LEMMA NotHeld ==
    ASSUME TypeOK, OnePlace, NEW t \in Task,
           \/ tstate[t] \in {"absent", "direct", "enqueue"}
           \/ tstate[t] = "asleep" /\ OffCpu(t)
    PROVE  /\ \A d \in Domain : t \notin ToSet(dsq[d])
           /\ \A c \in CPU : t \notin ToSet(local[c])
           /\ \A c \in CPU : curr[c] # t
<1>1. \A d \in Domain : t \notin ToSet(dsq[d])
  BY DEF OnePlace, DsqHolds
<1>2. \A c \in CPU : t \notin ToSet(local[c])
  BY DEF OnePlace, LocalHolds
<1>3. \A c \in CPU : curr[c] # t
  BY TaskAssumption DEF OnePlace, CurrentRuns, OffCpu
<1> QED BY <1>1, <1>2, <1>3

(* A step that only moves such a task to another such state.               *)
LEMMA StaysNowhere ==
    ASSUME TypeOK, OnePlace, TypeOK', NEW t \in Task,
           \/ tstate[t] \in {"absent", "direct", "enqueue"}
           \/ tstate[t] = "asleep" /\ OffCpu(t),
           NEW st \in {"absent", "asleep", "direct", "enqueue"},
           tstate' = [tstate EXCEPT ![t] = st],
           \A u \in Task \ {t} : tcpu'[u] = tcpu[u] /\ domain'[u] = domain[u],
           UNCHANGED <<dsq, local, curr, insched>>
    PROVE  OnePlace'
<1>1. /\ \A d \in Domain : t \notin ToSet(dsq[d])
      /\ \A c \in CPU : t \notin ToSet(local[c])
      /\ \A c \in CPU : curr[c] # t
  BY NotHeld
<1>2. /\ tstate'[t] = st
      /\ \A u \in Task \ {t} : tstate'[u] = tstate[u]
  BY DEF TypeOK
<1>3. QueuesDistinct'
  BY DEF OnePlace, QueuesDistinct
<1>4. DsqHolds'
  BY <1>1, <1>2 DEF OnePlace, DsqHolds
<1>5. LocalHolds'
  BY <1>1, <1>2 DEF OnePlace, LocalHolds
<1>6. RunnerIsCurrent'
  BY <1>2 DEF OnePlace, RunnerIsCurrent
<1>7. CurrentRuns'
  <2>1. SUFFICES ASSUME NEW c \in CPU, curr[c] # NoTask
                 PROVE  /\ tcpu'[curr[c]] = c
                        /\ tstate'[curr[c]] = "running"
                           \/ (c \in insched /\ tstate'[curr[c]] = "asleep")
    BY DEF CurrentRuns
  <2>2. curr[c] \in Task \ {t}
    BY <1>1, <2>1 DEF TypeOK
  <2> QED BY <1>2, <2>1, <2>2 DEF OnePlace, CurrentRuns
<1> QED BY <1>3, <1>4, <1>5, <1>6, <1>7 DEF OnePlace

(* bls_enqueue, or a direct insert, puts such a task on one queue.         *)
LEMMA ActivateOnePlace ==
    ASSUME TypeOK, OnePlace, TypeOK', NEW t \in Task,
           ActivateDirect(t) \/ ActivateEnqueue(t)
    PROVE  OnePlace'
<1> USE DEF ctxVars
<1>0. domain[t] \in Domain /\ dom_dsq(domain[t]) = domain[t] /\ tcpu[t] \in CPU
  BY DsqIsDomain DEF TypeOK
<1>1. /\ \A d \in Domain : t \notin ToSet(dsq[d])
      /\ \A c \in CPU : t \notin ToSet(local[c])
      /\ \A c \in CPU : curr[c] # t
  BY NotHeld DEF ActivateDirect, ActivateEnqueue
<1>2. UNCHANGED <<tcpu, domain, curr, insched>>
  BY DEF ActivateDirect, ActivateEnqueue
<1>3. \A u \in Task \ {t} : tstate'[u] = tstate[u]
  BY DEF ActivateDirect, ActivateEnqueue, TypeOK
<1>4. RunnerIsCurrent'
  <2>1. tstate'[t] # "running"
    BY DEF ActivateDirect, ActivateEnqueue, TypeOK
  <2> QED BY <1>2, <1>3, <2>1 DEF OnePlace, RunnerIsCurrent
<1>5. CurrentRuns'
  <2>1. \A c \in CPU : curr[c] # NoTask => curr[c] \in Task \ {t}
    BY <1>1 DEF TypeOK
  <2> QED BY <1>2, <1>3, <2>1 DEF OnePlace, CurrentRuns
<1>6. CASE ActivateDirect(t)
  <2>1. /\ tstate'[t] = "local" /\ UNCHANGED dsq
        /\ local' = [local EXCEPT ![tcpu[t]] = Append(@, t)]
    BY <1>6 DEF ActivateDirect, TypeOK
  <2>2. \A e \in CPU :
          /\ IsInjective(local'[e])
          /\ ToSet(local'[e]) = ToSet(local[e]) \cup (IF e = tcpu[t] THEN {t} ELSE {})
    BY <1>0, <1>1, <2>1, LocalInsert DEF OnePlace
  <2>3. QueuesDistinct'
    BY <2>1, <2>2 DEF OnePlace, QueuesDistinct
  <2>4. DsqHolds'
    BY <1>1, <1>2, <1>3, <2>1 DEF OnePlace, DsqHolds
  <2>5. LocalHolds'
    <3>1. SUFFICES ASSUME NEW u \in Task, NEW c \in CPU
                   PROVE  u \in ToSet(local'[c]) <=> tstate'[u] = "local" /\ tcpu[u] = c
      BY <1>2 DEF LocalHolds
    <3>2. u \in ToSet(local[c]) <=> tstate[u] = "local" /\ tcpu[u] = c
      BY DEF OnePlace, LocalHolds
    <3>3. ToSet(local'[c]) = ToSet(local[c]) \cup (IF c = tcpu[t] THEN {t} ELSE {})
      BY <2>2
    <3>4. CASE u = t
      BY <1>1, <2>1, <3>3, <3>4
    <3>5. CASE u # t
      BY <1>3, <3>2, <3>3, <3>5
    <3> QED BY <3>4, <3>5
  <2> QED BY <1>4, <1>5, <2>3, <2>4, <2>5 DEF OnePlace
<1>7. CASE ActivateEnqueue(t)
  <2>1. /\ tstate'[t] = "dsq" /\ UNCHANGED local
        /\ dsq' = [dsq EXCEPT ![domain[t]] = Append(@, t)]
    BY <1>0, <1>7 DEF ActivateEnqueue, TypeOK
  <2>2. \A e \in Domain :
          /\ IsInjective(dsq'[e])
          /\ ToSet(dsq'[e]) = ToSet(dsq[e]) \cup (IF e = domain[t] THEN {t} ELSE {})
    BY <1>0, <1>1, <2>1, DsqInsert DEF OnePlace
  <2>3. QueuesDistinct'
    BY <2>1, <2>2 DEF OnePlace, QueuesDistinct
  <2>4. LocalHolds'
    BY <1>1, <1>2, <1>3, <2>1 DEF OnePlace, LocalHolds
  <2>5. DsqHolds'
    BY <1>1, <1>2, <1>3, <2>1, <2>2 DEF OnePlace, DsqHolds
  <2> QED BY <1>4, <1>5, <2>3, <2>4, <2>5 DEF OnePlace
<1> QED BY <1>6, <1>7

-----------------------------------------------------------------------------
(* The pick                                                                *)

(* bls_dispatch leaves the queues alone or moves one task of a DSQ, that   *)
(* may use the CPU, to the empty local DSQ.                                *)
LEMMA DispatchSets ==
    ASSUME TypeOK, OnePlace, NEW c \in CPU, NEW ts, NEW S, bls_dispatch(c, ts, S)
    PROVE  \/ tstate' = ts /\ UNCHANGED <<tcpu, dsq, local>>
           \/ \E t \in Task, d \in Domain :
                /\ t \in ToSet(dsq[d]) /\ c \in allowed[t]
                /\ ToSet(local[c]) = {}
                /\ tstate' = [ts EXCEPT ![t] = "local"]
                /\ tcpu' = [tcpu EXCEPT ![t] = c]
                /\ \A e \in Domain :
                     /\ IsInjective(dsq'[e])
                     /\ ToSet(dsq'[e]) = ToSet(dsq[e]) \ (IF e = d THEN {t} ELSE {})
                /\ \A x \in CPU :
                     /\ IsInjective(local'[x])
                     /\ ToSet(local'[x]) = IF x = c THEN {t} ELSE ToSet(local[x])
<1>1. CASE local[c] # <<>> \/ DispatchFrom(c) = NoDsq
  BY <1>1 DEF bls_dispatch
<1>2. CASE local[c] = <<>> /\ DispatchFrom(c) # NoDsq
  <2> DEFINE d == DispatchFrom(c)
             i == Min(Eligible(c, d))
             t == dsq[d][i]
  <2>1. /\ d \in Domain /\ i \in 1 .. Len(dsq[d])
        /\ t \in Task /\ c \in allowed[t]
    BY <1>2, DispatchProps
  <2>2. /\ tstate' = [ts EXCEPT ![t] = "local"]
        /\ tcpu' = [tcpu EXCEPT ![t] = c]
        /\ dsq' = [dsq EXCEPT ![d] = RemoveAt(@, i)]
        /\ local' = [local EXCEPT ![c] = <<t>>]
    BY <1>2 DEF bls_dispatch
  <2> HIDE DEF d, i
  <2>3. \A e \in Domain :
          /\ IsInjective(dsq'[e])
          /\ ToSet(dsq'[e]) = ToSet(dsq[e]) \ (IF e = d THEN {t} ELSE {})
    BY <2>1, <2>2, DsqRemove DEF OnePlace
  <2>4. t \in ToSet(dsq[d])
    BY <2>1 DEF ToSet
  <2> HIDE DEF t
  <2>5. ToSet(local[c]) = {}
    BY <1>2, EmptySets
  <2>6. IsInjective(<<t>>) /\ ToSet(<<t>>) = {t}
    BY <2>1, SingleSets
  <2>7. \A x \in CPU : local'[x] = IF x = c THEN <<t>> ELSE local[x]
    BY <2>2 DEF TypeOK
  <2>8. \A x \in CPU :
          /\ IsInjective(local'[x])
          /\ ToSet(local'[x]) = IF x = c THEN {t} ELSE ToSet(local[x])
    BY <2>6, <2>7 DEF OnePlace, QueuesDistinct
  <2> QED BY <2>1, <2>2, <2>3, <2>4, <2>5, <2>8
<1> QED BY <1>1, <1>2

(* A pick on CPU c, after which the current task may have blocked and been *)
(* reclassified.                                                           *)
LEMMA PickOnePlace ==
    ASSUME TypeOK, OnePlace, TypeOK', NEW c \in CPU, NEW ts, NEW S,
           EnterSchedule(c), bls_dispatch(c, ts, S), ts \in [Task -> TaskState],
           \A u \in Task : \/ ts[u] = tstate[u] /\ domain'[u] = domain[u]
                           \/ u = curr[c] /\ ts[u] = "asleep"
    PROVE  OnePlace'
<1>1. /\ c \notin insched /\ insched' = insched \cup {c}
      /\ UNCHANGED curr
  BY DEF EnterSchedule
<1>2. \A u \in Task : u = curr[c] => tstate[u] = "running" /\ tcpu[u] = c
  BY <1>1, TaskAssumption DEF OnePlace, CurrentRuns
<1>3. CASE tstate' = ts /\ UNCHANGED <<tcpu, dsq, local>>
  <2>1. QueuesDistinct'
    BY <1>3 DEF OnePlace, QueuesDistinct
  <2>2. DsqHolds'
    BY <1>2, <1>3 DEF OnePlace, DsqHolds
  <2>3. LocalHolds'
    BY <1>2, <1>3 DEF OnePlace, LocalHolds
  <2>4. RunnerIsCurrent'
    BY <1>1, <1>3 DEF OnePlace, RunnerIsCurrent
  <2>5. CurrentRuns'
    <3>1. SUFFICES ASSUME NEW x \in CPU, curr[x] # NoTask
                   PROVE  /\ tcpu[curr[x]] = x
                          /\ ts[curr[x]] = "running" \/ (x \in insched' /\ ts[curr[x]] = "asleep")
      BY <1>1, <1>3 DEF CurrentRuns
    <3>2. curr[x] \in Task
      BY <3>1 DEF TypeOK
    <3>3. /\ tcpu[curr[x]] = x
          /\ tstate[curr[x]] = "running" \/ (x \in insched /\ tstate[curr[x]] = "asleep")
      BY <3>1 DEF OnePlace, CurrentRuns
    <3>4. curr[x] = curr[c] => x = c
      BY <1>2, <3>2, <3>3
    <3> QED BY <1>1, <3>2, <3>3, <3>4
  <2> QED BY <2>1, <2>2, <2>3, <2>4, <2>5 DEF OnePlace
<1>4. ASSUME NEW t \in Task, NEW d \in Domain,
             t \in ToSet(dsq[d]), ToSet(local[c]) = {},
             tstate' = [ts EXCEPT ![t] = "local"],
             tcpu' = [tcpu EXCEPT ![t] = c],
             \A e \in Domain :
                 /\ IsInjective(dsq'[e])
                 /\ ToSet(dsq'[e]) = ToSet(dsq[e]) \ (IF e = d THEN {t} ELSE {}),
             \A x \in CPU :
                 /\ IsInjective(local'[x])
                 /\ ToSet(local'[x]) = IF x = c THEN {t} ELSE ToSet(local[x])
      PROVE  OnePlace'
  <2>1. tstate[t] = "dsq" /\ domain[t] = d
    BY <1>4 DEF OnePlace, DsqHolds
  <2>2. t # curr[c] /\ domain'[t] = d
    BY <1>2, <2>1
  <2>3. /\ tstate'[t] = "local" /\ tcpu'[t] = c
        /\ \A u \in Task \ {t} : tstate'[u] = ts[u] /\ tcpu'[u] = tcpu[u]
    BY <1>4 DEF TypeOK
  <2>4. QueuesDistinct'
    BY <1>4 DEF QueuesDistinct
  <2>5. DsqHolds'
    <3>1. SUFFICES ASSUME NEW u \in Task, NEW e \in Domain
                   PROVE  u \in ToSet(dsq'[e]) <=> tstate'[u] = "dsq" /\ domain'[u] = e
      BY DEF DsqHolds
    <3>2. u \in ToSet(dsq[e]) <=> tstate[u] = "dsq" /\ domain[u] = e
      BY DEF OnePlace, DsqHolds
    <3>3. ToSet(dsq'[e]) = ToSet(dsq[e]) \ (IF e = d THEN {t} ELSE {})
      BY <1>4
    <3>4. CASE u = t
      BY <2>1, <2>3, <3>2, <3>3, <3>4
    <3>5. CASE u # t
      BY <1>2, <2>3, <3>2, <3>3, <3>5
    <3> QED BY <3>4, <3>5
  <2>6. LocalHolds'
    <3>1. SUFFICES ASSUME NEW u \in Task, NEW x \in CPU
                   PROVE  u \in ToSet(local'[x]) <=> tstate'[u] = "local" /\ tcpu'[u] = x
      BY DEF LocalHolds
    <3>2. u \in ToSet(local[x]) <=> tstate[u] = "local" /\ tcpu[u] = x
      BY DEF OnePlace, LocalHolds
    <3>3. ToSet(local'[x]) = IF x = c THEN {t} ELSE ToSet(local[x])
      BY <1>4
    <3>4. CASE u = t
      BY <2>1, <2>3, <3>2, <3>3, <3>4
    <3>5. CASE u # t
      <4>1. u \in ToSet(local'[x]) <=> u \in ToSet(local[x])
        BY <1>4, <3>3, <3>5
      <4>2. tstate'[u] = "local" <=> tstate[u] = "local"
        BY <1>2, <2>3, <3>5
      <4> QED BY <2>3, <3>2, <3>5, <4>1, <4>2
    <3> QED BY <3>4, <3>5
  <2>7. RunnerIsCurrent'
    <3>1. SUFFICES ASSUME NEW u \in Task, tstate'[u] = "running"
                   PROVE  curr[tcpu'[u]] = u
      BY <1>1 DEF RunnerIsCurrent
    <3>2. u # t /\ tstate[u] = "running"
      BY <2>3, <3>1
    <3> QED BY <2>3, <3>2 DEF OnePlace, RunnerIsCurrent
  <2>8. CurrentRuns'
    <3>1. SUFFICES ASSUME NEW x \in CPU, curr[x] # NoTask
                   PROVE  /\ tcpu'[curr[x]] = x
                          /\ tstate'[curr[x]] = "running"
                             \/ (x \in insched' /\ tstate'[curr[x]] = "asleep")
      BY <1>1 DEF CurrentRuns
    <3>2. curr[x] \in Task
      BY <3>1 DEF TypeOK
    <3>3. /\ tcpu[curr[x]] = x
          /\ tstate[curr[x]] = "running" \/ (x \in insched /\ tstate[curr[x]] = "asleep")
      BY <3>1 DEF OnePlace, CurrentRuns
    <3>4. curr[x] = curr[c] => x = c
      BY <1>2, <3>2, <3>3
    <3>5. curr[x] # t
      BY <2>1, <3>3
    <3> QED BY <1>1, <2>3, <3>2, <3>3, <3>4, <3>5
  <2> QED BY <2>4, <2>5, <2>6, <2>7, <2>8 DEF OnePlace
<1>5. \/ tstate' = ts /\ UNCHANGED <<tcpu, dsq, local>>
      \/ \E t \in Task, d \in Domain :
           /\ t \in ToSet(dsq[d]) /\ c \in allowed[t]
           /\ ToSet(local[c]) = {}
           /\ tstate' = [ts EXCEPT ![t] = "local"]
           /\ tcpu' = [tcpu EXCEPT ![t] = c]
           /\ \A e \in Domain :
                /\ IsInjective(dsq'[e])
                /\ ToSet(dsq'[e]) = ToSet(dsq[e]) \ (IF e = d THEN {t} ELSE {})
           /\ \A x \in CPU :
                /\ IsInjective(local'[x])
                /\ ToSet(local'[x]) = IF x = c THEN {t} ELSE ToSet(local[x])
  BY DispatchSets
<1> QED BY <1>3, <1>4, <1>5

-----------------------------------------------------------------------------
(* The switch                                                              *)

(* The end of a switch on CPU c, its previous task having blocked or been  *)
(* queued again: everything but the DSQs.                                  *)
LEMMA SetNextOnePlace ==
    ASSUME TypeOK, OnePlace, TypeOK', NEW c \in CPU, c \in insched, NEW claim,
           NEW ts \in [Task -> TaskState], SetNext(c, ts, claim),
           \A u \in Task : u # curr[c] => ts[u] = tstate[u],
           \A u \in Task : u = curr[c] => ts[u] \in {"asleep", "dsq"}
    PROVE  /\ \A x \in CPU : IsInjective(local'[x])
           /\ LocalHolds' /\ RunnerIsCurrent' /\ CurrentRuns'
           /\ \A u \in Task : tstate'[u] = "dsq" <=> ts[u] = "dsq"
<1>1. UNCHANGED tcpu /\ insched' = insched \ {c}
  BY DEF SetNext
<1>2. \A u \in Task : u = curr[c] => tcpu[u] = c /\ tstate[u] \in {"running", "asleep"}
  BY TaskAssumption DEF OnePlace, CurrentRuns
<1>3. \A x \in CPU : curr[x] # NoTask =>
        /\ curr[x] \in Task /\ tcpu[curr[x]] = x
        /\ tstate[curr[x]] = "running" \/ (x \in insched /\ tstate[curr[x]] = "asleep")
  BY DEF OnePlace, CurrentRuns, TypeOK
<1>4. CASE local[c] = <<>>
  <2>1. tstate' = ts /\ UNCHANGED local /\ curr' = [curr EXCEPT ![c] = NoTask]
    BY <1>4 DEF SetNext, NextTask
  <2>2. \A x \in CPU : curr'[x] = IF x = c THEN NoTask ELSE curr[x]
    BY <2>1 DEF TypeOK
  <2>3. \A x \in CPU : IsInjective(local'[x])
    BY <2>1 DEF OnePlace, QueuesDistinct
  <2>4. LocalHolds'
    BY <1>1, <1>2, <2>1 DEF OnePlace, LocalHolds
  <2>5. RunnerIsCurrent'
    <3>1. SUFFICES ASSUME NEW u \in Task, ts[u] = "running"
                   PROVE  curr'[tcpu[u]] = u
      BY <1>1, <2>1 DEF RunnerIsCurrent
    <3>2. u # curr[c] /\ tstate[u] = "running"
      BY <3>1
    <3>3. curr[tcpu[u]] = u /\ tcpu[u] \in CPU
      BY <3>2 DEF OnePlace, RunnerIsCurrent, TypeOK
    <3> QED BY <2>2, <3>2, <3>3
  <2>6. CurrentRuns'
    <3>1. SUFFICES ASSUME NEW x \in CPU, curr'[x] # NoTask
                   PROVE  /\ tcpu[curr'[x]] = x
                          /\ ts[curr'[x]] = "running"
                             \/ (x \in insched' /\ ts[curr'[x]] = "asleep")
      BY <1>1, <2>1 DEF CurrentRuns
    <3>2. x # c /\ curr'[x] = curr[x]
      BY <2>2, <3>1
    <3>3. curr[x] # curr[c]
      BY <1>2, <1>3, <3>1, <3>2
    <3> QED BY <1>1, <1>3, <3>1, <3>2, <3>3
  <2> QED BY <2>1, <2>3, <2>4, <2>5, <2>6
<1>5. CASE local[c] # <<>>
  <2> DEFINE n == Head(local[c])
  <2>1. n \in Task /\ n \in ToSet(local[c])
    BY <1>5, TailQueue DEF OnePlace, QueuesDistinct, TypeOK
  <2>2. n # NoTask
    BY <2>1, TaskAssumption
  <2>3. /\ tstate' = [ts EXCEPT ![n] = "running"]
        /\ local' = [local EXCEPT ![c] = Tail(@)]
        /\ curr' = [curr EXCEPT ![c] = n]
    BY <1>5, <2>2 DEF SetNext, NextTask
  <2>4. \A x \in CPU :
          /\ IsInjective(local'[x])
          /\ ToSet(local'[x]) = ToSet(local[x]) \ (IF x = c THEN {n} ELSE {})
    BY <1>5, <2>3, LocalTail DEF OnePlace
  <2> HIDE DEF n
  <2>5. tstate[n] = "local" /\ tcpu[n] = c /\ n # curr[c]
    BY <1>2, <2>1 DEF OnePlace, LocalHolds
  <2>6. /\ tstate'[n] = "running"
        /\ \A u \in Task \ {n} : tstate'[u] = ts[u]
    BY <2>1, <2>3
  <2>7. \A x \in CPU : curr'[x] = IF x = c THEN n ELSE curr[x]
    BY <2>3 DEF TypeOK
  <2>8. LocalHolds'
    <3>1. SUFFICES ASSUME NEW u \in Task, NEW x \in CPU
                   PROVE  u \in ToSet(local'[x]) <=> tstate'[u] = "local" /\ tcpu[u] = x
      BY <1>1 DEF LocalHolds
    <3>2. u \in ToSet(local[x]) <=> tstate[u] = "local" /\ tcpu[u] = x
      BY DEF OnePlace, LocalHolds
    <3>3. ToSet(local'[x]) = ToSet(local[x]) \ (IF x = c THEN {n} ELSE {})
      BY <2>4
    <3>4. CASE u = n
      BY <2>5, <2>6, <3>2, <3>3, <3>4
    <3>5. CASE u # n
      BY <1>2, <2>6, <3>2, <3>3, <3>5
    <3> QED BY <3>4, <3>5
  <2>9. RunnerIsCurrent'
    <3>1. SUFFICES ASSUME NEW u \in Task, tstate'[u] = "running"
                   PROVE  curr'[tcpu[u]] = u
      BY <1>1 DEF RunnerIsCurrent
    <3>2. CASE u = n
      BY <2>5, <2>7, <3>2
    <3>3. CASE u # n
      <4>1. u # curr[c] /\ tstate[u] = "running"
        BY <2>6, <3>1, <3>3
      <4>2. curr[tcpu[u]] = u /\ tcpu[u] \in CPU
        BY <4>1 DEF OnePlace, RunnerIsCurrent, TypeOK
      <4> QED BY <2>7, <4>1, <4>2
    <3> QED BY <3>2, <3>3
  <2>10. CurrentRuns'
    <3>1. SUFFICES ASSUME NEW x \in CPU, curr'[x] # NoTask
                   PROVE  /\ tcpu[curr'[x]] = x
                          /\ tstate'[curr'[x]] = "running"
                             \/ (x \in insched' /\ tstate'[curr'[x]] = "asleep")
      BY <1>1 DEF CurrentRuns
    <3>2. CASE x = c
      BY <2>5, <2>6, <2>7, <3>2
    <3>3. CASE x # c
      <4>1. curr'[x] = curr[x] /\ curr[x] # NoTask
        BY <2>7, <3>1, <3>3
      <4>2. curr[x] # curr[c] /\ curr[x] # n /\ curr[x] \in Task
        BY <1>2, <1>3, <2>5, <3>3, <4>1
      <4> QED BY <1>1, <1>3, <2>6, <3>3, <4>1, <4>2
    <3> QED BY <3>2, <3>3
  <2>11. \A u \in Task : tstate'[u] = "dsq" <=> ts[u] = "dsq"
    BY <2>5, <2>6, <2>1
  <2> QED BY <2>4, <2>8, <2>9, <2>10, <2>11
<1> QED BY <1>4, <1>5

LEMMA SwitchOnePlace ==
    ASSUME TypeOK, OnePlace, TypeOK', NEW c \in CPU, Switch(c)
    PROVE  OnePlace'
<1>1. /\ c \in insched /\ SetNext(c, tstate, {}) /\ ~StillRunnable(c)
      /\ UNCHANGED <<domain, dsq>>
  BY DEF Switch, ctxVars
<1>2. \A u \in Task : u = curr[c] => tstate[u] = "asleep"
  BY <1>1, TaskAssumption DEF StillRunnable, OnePlace, CurrentRuns
<1>3. tstate \in [Task -> TaskState]
  BY DEF TypeOK
<1>4. /\ \A x \in CPU : IsInjective(local'[x])
      /\ LocalHolds' /\ RunnerIsCurrent' /\ CurrentRuns'
      /\ \A u \in Task : tstate'[u] = "dsq" <=> tstate[u] = "dsq"
  BY <1>1, <1>2, <1>3, SetNextOnePlace
<1>5. QueuesDistinct' /\ DsqHolds'
  BY <1>1, <1>4 DEF OnePlace, QueuesDistinct, DsqHolds
<1> QED BY <1>4, <1>5 DEF OnePlace

(* The preempted task is queued under the domain bls_stopping left it in.  *)
LEMMA SwitchPreemptOnePlace ==
    ASSUME TypeOK, OnePlace, TypeOK', NEW c \in CPU, SwitchPreempt(c)
    PROVE  OnePlace'
<1> DEFINE p == curr[c]
<1>1. PICK delta \in Deltas :
        LET d == StoppedDomain(p, delta)
            claim == kick_idle_in_dom(d, allowed[p])
        IN  /\ bls_stopping(p, delta)
            /\ dsq' = [dsq EXCEPT ![dom_dsq(d)] = Append(@, p)]
            /\ SetNext(c, [tstate EXCEPT ![p] = "dsq"], claim)
  BY DEF SwitchPreempt
<1> DEFINE d == StoppedDomain(p, delta)
           ts == [tstate EXCEPT ![p] = "dsq"]
<1>2. c \in insched /\ p \in Task /\ tstate[p] = "running"
  BY DEF SwitchPreempt, StillRunnable, TypeOK
<1>3. d \in Domain
  BY <1>1, <1>2, StoppingType, DeltaAssumption
<1>4. domain' = [domain EXCEPT ![p] = d]
  BY <1>1 DEF bls_stopping
<1>5. dsq' = [dsq EXCEPT ![d] = Append(@, p)]
  BY <1>1, <1>3, DsqIsDomain
<1>6. PICK claim : SetNext(c, ts, claim)
  BY <1>1
<1> HIDE DEF d
<1>7. p \notin ToSet(dsq[d])
  BY <1>2, <1>3 DEF OnePlace, DsqHolds
<1>8. \A e \in Domain :
        /\ IsInjective(dsq'[e])
        /\ ToSet(dsq'[e]) = ToSet(dsq[e]) \cup (IF e = d THEN {p} ELSE {})
  BY <1>2, <1>3, <1>5, <1>7, DsqInsert DEF OnePlace
<1>9. /\ ts \in [Task -> TaskState] /\ ts[p] = "dsq"
      /\ \A u \in Task : u # p => ts[u] = tstate[u]
  BY <1>2 DEF TypeOK, TaskState
<1> HIDE DEF ts
<1>10. /\ \A x \in CPU : IsInjective(local'[x])
       /\ LocalHolds' /\ RunnerIsCurrent' /\ CurrentRuns'
       /\ \A u \in Task : tstate'[u] = "dsq" <=> ts[u] = "dsq"
  BY <1>2, <1>6, <1>9, SetNextOnePlace
<1>11. QueuesDistinct'
  BY <1>8, <1>10 DEF QueuesDistinct
<1>12. DsqHolds'
  <2>1. SUFFICES ASSUME NEW u \in Task, NEW e \in Domain
                 PROVE  u \in ToSet(dsq'[e]) <=> tstate'[u] = "dsq" /\ domain'[u] = e
    BY DEF DsqHolds
  <2>2. u \in ToSet(dsq[e]) <=> tstate[u] = "dsq" /\ domain[u] = e
    BY DEF OnePlace, DsqHolds
  <2>3. ToSet(dsq'[e]) = ToSet(dsq[e]) \cup (IF e = d THEN {p} ELSE {})
    BY <1>8
  <2>4. domain'[u] = IF u = p THEN d ELSE domain[u]
    BY <1>2, <1>4 DEF TypeOK
  <2>5. CASE u = p
    BY <1>2, <1>9, <1>10, <2>2, <2>3, <2>4, <2>5
  <2>6. CASE u # p
    BY <1>9, <1>10, <2>2, <2>3, <2>4, <2>6
  <2> QED BY <2>5, <2>6
<1> QED BY <1>10, <1>11, <1>12 DEF OnePlace

-----------------------------------------------------------------------------
(* Changes from outside                                                    *)

(* Unlinking a task that may be on the queue.                              *)
LEMMA UnlinkSets ==
    ASSUME NEW s \in Seq(Task), IsInjective(s), NEW t \in Task
    PROVE  /\ Unlink(s, t) \in Seq(Task)
           /\ ToSet(Unlink(s, t)) = ToSet(s) \ {t}
           /\ IsInjective(Unlink(s, t))
<1>1. CASE t \in ToSet(s)
  <2> DEFINE k == CHOOSE k \in 1 .. Len(s) : s[k] = t
  <2>1. \E j \in 1 .. Len(s) : s[j] = t
    BY <1>1 DEF ToSet
  <2>2. k \in 1 .. Len(s) /\ s[k] = t
    BY <2>1
  <2>3. Unlink(s, t) = RemoveAt(s, k)
    BY <1>1 DEF Unlink
  <2> HIDE DEF k
  <2> QED BY <2>2, <2>3, RemoveAtQueue
<1>2. CASE t \notin ToSet(s)
  BY <1>2 DEF Unlink
<1> QED BY <1>1, <1>2

(* The task leaves the queue it is on and goes to the end of its DSQ.      *)
LEMMA ChangeQueuedOnePlace ==
    ASSUME TypeOK, OnePlace, TypeOK', NEW t \in Task, ChangeQueued(t)
    PROVE  OnePlace'
<1> DEFINE d == domain[t]
           k == tcpu[t]
<1>1. PICK c \in CPU :
        /\ tcpu' = [tcpu EXCEPT ![t] = c]
        /\ dsq' = [dsq EXCEPT ![dom_dsq(d)] = Append(Unlink(@, t), t)]
        /\ local' = [local EXCEPT ![k] = Unlink(@, t)]
  BY MaskAfterType DEF ChangeQueued, TypeOK
<1>2. /\ tstate[t] \in {"dsq", "local"}
      /\ tstate' = [tstate EXCEPT ![t] = "dsq"]
      /\ UNCHANGED <<domain, curr, insched>>
  BY DEF ChangeQueued, ctxVars
<1>3. d \in Domain /\ dom_dsq(d) = d /\ k \in CPU
  BY DsqIsDomain DEF TypeOK
<1>4. /\ tstate'[t] = "dsq"
      /\ \A u \in Task \ {t} : tstate'[u] = tstate[u] /\ tcpu'[u] = tcpu[u]
  BY <1>1, <1>2 DEF TypeOK
<1>5. \A e \in Domain :
        /\ IsInjective(dsq'[e])
        /\ ToSet(dsq'[e]) = ToSet(dsq[e]) \cup (IF e = d THEN {t} ELSE {})
  <2>1. dsq[d] \in Seq(Task) /\ IsInjective(dsq[d])
    BY <1>3 DEF TypeOK, OnePlace, QueuesDistinct
  <2> DEFINE r == Unlink(dsq[d], t)
  <2>2. r \in Seq(Task) /\ ToSet(r) = ToSet(dsq[d]) \ {t} /\ IsInjective(r)
    BY <2>1, UnlinkSets
  <2>3. \A e \in Domain : dsq'[e] = IF e = d THEN Append(r, t) ELSE dsq[e]
    BY <1>1, <1>3 DEF TypeOK
  <2> HIDE DEF r
  <2>4. /\ ToSet(Append(r, t)) = ToSet(dsq[d]) \cup {t}
        /\ IsInjective(Append(r, t))
    BY <2>2, AppendQueue
  <2> QED BY <2>3, <2>4 DEF OnePlace, QueuesDistinct
<1>6. \A x \in CPU :
        /\ IsInjective(local'[x])
        /\ ToSet(local'[x]) = ToSet(local[x]) \ (IF x = k THEN {t} ELSE {})
  <2>1. local[k] \in Seq(Task) /\ IsInjective(local[k])
    BY <1>3 DEF TypeOK, OnePlace, QueuesDistinct
  <2> DEFINE r == Unlink(local[k], t)
  <2>2. ToSet(r) = ToSet(local[k]) \ {t} /\ IsInjective(r)
    BY <2>1, UnlinkSets
  <2>3. \A x \in CPU : local'[x] = IF x = k THEN r ELSE local[x]
    BY <1>1, <1>3 DEF TypeOK
  <2> HIDE DEF r
  <2> QED BY <2>2, <2>3 DEF OnePlace, QueuesDistinct
<1>7. QueuesDistinct'
  BY <1>5, <1>6 DEF QueuesDistinct
<1>8. DsqHolds'
  <2>1. SUFFICES ASSUME NEW u \in Task, NEW e \in Domain
                 PROVE  u \in ToSet(dsq'[e]) <=> tstate'[u] = "dsq" /\ domain[u] = e
    BY <1>2 DEF DsqHolds
  <2>2. u \in ToSet(dsq[e]) <=> tstate[u] = "dsq" /\ domain[u] = e
    BY DEF OnePlace, DsqHolds
  <2>3. ToSet(dsq'[e]) = ToSet(dsq[e]) \cup (IF e = d THEN {t} ELSE {})
    BY <1>5
  <2>4. CASE u = t
    BY <1>4, <2>2, <2>3, <2>4
  <2>5. CASE u # t
    BY <1>4, <2>2, <2>3, <2>5
  <2> QED BY <2>4, <2>5
<1>9. LocalHolds'
  <2>1. SUFFICES ASSUME NEW u \in Task, NEW x \in CPU
                 PROVE  u \in ToSet(local'[x]) <=> tstate'[u] = "local" /\ tcpu'[u] = x
    BY DEF LocalHolds
  <2>2. u \in ToSet(local[x]) <=> tstate[u] = "local" /\ tcpu[u] = x
    BY DEF OnePlace, LocalHolds
  <2>3. ToSet(local'[x]) = ToSet(local[x]) \ (IF x = k THEN {t} ELSE {})
    BY <1>6
  <2>4. CASE u = t
    BY <1>4, <2>2, <2>3, <2>4
  <2>5. CASE u # t
    BY <1>4, <2>2, <2>3, <2>5
  <2> QED BY <2>4, <2>5
<1>10. RunnerIsCurrent'
  BY <1>2, <1>4 DEF OnePlace, RunnerIsCurrent
<1>11. CurrentRuns'
  <2>1. \A x \in CPU : curr[x] # NoTask => curr[x] \in Task \ {t}
    BY <1>2 DEF OnePlace, CurrentRuns, TypeOK
  <2> QED BY <1>2, <1>4, <2>1 DEF OnePlace, CurrentRuns
<1> QED BY <1>7, <1>8, <1>9, <1>10, <1>11 DEF OnePlace

(* A running task that is changed stays where it is; its domain may change *)
(* because it is on no DSQ.                                                *)
LEMMA ChangeRunningOnePlace ==
    ASSUME TypeOK, OnePlace, TypeOK', NEW c \in CPU, ChangeRunning(c)
    PROVE  OnePlace'
<1>1. /\ curr[c] # NoTask /\ c \notin insched
      /\ UNCHANGED <<tstate, tcpu, dsq, local, curr, insched>>
  BY DEF ChangeRunning, cpuVars
<1>2. curr[c] \in Task /\ tstate[curr[c]] = "running"
  BY <1>1 DEF OnePlace, CurrentRuns, TypeOK
<1>3. \A u \in Task \ {curr[c]} : domain'[u] = domain[u]
  BY DEF ChangeRunning, bls_stopping, TypeOK
<1>4. DsqHolds'
  BY <1>1, <1>2, <1>3 DEF OnePlace, DsqHolds
<1>5. QueuesDistinct' /\ LocalHolds' /\ RunnerIsCurrent' /\ CurrentRuns'
  BY <1>1 DEF OnePlace, QueuesDistinct, LocalHolds, RunnerIsCurrent, CurrentRuns
<1> QED BY <1>4, <1>5 DEF OnePlace

(* Nothing that OnePlace speaks about changes.                             *)
LEMMA OnePlaceUnchanged ==
    ASSUME OnePlace, UNCHANGED <<tstate, tcpu, domain, dsq, local, curr, insched>>
    PROVE  OnePlace'
  BY DEF OnePlace, QueuesDistinct, DsqHolds, LocalHolds, RunnerIsCurrent, CurrentRuns

-----------------------------------------------------------------------------
LEMMA TaskStepOnePlace ==
    ASSUME TypeOK, OnePlace, TypeOK', NEW t \in Task, TaskStep(t)
    PROVE  OnePlace'
<1> USE DEF taskVars, ctxVars, cpuVars
<1>1. CASE bls_init_task(t)
  <2>1. /\ tstate[t] = "absent" /\ tstate' = [tstate EXCEPT ![t] = "asleep"]
        /\ UNCHANGED <<dsq, local, curr, insched>>
    BY <1>1 DEF bls_init_task
  <2>2. \A u \in Task \ {t} : tcpu'[u] = tcpu[u] /\ domain'[u] = domain[u]
    BY <1>1 DEF bls_init_task, TypeOK
  <2> QED BY <2>1, <2>2, StaysNowhere
<1>2. CASE TaskFree(t)
  <2>1. /\ tstate[t] = "asleep" /\ OffCpu(t)
        /\ tstate' = [tstate EXCEPT ![t] = "absent"]
        /\ UNCHANGED <<dsq, local, curr, insched>>
    BY <1>2 DEF TaskFree
  <2>2. \A u \in Task \ {t} : tcpu'[u] = tcpu[u] /\ domain'[u] = domain[u]
    BY <1>2 DEF TaskFree, TypeOK
  <2> QED BY <2>1, <2>2, StaysNowhere
<1>3. ASSUME CanWake(t), NEW cpu, NEW st \in {"direct", "enqueue"}, WakeTo(t, cpu, st)
      PROVE  OnePlace'
  <2>1. /\ tstate[t] = "asleep" /\ OffCpu(t)
        /\ tstate' = [tstate EXCEPT ![t] = st]
        /\ UNCHANGED <<domain, dsq, local, curr, insched>>
    BY <1>3 DEF CanWake, WakeTo
  <2>2. \A u \in Task \ {t} : tcpu'[u] = tcpu[u]
    BY <1>3 DEF WakeTo, TypeOK
  <2> QED BY <1>3, <2>1, <2>2, StaysNowhere
<1>4. CASE SelectOwn(t) \/ SelectSpill(t) \/ SelectPrev(t) \/ WakeBound(t)
  BY <1>3, <1>4 DEF SelectOwn, SelectSpill, SelectPrev, WakeBound
<1>5. CASE ActivateDirect(t) \/ ActivateEnqueue(t)
  BY <1>5, ActivateOnePlace
<1>6. CASE SetAffinityAsleep(t) \/ bls_exit(t)
  BY <1>6, OnePlaceUnchanged DEF SetAffinityAsleep, bls_exit
<1>7. CASE ChangeQueued(t)
  BY <1>7, ChangeQueuedOnePlace
<1> QED BY <1>1, <1>2, <1>4, <1>5, <1>6, <1>7 DEF TaskStep

LEMMA CpuStepOnePlace ==
    ASSUME TypeOK, OnePlace, TypeOK', NEW c \in CPU, CpuStep(c)
    PROVE  OnePlace'
<1>0. tstate \in [Task -> TaskState]
  BY DEF TypeOK
<1>1. CASE IdleResched(c) \/ SliceEnd(c)
  <2>1. EnterSchedule(c) /\ bls_dispatch(c, tstate, {}) /\ UNCHANGED domain
    BY <1>1 DEF IdleResched, SliceEnd, ctxVars
  <2> QED BY <1>0, <2>1, PickOnePlace
<1>2. CASE Block(c)
  <2>1. PICK delta \in Deltas :
          /\ bls_stopping(curr[c], delta)
          /\ bls_dispatch(c, [tstate EXCEPT ![curr[c]] = "asleep"],
                          ReclassifyStats(curr[c], delta))
    BY <1>2 DEF Block
  <2> DEFINE ts == [tstate EXCEPT ![curr[c]] = "asleep"]
  <2>2. EnterSchedule(c) /\ curr[c] \in Task
    BY <1>2 DEF Block, TypeOK
  <2>3. /\ ts \in [Task -> TaskState] /\ ts[curr[c]] = "asleep"
        /\ \A u \in Task \ {curr[c]} : ts[u] = tstate[u] /\ domain'[u] = domain[u]
    BY <2>1, <2>2 DEF TypeOK, TaskState, bls_stopping
  <2>4. PICK S : bls_dispatch(c, ts, S)
    BY <2>1
  <2> HIDE DEF ts
  <2> QED BY <2>2, <2>3, <2>4, PickOnePlace
<1>3. CASE Switch(c)
  BY <1>3, SwitchOnePlace
<1>4. CASE SwitchPreempt(c)
  BY <1>4, SwitchPreemptOnePlace
<1>5. CASE ChangeRunning(c)
  BY <1>5, ChangeRunningOnePlace
<1> QED BY <1>1, <1>2, <1>3, <1>4, <1>5 DEF CpuStep

(* No task is lost and none is held twice, for any number of CPUs and      *)
(* tasks, in every mode of the classifier, with or without --strict, and   *)
(* whatever anyone does to the affinity of the tasks.                      *)
THEOREM OnePlaceHolds == Spec => []OnePlace
<1>1. Init => OnePlace
  <2>1. SUFFICES ASSUME Init PROVE OnePlace
    OBVIOUS
  <2>2. /\ \A d \in Domain : IsInjective(dsq[d]) /\ ToSet(dsq[d]) = {}
        /\ \A c \in CPU : IsInjective(local[c]) /\ ToSet(local[c]) = {}
        /\ \A t \in Task : tstate[t] = "absent"
        /\ \A c \in CPU : curr[c] = NoTask
    BY <2>1, EmptySets DEF Init
  <2> QED BY <2>2 DEF OnePlace, QueuesDistinct, DsqHolds, LocalHolds,
                      RunnerIsCurrent, CurrentRuns
<1>2. TypeOK /\ TypeOK' /\ OnePlace /\ [Next]_vars => OnePlace'
  <2>1. SUFFICES ASSUME TypeOK, TypeOK', OnePlace, [Next]_vars PROVE OnePlace'
    OBVIOUS
  <2>2. CASE \E t \in Task : TaskStep(t)
    BY <2>1, <2>2, TaskStepOnePlace
  <2>3. CASE \E c \in CPU : CpuStep(c)
    BY <2>1, <2>3, CpuStepOnePlace
  <2>4. CASE UNCHANGED vars
    BY <2>1, <2>4, OnePlaceUnchanged DEF vars, taskVars, ctxVars, cpuVars
  <2> QED BY <2>1, <2>2, <2>3, <2>4 DEF Next, Ejected
<1> QED BY <1>1, <1>2, TypeCorrect, PTL DEF Spec

-----------------------------------------------------------------------------
(* BlsSched implements TaskLife, whatever anyone does to the affinities:   *)
(* the callbacks and the core together never run a task that was not       *)
(* woken, nor on two CPUs, nor where its mask forbids it                   *)

USE DEF taskVars, ctxVars, cpuVars

(* A task that has a CPU may use it.  Between a wakeup and a pick, and     *)
(* while it sleeps, tcpu may be a CPU that the mask has lost.              *)
MaskKept == \A t \in Task :
    tstate[t] \in {"direct", "local", "running"} => tcpu[t] \in allowed[t]

LifeInv == TypeOK /\ OnePlace /\ MaskKept

-----------------------------------------------------------------------------
(* The mask                                                                *)

(* The CPU a wakeup lands on is one of the mask.                           *)
LEMMA LandingAllowed ==
    ASSUME TypeOK, NEW t \in Task, NEW cpu, NEW c \in Landing(t, cpu)
    PROVE  c \in allowed[t]
  BY DEF Landing

LEMMA TaskMaskKept ==
    ASSUME LifeInv, TypeOK', NEW t \in Task, TaskStep(t)
    PROVE  MaskKept'
<1> USE DEF LifeInv
<1>1. ASSUME NEW st \in TaskState,
             tstate' = [tstate EXCEPT ![t] = st],
             \A u \in Task \ {t} : tcpu'[u] = tcpu[u] /\ allowed'[u] = allowed[u],
             st \in {"direct", "local", "running"} => tcpu'[t] \in allowed'[t]
      PROVE  MaskKept'
  BY <1>1 DEF MaskKept, TypeOK
<1>2. CASE bls_init_task(t)
  BY <1>1, <1>2 DEF bls_init_task, TaskState, TypeOK
<1>3. CASE TaskFree(t)
  BY <1>1, <1>3 DEF TaskFree, TaskState, TypeOK
<1>4. ASSUME NEW cpu, NEW st \in {"direct", "enqueue"}, WakeTo(t, cpu, st)
      PROVE  MaskKept'
  <2>1. PICK c \in Landing(t, cpu) : tcpu' = [tcpu EXCEPT ![t] = c]
    BY <1>4 DEF WakeTo
  <2>2. c \in allowed[t]
    BY <2>1, LandingAllowed
  <2>3. tstate' = [tstate EXCEPT ![t] = st] /\ allowed' = allowed /\ st \in TaskState
    BY <1>4 DEF WakeTo, TaskState
  <2>4. tcpu'[t] = c /\ \A u \in Task \ {t} : tcpu'[u] = tcpu[u]
    BY <2>1 DEF TypeOK
  <2>5. tcpu'[t] \in allowed'[t] /\ \A u \in Task \ {t} : allowed'[u] = allowed[u]
    BY <2>2, <2>3, <2>4
  <2> QED BY ONLY <1>1, <2>3, <2>4, <2>5
<1>5. CASE SelectOwn(t) \/ SelectSpill(t) \/ SelectPrev(t) \/ WakeBound(t)
  BY <1>4, <1>5 DEF SelectOwn, SelectSpill, SelectPrev, WakeBound
<1>6. CASE ActivateDirect(t)
  BY <1>1, <1>6 DEF ActivateDirect, TaskState, MaskKept
<1>7. CASE ActivateEnqueue(t)
  <2>1. tstate' = [tstate EXCEPT ![t] = "dsq"] /\ UNCHANGED <<allowed, tcpu>>
    BY <1>7 DEF ActivateEnqueue
  <2> QED BY <1>1, <2>1 DEF TaskState
<1>8. CASE SetAffinityAsleep(t)
  BY <1>8 DEF SetAffinityAsleep, MaskKept, TypeOK
<1>9. CASE ChangeQueued(t)
  <2>1. /\ tstate' = [tstate EXCEPT ![t] = "dsq"]
        /\ \E m, c : allowed' = [allowed EXCEPT ![t] = m] /\ tcpu' = [tcpu EXCEPT ![t] = c]
    BY <1>9 DEF ChangeQueued
  <2>2. \A u \in Task \ {t} : tcpu'[u] = tcpu[u] /\ allowed'[u] = allowed[u]
    BY <2>1 DEF TypeOK
  <2> QED BY <1>1, <2>1, <2>2 DEF TaskState
<1>10. CASE bls_exit(t)
  BY <1>10 DEF bls_exit, MaskKept
<1> QED BY <1>2, <1>3, <1>5, <1>6, <1>7, <1>8, <1>9, <1>10 DEF TaskStep

(* A pick moves at most one task, from a DSQ to a local DSQ, and to a CPU  *)
(* that it may use.                                                        *)
LEMMA PickMoves ==
    ASSUME LifeInv, NEW c \in CPU, NEW ts, NEW S, bls_dispatch(c, ts, S)
    PROVE  \/ tstate' = ts /\ tcpu' = tcpu
           \/ \E t \in Task :
                /\ tstate[t] = "dsq" /\ c \in allowed[t]
                /\ tstate' = [ts EXCEPT ![t] = "local"]
                /\ tcpu' = [tcpu EXCEPT ![t] = c]
<1> USE DEF LifeInv
<1>1. CASE tstate' = ts /\ UNCHANGED <<tcpu, dsq, local>>
  BY <1>1
<1>2. ASSUME NEW t \in Task, NEW d \in Domain,
             t \in ToSet(dsq[d]), c \in allowed[t],
             tstate' = [ts EXCEPT ![t] = "local"],
             tcpu' = [tcpu EXCEPT ![t] = c]
      PROVE  \E u \in Task :
                /\ tstate[u] = "dsq" /\ c \in allowed[u]
                /\ tstate' = [ts EXCEPT ![u] = "local"]
                /\ tcpu' = [tcpu EXCEPT ![u] = c]
  <2>1. tstate[t] = "dsq"
    BY <1>2 DEF OnePlace, DsqHolds
  <2> QED BY <1>2, <2>1
<1>3. \/ tstate' = ts /\ UNCHANGED <<tcpu, dsq, local>>
      \/ \E t \in Task, d \in Domain :
           /\ t \in ToSet(dsq[d]) /\ c \in allowed[t]
           /\ tstate' = [ts EXCEPT ![t] = "local"]
           /\ tcpu' = [tcpu EXCEPT ![t] = c]
  <2> HIDE DEF LifeInv
  <2>1. TypeOK /\ OnePlace
    BY DEF LifeInv
  <2>2. \/ tstate' = ts /\ UNCHANGED <<tcpu, dsq, local>>
        \/ \E t \in Task, d \in Domain :
             /\ t \in ToSet(dsq[d]) /\ c \in allowed[t]
             /\ ToSet(local[c]) = {}
             /\ tstate' = [ts EXCEPT ![t] = "local"]
             /\ tcpu' = [tcpu EXCEPT ![t] = c]
             /\ \A e \in Domain :
                  /\ IsInjective(dsq'[e])
                  /\ ToSet(dsq'[e]) = ToSet(dsq[e]) \ (IF e = d THEN {t} ELSE {})
             /\ \A x \in CPU :
                  /\ IsInjective(local'[x])
                  /\ ToSet(local'[x]) = IF x = c THEN {t} ELSE ToSet(local[x])
    BY <2>1, DispatchSets
  <2> QED BY ONLY <2>2
<1> QED BY ONLY <1>1, <1>2, <1>3

(* What a CPU is going to run next waits on its local DSQ.                 *)
LEMMA NextWaits ==
    ASSUME LifeInv, NEW c \in CPU, NextTask(c) # NoTask
    PROVE  /\ NextTask(c) \in Task
           /\ tstate[NextTask(c)] = "local" /\ tcpu[NextTask(c)] = c
           /\ c \in allowed[NextTask(c)]
<1>1. local[c] # <<>> /\ NextTask(c) = Head(local[c]) /\ local[c] \in Seq(Task)
  BY DEF NextTask, LifeInv, TypeOK
<1>2. Head(local[c]) \in Task /\ Head(local[c]) \in ToSet(local[c])
  BY <1>1 DEF ToSet
<1>3. tstate[NextTask(c)] = "local" /\ tcpu[NextTask(c)] = c
  BY <1>1, <1>2 DEF LifeInv, OnePlace, LocalHolds
<1> QED BY <1>1, <1>2, <1>3 DEF LifeInv, MaskKept

(* Who is running is the current task of its CPU and of no other.          *)
LEMMA CurrentIs ==
    ASSUME LifeInv, NEW c \in CPU, curr[c] # NoTask
    PROVE  /\ curr[c] \in Task /\ tcpu[curr[c]] = c
           /\ tstate[curr[c]] \in {"running", "asleep"}
           /\ c \notin insched => tstate[curr[c]] = "running"
           /\ \A e \in CPU : curr[e] = curr[c] => e = c
<1>1. \A e \in CPU : curr[e] # NoTask =>
        /\ tcpu[curr[e]] = e
        /\ tstate[curr[e]] = "running" \/ (e \in insched /\ tstate[curr[e]] = "asleep")
  BY DEF LifeInv, OnePlace, CurrentRuns
<1>2. curr[c] \in Task
  BY DEF LifeInv, TypeOK
<1> QED BY <1>1, <1>2

LEMMA CpuMaskKept ==
    ASSUME LifeInv, TypeOK', NEW c \in CPU, CpuStep(c)
    PROVE  MaskKept'
<1> USE DEF LifeInv
<1>1. ASSUME NEW ts \in [Task -> TaskState], NEW S, bls_dispatch(c, ts, S),
             UNCHANGED allowed,
             \A u \in Task : ts[u] = tstate[u] \/ ts[u] = "asleep"
      PROVE  MaskKept'
  <2>1. CASE tstate' = ts /\ tcpu' = tcpu
    BY <1>1, <2>1 DEF MaskKept
  <2>2. ASSUME NEW t \in Task, c \in allowed[t],
               tstate' = [ts EXCEPT ![t] = "local"],
               tcpu' = [tcpu EXCEPT ![t] = c]
        PROVE  MaskKept'
    <3>1. tcpu'[t] = c /\ \A u \in Task \ {t} : tstate'[u] = ts[u] /\ tcpu'[u] = tcpu[u]
      BY <2>2 DEF TypeOK
    <3> QED BY <1>1, <2>2, <3>1 DEF MaskKept
  <2> QED BY <1>1, <2>1, <2>2, PickMoves
<1>2. tstate \in [Task -> TaskState]
  BY DEF TypeOK
<1>3. CASE IdleResched(c) \/ SliceEnd(c)
  BY <1>1, <1>2, <1>3 DEF IdleResched, SliceEnd, EnterSchedule
<1>4. CASE Block(c)
  <2> DEFINE ts == [tstate EXCEPT ![curr[c]] = "asleep"]
  <2>1. curr[c] \in Task /\ UNCHANGED allowed
    BY <1>4, CurrentIs DEF Block, EnterSchedule
  <2>2. ts \in [Task -> TaskState] /\ \A u \in Task : ts[u] = tstate[u] \/ ts[u] = "asleep"
    BY <1>2, <2>1 DEF TaskState
  <2>3. \E S : bls_dispatch(c, ts, S)
    BY <1>4 DEF Block
  <2> HIDE DEF ts
  <2> QED BY <1>1, <2>1, <2>2, <2>3
<1>5. ASSUME NEW ts \in [Task -> TaskState], NEW claim, SetNext(c, ts, claim),
             \A u \in Task : ts[u] = tstate[u] \/ ts[u] = "dsq"
      PROVE  MaskKept'
  <2>1. UNCHANGED <<allowed, tcpu>>
    BY <1>5 DEF SetNext
  <2>2. CASE NextTask(c) = NoTask
    BY <1>5, <2>1, <2>2 DEF SetNext, MaskKept
  <2>3. CASE NextTask(c) # NoTask
    <3>1. tstate' = [ts EXCEPT ![NextTask(c)] = "running"]
      BY <1>5, <2>3 DEF SetNext
    <3>2. \A u \in Task : tstate'[u] = IF u = NextTask(c) THEN "running" ELSE ts[u]
      BY <1>5, <3>1
    <3> QED BY <1>5, <2>1, <2>3, <3>2, NextWaits DEF MaskKept
  <2> QED BY <2>2, <2>3
<1>6. CASE Switch(c)
  BY <1>2, <1>5, <1>6 DEF Switch
<1>7. CASE SwitchPreempt(c)
  <2> DEFINE ts == [tstate EXCEPT ![curr[c]] = "dsq"]
  <2>1. curr[c] \in Task
    BY <1>7, CurrentIs DEF SwitchPreempt, StillRunnable
  <2>2. ts \in [Task -> TaskState] /\ \A u \in Task : ts[u] = tstate[u] \/ ts[u] = "dsq"
    BY <1>2, <2>1 DEF TaskState
  <2>3. \E claim : SetNext(c, ts, claim)
    BY <1>7 DEF SwitchPreempt
  <2> HIDE DEF ts
  <2> QED BY <1>5, <2>2, <2>3
<1>8. CASE ChangeRunning(c)
  <2>1. /\ curr[c] # NoTask /\ UNCHANGED <<tstate, tcpu>>
        /\ \E m : c \in m /\ allowed' = [allowed EXCEPT ![curr[c]] = m]
        /\ c \notin insched
    BY <1>8 DEF ChangeRunning
  <2>2. tcpu[curr[c]] = c /\ curr[c] \in Task /\ tstate[curr[c]] = "running"
    BY <2>1, CurrentIs
  <2>3. c \in allowed'[curr[c]] /\ \A u \in Task \ {curr[c]} : allowed'[u] = allowed[u]
    BY <2>1, <2>2 DEF MaskKept, TypeOK
  <2> QED BY <2>1, <2>2, <2>3 DEF MaskKept
<1> QED BY <1>3, <1>4, <1>6, <1>7, <1>8 DEF CpuStep

-----------------------------------------------------------------------------
(* What the tasks see of a step                                            *)

LEMMA StatusIs ==
    ASSUME TypeOK, NEW t \in Task
    PROVE  /\ Status[t] = StatusOf(t)
           /\ Status[t] = "running" <=> tstate[t] = "running"
           /\ Status[t] = "waiting" <=> tstate[t] \in {"direct", "enqueue", "dsq", "local"}
  BY DEF Status, StatusOf, TypeOK, TaskState

LEMMA RunnerIs ==
    ASSUME LifeInv, NEW c \in CPU
    PROVE  /\ Runner[c] \in Task \cup {NoTask}
           /\ Runner[c] = IF StillRunnable(c) THEN curr[c] ELSE NoTask
           /\ \A t \in Task : Runner[c] = t => tstate[t] = "running" /\ tcpu[t] = c
<1>1. Runner[c] = IF StillRunnable(c) THEN curr[c] ELSE NoTask
  BY DEF Runner
<1> QED BY <1>1, CurrentIs, TaskAssumption DEF StillRunnable

(* The runners stay when the current tasks and who is running do.          *)
LEMMA RunnersStay ==
    ASSUME UNCHANGED curr, TypeOK,
           \A u \in Task : tstate'[u] = "running" <=> tstate[u] = "running"
    PROVE  Runner' = Runner
<1>1. \A c \in CPU : curr[c] # NoTask => curr[c] \in Task
  BY DEF TypeOK
<1>2. \A c \in CPU : StillRunnable(c)' <=> StillRunnable(c)
  BY <1>1 DEF StillRunnable
<1> QED BY <1>2 DEF Runner

(* The step in which only task t changes its state.                        *)
LEMMA OneStatus ==
    ASSUME TypeOK, TypeOK', NEW t \in Task, NEW st \in TaskState,
           tstate' = [tstate EXCEPT ![t] = st]
    PROVE  Status' = [Status EXCEPT ![t] =
               IF st \in {"direct", "enqueue", "dsq", "local"} THEN "waiting" ELSE st]
  BY DEF Status, StatusOf, TypeOK

(* A move among the queues shows nothing.                                  *)
LEMMA QueueMove ==
    ASSUME TypeOK, TypeOK', UNCHANGED curr,
           \A u \in Task : \/ tstate'[u] = tstate[u]
                           \/ /\ tstate[u] \in {"direct", "enqueue", "dsq", "local"}
                              /\ tstate'[u] \in {"direct", "enqueue", "dsq", "local"}
    PROVE  UNCHANGED <<Status, Runner>>
<1>1. Status' = Status
  BY DEF Status, StatusOf
<1>2. \A u \in Task : tstate'[u] = "running" <=> tstate[u] = "running"
  OBVIOUS
<1> QED BY <1>1, <1>2, RunnersStay

LEMMA TaskStepRefines ==
    ASSUME LifeInv, TypeOK', NEW t \in Task, TaskStep(t)
    PROVE  Life!Next \/ UNCHANGED <<Status, allowed, Runner>>
<1> USE DEF LifeInv
<1>0. /\ \A c \in CPU : Runner[c] = t => tstate[t] = "running"
      /\ Status[t] = StatusOf(t)
  BY RunnerIs, StatusIs
<1>1. ASSUME NEW st \in TaskState, tstate' = [tstate EXCEPT ![t] = st],
             UNCHANGED curr, tstate[t] # "running", st # "running"
      PROVE  /\ Status' = [Status EXCEPT ![t] =
                    IF st \in {"direct", "enqueue", "dsq", "local"} THEN "waiting" ELSE st]
             /\ Runner' = Runner
  <2>1. \A u \in Task : tstate'[u] = "running" <=> tstate[u] = "running"
    BY <1>1 DEF TypeOK
  <2> QED BY <1>1, <2>1, OneStatus, RunnersStay
<1>2. CASE bls_init_task(t)
  <2>1. /\ tstate[t] = "absent" /\ tstate' = [tstate EXCEPT ![t] = "asleep"]
        /\ \E m \in Masks : allowed' = [allowed EXCEPT ![t] = m]
        /\ UNCHANGED curr
    BY <1>2 DEF bls_init_task
  <2>2. Status' = [Status EXCEPT ![t] = "asleep"] /\ Runner' = Runner
    BY <1>1, <2>1 DEF TaskState
  <2>3. \E m \in (SUBSET CPU) \ {{}} : allowed' = [allowed EXCEPT ![t] = m]
    BY <2>1, MaskProps
  <2>4. Life!Create(t)
    BY <1>0, <2>1, <2>2, <2>3 DEF Life!Create, Life!Become, StatusOf
  <2> QED BY <2>4 DEF Life!Next
<1>3. CASE TaskFree(t)
  <2>1. /\ tstate[t] = "asleep" /\ tstate' = [tstate EXCEPT ![t] = "absent"]
        /\ allowed' = [allowed EXCEPT ![t] = CPU]
        /\ UNCHANGED curr
    BY <1>3 DEF TaskFree
  <2>2. Status' = [Status EXCEPT ![t] = "absent"] /\ Runner' = Runner
    BY <1>1, <2>1 DEF TaskState
  <2>3. Life!Exit(t)
    BY <1>0, <2>1, <2>2 DEF Life!Exit, Life!Become, StatusOf
  <2> QED BY <2>3 DEF Life!Next
<1>4. ASSUME NEW cpu, NEW st \in {"direct", "enqueue"}, CanWake(t), WakeTo(t, cpu, st)
      PROVE  Life!Next
  <2>1. /\ tstate[t] = "asleep" /\ tstate' = [tstate EXCEPT ![t] = st]
        /\ UNCHANGED <<allowed, curr>>
    BY <1>4 DEF CanWake, WakeTo
  <2>2. Status' = [Status EXCEPT ![t] = "waiting"] /\ Runner' = Runner
    BY <1>1, <2>1 DEF TaskState
  <2>3. Life!Wake(t)
    BY <1>0, <2>1, <2>2 DEF Life!Wake, Life!Become, StatusOf
  <2> QED BY <2>3 DEF Life!Next
<1>5. CASE SelectOwn(t) \/ SelectSpill(t) \/ SelectPrev(t) \/ WakeBound(t)
  BY <1>4, <1>5 DEF SelectOwn, SelectSpill, SelectPrev, WakeBound
<1>6. CASE ActivateDirect(t)
  <2>1. /\ tstate[t] = "direct" /\ tstate' = [tstate EXCEPT ![t] = "local"]
        /\ UNCHANGED <<allowed, curr>>
    BY <1>6 DEF ActivateDirect
  <2>2. \A u \in Task : tstate'[u] = IF u = t THEN "local" ELSE tstate[u]
    BY <2>1 DEF TypeOK
  <2> QED BY <2>1, <2>2, QueueMove
<1>7. CASE ActivateEnqueue(t)
  <2>1. /\ tstate[t] = "enqueue" /\ tstate' = [tstate EXCEPT ![t] = "dsq"]
        /\ UNCHANGED <<allowed, curr>>
    BY <1>7 DEF ActivateEnqueue
  <2>2. \A u \in Task : tstate'[u] = IF u = t THEN "dsq" ELSE tstate[u]
    BY <2>1 DEF TypeOK
  <2> QED BY <2>1, <2>2, QueueMove
<1>8. ASSUME tstate[t] # "running", UNCHANGED <<Status, Runner>>,
             \E m \in (SUBSET CPU) \ {{}} : allowed' = [allowed EXCEPT ![t] = m]
      PROVE  Life!Next
  <2>1. Life!SetMask(t)
    BY <1>0, <1>8 DEF Life!SetMask
  <2> QED BY <2>1 DEF Life!Next
<1>9. CASE SetAffinityAsleep(t)
  <2>1. /\ tstate[t] = "asleep" /\ UNCHANGED <<tstate, curr>>
        /\ \E m \in (SUBSET CPU) \ {{}} : allowed' = [allowed EXCEPT ![t] = m]
    BY <1>9, MaskProps DEF SetAffinityAsleep
  <2> QED BY <1>8, <2>1, QueueMove
<1>10. CASE ChangeQueued(t)
  <2>1. /\ tstate[t] \in {"dsq", "local"} /\ tstate' = [tstate EXCEPT ![t] = "dsq"]
        /\ \E m \in (SUBSET CPU) \ {{}} : allowed' = [allowed EXCEPT ![t] = m]
        /\ UNCHANGED curr
    BY <1>10, MaskAfterType DEF ChangeQueued
  <2>2. \A u \in Task : tstate'[u] = IF u = t THEN "dsq" ELSE tstate[u]
    BY <2>1 DEF TypeOK
  <2> QED BY <1>8, <2>1, <2>2, QueueMove
<1>11. CASE bls_exit(t)
  <2>1. UNCHANGED <<tstate, curr, allowed>>
    BY <1>11 DEF bls_exit
  <2> QED BY <2>1, QueueMove
<1> QED BY <1>2, <1>3, <1>5, <1>6, <1>7, <1>9, <1>10, <1>11 DEF TaskStep

(* The second half of a reschedule, p being the task that goes back among  *)
(* the waiting, if there is one.                                           *)
LEMMA SetNextRefines ==
    ASSUME LifeInv, TypeOK', NEW c \in CPU,
           NEW ts \in [Task -> TaskState], NEW claim, SetNext(c, ts, claim),
           \A u \in Task : ts[u] = IF u = Runner[c] THEN "dsq" ELSE tstate[u]
    PROVE  Life!Next
<1> USE DEF LifeInv
<1> DEFINE n == NextTask(c)
<1>1. n # NoTask => /\ n \in Task /\ tstate[n] = "local"
                    /\ tcpu[n] = c /\ c \in allowed[n]
  BY NextWaits
<1>2. /\ curr' = [curr EXCEPT ![c] = n]
      /\ UNCHANGED <<allowed, tcpu>>
  BY DEF SetNext
<1>3. \A u \in Task : tstate'[u] = IF u = n THEN "running" ELSE ts[u]
  <2>1. CASE n = NoTask
    BY <2>1, TaskAssumption DEF SetNext
  <2>2. CASE n # NoTask
    <3>1. tstate' = [ts EXCEPT ![n] = "running"]
      BY <2>2 DEF SetNext
    <3> QED BY <3>1
  <2> QED BY <2>1, <2>2
<1> HIDE DEF n
<1>4. \A u \in Task : tstate'[u] = IF u = n THEN "running"
                                   ELSE IF u = Runner[c] THEN "dsq" ELSE tstate[u]
  BY <1>3
<1>5. Status' = [u \in Task |-> IF u = n THEN "running"
                                ELSE IF u = Runner[c] THEN "waiting" ELSE Status[u]]
  BY <1>4 DEF Status, StatusOf
<1>6. Runner' = [Runner EXCEPT ![c] = n]
  <2>1. \A e \in CPU : curr'[e] = IF e = c THEN n ELSE curr[e]
    BY <1>2 DEF TypeOK
  <2>2. StillRunnable(c)' <=> n # NoTask
    BY <1>1, <1>4, <2>1 DEF StillRunnable
  <2>3. ASSUME NEW e \in CPU, e # c
        PROVE  StillRunnable(e)' <=> StillRunnable(e)
    <3>1. CASE curr[e] = NoTask
      BY <2>1, <2>3, <3>1 DEF StillRunnable
    <3>2. CASE curr[e] # NoTask
      <4>1. curr[e] \in Task /\ tcpu[curr[e]] = e /\ tstate[curr[e]] \in {"running", "asleep"}
        BY <3>2, CurrentIs
      <4>2. curr[e] # n /\ curr[e] # Runner[c]
        BY <1>1, <2>3, <3>2, <4>1, RunnerIs
      <4> QED BY <1>4, <2>1, <2>3, <4>1, <4>2 DEF StillRunnable
    <3> QED BY <3>1, <3>2
  <2>4. \A e \in CPU : Runner'[e] = IF e = c THEN n ELSE Runner[e]
    BY <2>1, <2>2, <2>3 DEF Runner
  <2>5. Runner' = [e \in CPU |-> Runner'[e]] /\ Runner = [e \in CPU |-> Runner[e]]
    BY DEF Runner
  <2> QED BY <2>4, <2>5
<1>7. n # NoTask => Status[n] = "waiting" /\ c \in allowed[n]
  BY <1>1, StatusIs
<1>8. Life!Resched(c, n)
  BY <1>2, <1>5, <1>6, <1>7 DEF Life!Resched
<1>9. n \in Task \cup {NoTask}
  BY <1>1
<1> QED BY <1>8, <1>9 DEF Life!Next

LEMMA CpuStepRefines ==
    ASSUME LifeInv, TypeOK', NEW c \in CPU, CpuStep(c)
    PROVE  Life!Next \/ UNCHANGED <<Status, allowed, Runner>>
<1> USE DEF LifeInv
<1>1. CASE IdleResched(c) \/ SliceEnd(c)
  <2>1. bls_dispatch(c, tstate, {}) /\ UNCHANGED <<allowed, curr>>
    BY <1>1 DEF IdleResched, SliceEnd, EnterSchedule
  <2>2. \A u \in Task : \/ tstate'[u] = tstate[u]
                        \/ tstate[u] = "dsq" /\ tstate'[u] = "local"
    <3>1. \/ tstate' = tstate
          \/ \E t \in Task : tstate[t] = "dsq" /\ tstate' = [tstate EXCEPT ![t] = "local"]
      BY <2>1, PickMoves
    <3> QED BY <3>1 DEF TypeOK
  <2> QED BY <2>1, <2>2, QueueMove
<1>2. CASE Block(c)
  <2> DEFINE p == curr[c]
             ts == [tstate EXCEPT ![p] = "asleep"]
  <2>1. /\ p # NoTask /\ c \notin insched /\ UNCHANGED <<allowed, curr>>
        /\ \E S : bls_dispatch(c, ts, S)
    BY <1>2 DEF Block, EnterSchedule
  <2>2. /\ p \in Task /\ tstate[p] = "running"
        /\ \A e \in CPU : curr[e] = p => e = c
    BY <2>1, CurrentIs
  <2>3. \A u \in Task : ts[u] = IF u = p THEN "asleep" ELSE tstate[u]
    BY <2>2 DEF TypeOK
  <2>4. ts \in [Task -> TaskState]
    BY <2>2 DEF TypeOK, TaskState
  <2> HIDE DEF p, ts
  <2>5. \A u \in Task : \/ tstate'[u] = ts[u]
                        \/ u # p /\ tstate[u] = "dsq" /\ tstate'[u] = "local"
    BY <2>1, <2>2, <2>4, PickMoves
  <2>6. \A u \in Task : StatusOf(u)' = IF u = p THEN "asleep" ELSE StatusOf(u)
    BY <2>3, <2>5 DEF StatusOf
  <2>7. Status' = [Status EXCEPT ![p] = "asleep"]
    BY <2>2, <2>6 DEF Status
  <2>8. Runner' = [Runner EXCEPT ![c] = NoTask]
    <3>1. \A e \in CPU : curr[e] # NoTask => curr[e] \in Task
      BY DEF TypeOK
    <3>2. ASSUME NEW e \in CPU, e # c
          PROVE  StillRunnable(e)' <=> StillRunnable(e)
      BY <2>1, <2>2, <2>3, <2>5, <3>1, <3>2 DEF StillRunnable
    <3>3. ~ StillRunnable(c)'
      BY <2>1, <2>2, <2>3, <2>5 DEF StillRunnable, p
    <3>4. \A e \in CPU : Runner'[e] = IF e = c THEN NoTask ELSE Runner[e]
      BY <2>1, <3>2, <3>3 DEF Runner
    <3>5. Runner' = [e \in CPU |-> Runner'[e]] /\ Runner = [e \in CPU |-> Runner[e]]
      BY DEF Runner
    <3> QED BY <3>4, <3>5
  <2>9. Runner[c] = p /\ Status[p] = "running"
    BY <2>1, <2>2, StatusIs DEF Runner, StillRunnable, p
  <2>10. Life!Block(c)
    BY <2>1, <2>7, <2>8, <2>9 DEF Life!Block, Life!Become
  <2> QED BY <2>10 DEF Life!Next
<1>3. CASE Switch(c)
  <2>1. SetNext(c, tstate, {}) /\ Runner[c] = NoTask
    BY <1>3 DEF Switch, Runner
  <2>2. tstate \in [Task -> TaskState]
    BY DEF TypeOK
  <2>3. \A u \in Task : tstate[u] = IF u = Runner[c] THEN "dsq" ELSE tstate[u]
    BY <2>1, TaskAssumption
  <2> QED BY <2>1, <2>2, <2>3, SetNextRefines
<1>4. CASE SwitchPreempt(c)
  <2> DEFINE ts == [tstate EXCEPT ![curr[c]] = "dsq"]
  <2>1. Runner[c] = curr[c] /\ curr[c] \in Task
    BY <1>4, CurrentIs DEF SwitchPreempt, Runner, StillRunnable
  <2>2. \E claim : SetNext(c, ts, claim)
    BY <1>4 DEF SwitchPreempt
  <2>3. ts \in [Task -> TaskState]
    BY <2>1 DEF TypeOK, TaskState
  <2>4. \A u \in Task : ts[u] = IF u = Runner[c] THEN "dsq" ELSE tstate[u]
    BY <2>1 DEF TypeOK
  <2> HIDE DEF ts
  <2> QED BY <2>2, <2>3, <2>4, SetNextRefines
<1>5. CASE ChangeRunning(c)
  <2> DEFINE p == curr[c]
  <2>1. /\ p # NoTask /\ UNCHANGED <<tstate, tcpu, curr>>
        /\ \E m \in MaskAfter(p) : c \in m /\ allowed' = [allowed EXCEPT ![p] = m]
        /\ c \notin insched
    BY <1>5 DEF ChangeRunning
  <2>2. p \in Task /\ tcpu[p] = c /\ tstate[p] = "running"
    BY <2>1, CurrentIs
  <2>3. PICK m \in (SUBSET CPU) \ {{}} : c \in m /\ allowed' = [allowed EXCEPT ![p] = m]
    BY <2>1, <2>2, MaskAfterType
  <2>4. \A e \in CPU : Runner[e] = p => e \in m
    BY <2>2, <2>3, RunnerIs
  <2>5. UNCHANGED <<Status, Runner>>
    BY <2>1, QueueMove
  <2>6. Life!SetMask(p)
    BY <2>3, <2>4, <2>5 DEF Life!SetMask
  <2> QED BY <2>2, <2>6 DEF Life!Next
<1> QED BY <1>1, <1>2, <1>3, <1>4, <1>5 DEF CpuStep

-----------------------------------------------------------------------------
(* A task that has a CPU may use it, through all wakeups, picks, steals    *)
(* and changes of its mask.                                                *)
THEOREM MaskHolds == Spec => []MaskKept
<1>1. Init => MaskKept
  BY DEF Init, MaskKept
<1>2. TypeOK /\ TypeOK' /\ OnePlace /\ MaskKept /\ [Next]_vars => MaskKept'
  <2>1. SUFFICES ASSUME LifeInv, TypeOK', [Next]_vars PROVE MaskKept'
    BY DEF LifeInv
  <2>2. CASE \E t \in Task : TaskStep(t)
    BY <2>1, <2>2, TaskMaskKept
  <2>3. CASE \E c \in CPU : CpuStep(c)
    BY <2>1, <2>3, CpuMaskKept
  <2>4. CASE UNCHANGED vars
    BY <2>1, <2>4 DEF LifeInv, MaskKept, vars
  <2> QED BY <2>1, <2>2, <2>3, <2>4 DEF Next, Ejected
<1> QED BY <1>1, <1>2, TypeCorrect, OnePlaceHolds, PTL DEF Spec

(* The scheduler implements TaskLife: whatever bls.bpf.c claims, queues,   *)
(* dispatches and steals, a task runs only after it was woken, on one CPU  *)
(* at a time and where its mask of that moment lets it.                    *)
THEOREM Refines == Spec => Implements
<1>1. Init => Life!Init
  BY TaskAssumption DEF Init, Life!Init, Status, StatusOf, Runner, StillRunnable
<1>2. TypeOK /\ TypeOK' /\ OnePlace /\ MaskKept /\ [Next]_vars
        => [Life!Next]_(Life!life)
  <2>1. SUFFICES ASSUME LifeInv, TypeOK', [Next]_vars
                 PROVE  Life!Next \/ UNCHANGED <<Status, allowed, Runner>>
    BY DEF LifeInv, Life!life
  <2>2. CASE \E t \in Task : TaskStep(t)
    BY <2>1, <2>2, TaskStepRefines
  <2>3. CASE \E c \in CPU : CpuStep(c)
    BY <2>1, <2>3, CpuStepRefines
  <2>4. CASE UNCHANGED vars
    BY <2>4 DEF vars, Status, StatusOf, Runner, StillRunnable
  <2> QED BY <2>1, <2>2, <2>3, <2>4 DEF Next, Ejected
<1> QED BY <1>1, <1>2, TypeCorrect, OnePlaceHolds, MaskHolds, PTL
        DEF Spec, Implements, Life!Spec
=============================================================================
