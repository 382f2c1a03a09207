----------------------------- MODULE BlsCommon -----------------------------
(***************************************************************************)
(* The vocabulary shared by the scheduler's modules: the domains and       *)
(* classifier modes of bls_common.h and the pure helpers of bls.bpf.c.     *)
(*                                                                         *)
(* u64 arithmetic is arithmetic modulo U64.  The kernel's modulus is 2^64; *)
(* it is a parameter here so that TLC can check a narrow machine and the   *)
(* proofs can leave it arbitrary.                                          *)
(***************************************************************************)
EXTENDS Integers

CONSTANTS
    classify_mode,        \* one of the four modes below
    big_slice_thresh,     \* big_slice_thresh_ns
    U64                   \* number of values of a u64

BIG    == 0
LITTLE == 1
Domain == {BIG, LITTLE}

(* dom ^ 1 *)
OtherDomain(d) == 1 - d

FLAT     == 0
COMM     == 1
ADAPTIVE == 2
HYBRID   == 3

ASSUME ClassifyModeAssumption == classify_mode \in {FLAT, COMM, ADAPTIVE, HYBRID}
ASSUME U64Assumption == U64 \in Nat \ {0}
ASSUME ThreshAssumption == big_slice_thresh \in 0 .. (U64 - 1)

U64Value == 0 .. (U64 - 1)

(* Mutant: one DSQ for both domains.                                       *)
dom_dsq_shared(d) == BIG

(* The id of a domain's DSQ is the domain itself, anything that is not     *)
(* LITTLE being BIG.                                                       *)
dom_dsq(d) == IF d = LITTLE THEN LITTLE ELSE BIG

(* What classify_by_comm answers: a domain, or NoRule when no rule matches *)
(* the task's comm.                                                        *)
NoRule == -1

(* The domain a task starts in, given what its comm matches, and whether   *)
(* the classifier may move it later.                                       *)
initial_domain(by_comm) ==
    [domain |-> CASE classify_mode = FLAT -> BIG
                  [] classify_mode \in {COMM, HYBRID} /\ by_comm # NoRule -> by_comm
                  [] OTHER -> LITTLE,
     pinned |-> classify_mode \in {COMM, HYBRID} /\ by_comm # NoRule]

(* Mutant: the two parts are divided separately, which loses more.         *)
Ewma_split(ewma, delta) == (ewma * 3) \div 4 + delta \div 4

(* exec_ewma_ns after a stint of length delta: alpha = 1/4, in u64         *)
(* arithmetic, so the sum wraps before it is divided.                      *)
Ewma(ewma, delta) == ((ewma * 3 + delta) % U64) \div 4

(* The tasks the classifier may still move.                                *)
Adapts(pinned) == ~pinned /\ classify_mode \in {ADAPTIVE, HYBRID}

(* Mutant: demotes below the threshold itself, no hysteresis.              *)
Reclassify_no_hysteresis(d, pinned, ewma) ==
    CASE Adapts(pinned) /\ d = LITTLE /\ ewma > big_slice_thresh -> BIG
      [] Adapts(pinned) /\ d = BIG /\ ewma < big_slice_thresh -> LITTLE
      [] OTHER -> d

(* The tail of bls_stopping: promote above the threshold, demote below     *)
(* half of it.                                                             *)
Reclassify(d, pinned, ewma) ==
    CASE Adapts(pinned) /\ d = LITTLE /\ ewma > big_slice_thresh -> BIG
      [] Adapts(pinned) /\ d = BIG /\ ewma < big_slice_thresh \div 2 -> LITTLE
      [] OTHER -> d
=============================================================================
