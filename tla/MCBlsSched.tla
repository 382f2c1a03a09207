---------------------------- MODULE MCBlsSched ----------------------------
(***************************************************************************)
(* Small instances of BlsSched.  The comm "cc1" matches a big rule, "sh"   *)
(* matches none.                                                           *)
(***************************************************************************)
EXTENDS BlsSched

CONSTANTS t1, t2, t3

TwoTasks == {t1, t2}
ThreeTasks == {t1, t2, t3}

OneBigOneLittle == (0 :> BIG) @@ (1 :> LITTLE)
OneBigTwoLittle == (0 :> BIG) @@ (1 :> LITTLE) @@ (2 :> LITTLE)
BothBig == (0 :> BIG) @@ (1 :> BIG)

Comms == {"cc1", "sh"}
CommRules == ("cc1" :> BIG) @@ ("sh" :> NoRule)

AnyCpu == {CPU}
AnyCpuOrLittle == {CPU, {c \in CPU : dom_of_cpu(c) = LITTLE}}
AnyCpuOrBound == {CPU} \cup {{c} : c \in CPU}

Symmetry == Permutations(Task)

(* Tasks are interchangeable, so t1 stands for all of them; nothing is     *)
(* asked of the wakeups of the others.                                     *)
FairSpec == Spec /\ Fairness(t1)

(* No runnable task starves, see Runs, except one whose properties are     *)
(* changed again and again while it is queued: each change sends it to the *)
(* end of a queue.                                                         *)
RunnableRuns == Runs(t1) \/ []<><<ChangeQueued(t1)>>_vars
=============================================================================
