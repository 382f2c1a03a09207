------------------------------ MODULE TaskLife ------------------------------
(***************************************************************************)
(* What a scheduler owes the tasks, whatever queues, domains and claims it *)
(* uses: a task runs only after it was woken, on one CPU at a time and     *)
(* only where its affinity mask of that moment lets it; it waits until it  *)
(* is run and runs until it blocks or is put back among the waiting.       *)
(***************************************************************************)
CONSTANTS
    CPU,
    Task,
    NoTask

VARIABLES
    status,    \* of each task: absent, asleep, waiting or running
    mask,      \* the CPUs it may use
    runner     \* the task each CPU runs, or NoTask

life == <<status, mask, runner>>

Init ==
    /\ status = [t \in Task |-> "absent"]
    /\ mask = [t \in Task |-> CPU]
    /\ runner = [c \in CPU |-> NoTask]

Become(t, from, to) ==
    /\ status[t] = from
    /\ status' = [status EXCEPT ![t] = to]

Create(t) ==
    /\ Become(t, "absent", "asleep")
    /\ \E m \in (SUBSET CPU) \ {{}} : mask' = [mask EXCEPT ![t] = m]
    /\ runner' = runner

Exit(t) ==
    /\ Become(t, "asleep", "absent")
    /\ mask' = [mask EXCEPT ![t] = CPU]
    /\ runner' = runner

Wake(t) ==
    /\ Become(t, "asleep", "waiting")
    /\ mask' = mask /\ runner' = runner

(* A task is not left running where it must not.                           *)
SetMask(t) ==
    /\ \E m \in (SUBSET CPU) \ {{}} :
        /\ \A c \in CPU : runner[c] = t => c \in m
        /\ mask' = [mask EXCEPT ![t] = m]
    /\ status' = status /\ runner' = runner

Block(c) ==
    /\ runner[c] # NoTask
    /\ Become(runner[c], "running", "asleep")
    /\ runner' = [runner EXCEPT ![c] = NoTask]
    /\ mask' = mask

(* The task c runs, if any, goes back among the waiting; c runs n, if      *)
(* there is one.                                                           *)
Resched(c, n) ==
    /\ n # NoTask => status[n] = "waiting" /\ c \in mask[n]
    /\ status' = [t \in Task |-> IF t = n THEN "running"
                                 ELSE IF t = runner[c] THEN "waiting" ELSE status[t]]
    /\ runner' = [runner EXCEPT ![c] = n]
    /\ mask' = mask

Next ==
    \/ \E t \in Task : Create(t) \/ Exit(t) \/ Wake(t) \/ SetMask(t)
    \/ \E c \in CPU : Block(c) \/ \E n \in Task \cup {NoTask} : Resched(c, n)

Spec == Init /\ [][Next]_life
=============================================================================
