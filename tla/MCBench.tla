------------------------------ MODULE MCBench ------------------------------
(***************************************************************************)
(* A small instance of Bench: two CPUs, one arm of e2-coupling with two    *)
(* placements and two arms of e3-ab.                                       *)
(***************************************************************************)
EXTENDS Bench

CPU == 0 .. nr_cpus_online - 1

(* CPU 0 is BIG, CPU 1 LITTLE. *)
OneBigOneLittle == [c \in CPU |-> IF c = 0 THEN 0 ELSE 1]

Flat == [c \in CPU |-> "power"]
Partitioned == [c \in CPU |-> IF c = 0 THEN "performance" ELSE "power"]

SomeArms ==
    {[kind |-> "fixed", sched |-> "eevdf", epp |-> Partitioned, placements |-> 2],
     [kind |-> "ab", sched |-> "eevdf", epp |-> Partitioned, placements |-> 1],
     [kind |-> "ab", sched |-> "scx", epp |-> Flat, placements |-> 1]}
=============================================================================
