----------------------------- MODULE MCCampaign -----------------------------
(***************************************************************************)
(* Instances of Campaign: short campaigns on the machine with four cores,  *)
(* and sessions of one repetition on other topologies.                     *)
(***************************************************************************)
EXTENDS Campaign

CONSTANTS t1, t2

Small == [files |-> 1, text |-> t1]
Large == [files |-> 2, text |-> t2]
Call(w, f) == [want |-> w, force |-> f]

Laptop == [c \in 0 .. 7 |-> c % 4]
Adjacent == [c \in 0 .. 7 |-> c \div 2]
NoSmt == [c \in 0 .. 3 |-> c]
OneCore == [c \in 0 .. 1 |-> 0]

Run(e, reps) == [experiment |-> e, reps |-> reps, topo |-> Laptop, big |-> <<>>,
                 on_ac |-> TRUE, splits |-> TRUE]

Script(wants, sessions, upsets, cuts) ==
    [wants |-> wants, sessions |-> sessions, upsets |-> upsets, cuts |-> cuts, md |-> Absent]

Once == <<Call(Small, FALSE)>>

MCScripts ==
    (* one session of e3-ab, with a strange run, with an interruption *)
    {Script(Once, <<[Run("e3-ab", 3) EXCEPT !.splits = s]>>, 1, 0) : s \in BOOLEAN}
    \cup {Script(Once, <<Run("e3-ab", 3)>>, 0, 1)}
    (* a second session over the records of the first *)
    \cup {Script(Once, <<Run("e3-ab", 2), [Run("e3-ab", r) EXCEPT !.on_ac = ac]>>, 0, 1) :
            r \in 2 .. 3, ac \in BOOLEAN}
    \cup {Script(Once, <<Run("e3-ab", 2), [Run("e3-ab", 1) EXCEPT !.on_ac = FALSE]>>, 0, 1)}
    (* and two interruptions, which may hide an arm *)
    \cup {Script(Once, <<Run("e3-ab", 2), Run("e3-ab", 1)>>, 0, 2)}
    (* the other experiments *)
    \cup {Script(Once, <<Run("e1-rail", 2), Run("e3-ab", 2)>>, 1, 0),
          Script(Once, <<Run("e1b-poison", 2)>>, 1, 0),
          [Script(Once, <<Run("all", 1)>>, 0, 1) EXCEPT !.md = Own]}
    \cup {Script(Once, <<[Run(e, 1) EXCEPT !.topo = t]>>, 0, 0) :
            t \in {Laptop, Adjacent, NoSmt, OneCore}, e \in {"e1-rail", "e2-coupling"}}
    \cup {Script(Once, <<[Run("e2-coupling", 1) EXCEPT !.big = b]>>, 0, 0) :
            b \in {<< <<0, 0>>, <<4, 4>> >>, << <<0, 2>> >>, << <<1, 0>>, <<7, 7>>, <<5, 6>> >>,
                   << <<2, 2>>, <<2, 3>> >>, << <<0, 7>> >>}}
    (* the workload is made again, and interrupted *)
    \cup {Script(<<Call(Large, FALSE), Call(w, f), Call(Large, FALSE)>>,
                 <<Run("e3-ab", 1)>>, 0, 2) : w \in {Small, Large}, f \in BOOLEAN}

Words == << "both-balance", "both-performance", "both-power", "eevdf-flat", "eevdf-partitioned",
            "flat", "others-balance", "others-balance-power", "others-performance",
            "others-power", "partitioned", "scx-flat", "scx-partitioned",
            "scx-partitioned-strict" >>
Place == [w \in Range(Words) |-> CHOOSE i \in DOMAIN Words : Words[i] = w]

(* flat.big1 < flat.big1+little1 < flat.idle < flat.little1; there are no  *)
(* numbers of two digits.                                                  *)
MCBefore(a, b) ==
    \/ Place[a[1]] < Place[b[1]]
    \/ a[1] = b[1] /\ a[2] > b[2]
    \/ a[1] = b[1] /\ a[2] = b[2] /\ a[3] < b[3]

(* eevdf-partitioned and the strict arm take less energy than eevdf-flat,  *)
(* the strict arm the least.                                               *)
MCUsual(run, s) ==
    [attached |-> TRUE, energy |-> TRUE, pinger |-> TRUE, exit_code |-> 0,
     pkg_j |-> CASE run.arm[1] \in {"both-power", "eevdf-partitioned"} -> 80
                 [] run.arm[1] = "scx-partitioned-strict" -> 70
                 [] run.arm[1] = "scx-partitioned" -> 120
                 [] OTHER -> 100,
     wall_s |-> 30, pkg_c_max |-> 92, start_temp |-> 50,
     clock |-> IF s.splits THEN 0 :> 3400 @@ 128 :> 3000 @@ 192 :> 2400 @@ 255 :> 900
                           ELSE [e \in {0, 128, 192, 255} |-> 2500],
     readback |-> [e \in {0, 128, 192, 255} |-> e],
     bls |-> [present |-> TRUE, enqueue |-> 300,
              cross |-> IF run.strict = TRUE THEN 0 ELSE 100]]

MCUnusual(run, s) ==
    LET u == MCUsual(run, s) IN
    {[u EXCEPT !.energy = FALSE], [u EXCEPT !.exit_code = 2], [u EXCEPT !.pinger = FALSE],
     [u EXCEPT !.start_temp = 70], [u EXCEPT !.start_temp = Missing],
     [u EXCEPT !.pkg_c_max = 98], [u EXCEPT !.pkg_j = 130], [u EXCEPT !.pkg_j = Missing],
     [u EXCEPT !.wall_s = 40], [u EXCEPT !.readback = [e \in DOMAIN u.readback |-> 128]]}
    \cup (IF run.sched = "scx"
          THEN {[u EXCEPT !.attached = FALSE], [u EXCEPT !.bls = NoBls],
                [u EXCEPT !.bls.cross = 290], [u EXCEPT !.bls.enqueue = 0]}
          ELSE {})
=============================================================================
