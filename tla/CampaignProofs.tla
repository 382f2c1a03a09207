--------------------------- MODULE CampaignProofs ---------------------------
(***************************************************************************)
(* Wherever workload.py is killed and however it is started again, the     *)
(* stamp vouches for the tree, unless a removal was cut short.  A build    *)
(* that a session records as ok compiled the complete project, whatever    *)
(* the arguments, the sizes and the outcomes of the runs, and wherever the *)
(* sessions were cut short.  And what analyze.py then says of the records  *)
(* it says consistently, and claims a win only where they admit one.       *)
(***************************************************************************)
EXTENDS Campaign, DataProofs

-----------------------------------------------------------------------------
(* What a run has done by each of its steps                                *)

(* The first n modules of what is wanted exist, and no others.             *)
Written(n) ==
    /\ DOMAIN mods = 0 .. n - 1
    /\ \A i \in DOMAIN mods : mods[i] = want.text

Writing ==
    at = "write" => stamp = NoFile /\ makefile = NoFile /\ next < want.files /\ Written(next)

AllWritten ==
    at = "makefile" => stamp = NoFile /\ Written(want.files)

ReadyToStamp ==
    at = "stamp" => stamp = NoFile /\ Whole(want)

(* A stamp that can be read vouches for the tree outside a removal.        *)
StampVouches ==
    ~torn /\ at # "remove" /\ stamp \in Want => Whole(stamp)

SaidIsStamp ==
    said = "up to date" /\ at = "idle" => stamp = want

WInv ==
    /\ WTypeOK
    /\ Writing /\ AllWritten /\ ReadyToStamp
    /\ StampVouches /\ SaidIsStamp

-----------------------------------------------------------------------------
(* The numbers are numbers.                                                *)
LEMMA Bounds ==
    ASSUME WTypeOK
    PROVE  /\ want.files \in 1 .. MaxFiles /\ want.text \in Texts
           /\ MaxFiles \in Nat /\ next \in Nat
<1>1. want \in Want /\ next \in 0 .. MaxFiles
  BY DEF WTypeOK
<1>2. want.files \in 1 .. MaxFiles /\ want.text \in Texts
  BY <1>1 DEF Want
<1> QED BY <1>1, <1>2, TextAssumption

LEMMA InitInv == WInit => WInv
<1> SUFFICES ASSUME WInit PROVE WInv
  OBVIOUS
<1>1. want.files \in 1 .. MaxFiles /\ MaxFiles \in Nat
  BY TextAssumption DEF WInit, Want
<1>2. DOMAIN mods = {} /\ mods = [i \in {} |-> Cut]
  BY DEF WInit, NoMods
<1>3. mods \in [DOMAIN mods -> Texts \cup {Cut}]
  BY <1>2
<1>4. WTypeOK
  <2>1. /\ want \in Want /\ next \in 0 .. MaxFiles
        /\ DOMAIN mods \subseteq 0 .. MaxFiles - 1
        /\ makefile \in 0 .. MaxFiles \cup {NoFile}
    BY <1>1, <1>2 DEF WInit
  <2>2. force \in BOOLEAN /\ torn \in BOOLEAN
    BY Zenon DEF WInit
  <2> QED BY <1>3, <2>1, <2>2 DEF WInit, WTypeOK
<1>5. stamp \notin Want
  BY FileAssumption DEF WInit
<1> QED BY <1>4, <1>5 DEF WInit, WInv, Writing, AllWritten, ReadyToStamp, StampVouches, SaidIsStamp

(* Starting a run changes no file.                                         *)
LEMMA MainInv ==
    ASSUME WInv, NEW w \in Want, NEW f \in BOOLEAN, Main(w, f)
    PROVE  WInv'
<1> USE DEF tree
<1>1. WTypeOK'
  BY DEF Main, WInv, WTypeOK
<1>2. at' \in {"idle", "remove"}
  BY DEF Main
<1>3. StampVouches'
  BY <1>2 DEF Main, WInv, StampVouches, Whole
<1>4. SaidIsStamp'
  BY DEF Main, SaidIsStamp
<1> QED BY <1>1, <1>2, <1>3, <1>4 DEF WInv, Writing, AllWritten, ReadyToStamp

LEMMA RemoveInv ==
    ASSUME WInv, RemoveEntry \/ Removed
    PROVE  WInv'
<1> USE DEF tree
<1>0. want.files \in 1 .. MaxFiles /\ MaxFiles \in Nat
  BY Bounds DEF WInv
<1>1. CASE RemoveEntry
  <2>1. /\ at' = "remove" /\ at = "remove"
        /\ UNCHANGED <<want, force, next, said, torn>>
    BY <1>1 DEF RemoveEntry
  <2>2. DOMAIN mods' \subseteq DOMAIN mods /\ mods' \in [DOMAIN mods' -> Texts \cup {Cut}]
    BY <1>1 DEF RemoveEntry, Restrict, WInv, WTypeOK
  <2>3. makefile' \in {makefile, NoFile} /\ stamp' \in {stamp, NoFile}
    BY <1>1 DEF RemoveEntry
  <2>4. WTypeOK'
    BY <2>1, <2>2, <2>3 DEF WInv, WTypeOK
  <2> QED BY <2>1, <2>4
          DEF WInv, Writing, AllWritten, ReadyToStamp, StampVouches, SaidIsStamp
<1>2. CASE Removed
  <2>1. /\ at' = "write" /\ next' = 0
        /\ stamp' = NoFile /\ makefile' = NoFile /\ mods' = NoMods
        /\ UNCHANGED want
    BY <1>2 DEF Removed, Exists
  <2>2. WTypeOK'
    <3>1. next' \in 0 .. MaxFiles
      BY <1>0, <2>1
    <3>2. torn' \in BOOLEAN
      BY <1>2, Zenon DEF Removed
    <3> QED BY <1>2, <3>1, <3>2 DEF Removed, WInv, WTypeOK
  <2>3. DOMAIN NoMods = {}
    BY DEF NoMods
  <2>4. Written(next)' /\ next' < want'.files
    BY <1>0, <2>1, <2>3 DEF Written
  <2>5. stamp' \notin Want
    BY <2>1, FileAssumption
  <2> QED BY <2>1, <2>2, <2>4, <2>5
          DEF WInv, Writing, AllWritten, ReadyToStamp, StampVouches, SaidIsStamp
<1> QED BY <1>1, <1>2

LEMMA WriteModuleInv ==
    ASSUME WInv, WriteModule
    PROVE  WInv'
<1>0. /\ want.files \in 1 .. MaxFiles /\ want.text \in Texts
      /\ MaxFiles \in Nat /\ next \in Nat
  BY Bounds DEF WInv
<1>1. /\ at = "write" /\ next < want.files /\ next' = next + 1
      /\ mods' = WithFile(next, want.text)
      /\ at' = IF next' = want.files THEN "makefile" ELSE "write"
      /\ UNCHANGED <<want, force, makefile, stamp, said, torn>>
  BY DEF WriteModule
<1>2. stamp = NoFile /\ makefile = NoFile /\ Written(next)
  BY <1>1 DEF WInv, Writing
<1>3. DOMAIN mods' = 0 .. next
  BY <1>0, <1>1, <1>2 DEF WithFile, Written
<1>4. \A i \in DOMAIN mods' : mods'[i] = want.text
  BY <1>1, <1>2 DEF WithFile, Written
<1>5. Written(next)'
  BY <1>0, <1>1, <1>3, <1>4 DEF Written
<1>6. mods' \in [DOMAIN mods' -> Texts \cup {Cut}]
  BY <1>0, <1>1, <1>4 DEF WithFile
<1>7. WTypeOK'
  <2>1. DOMAIN mods' \subseteq 0 .. MaxFiles - 1 /\ next' \in 0 .. MaxFiles
    BY <1>0, <1>1, <1>3
  <2> QED BY <1>1, <1>6, <2>1 DEF WInv, WTypeOK
<1>8. stamp' \notin Want
  BY <1>1, <1>2, FileAssumption
<1>9. Writing' /\ AllWritten'
  BY <1>0, <1>1, <1>2, <1>5 DEF Writing, AllWritten, Written
<1> QED BY <1>1, <1>7, <1>8, <1>9 DEF WInv, ReadyToStamp, StampVouches, SaidIsStamp

LEMMA WriteRestInv ==
    ASSUME WInv, WriteMakefile \/ WriteStamp
    PROVE  WInv'
<1>0. want.files \in 1 .. MaxFiles /\ MaxFiles \in Nat
  BY Bounds DEF WInv
<1>1. CASE WriteMakefile
  <2>1. /\ at = "makefile" /\ at' = "stamp" /\ makefile' = want.files
        /\ UNCHANGED <<want, force, next, mods, stamp, said, torn>>
    BY <1>1 DEF WriteMakefile
  <2>2. stamp = NoFile /\ Written(want.files)
    BY <2>1 DEF WInv, AllWritten
  <2>3. WTypeOK'
    <3>1. makefile' \in 0 .. MaxFiles
      BY <1>0, <2>1
    <3> QED BY <2>1, <3>1 DEF WInv, WTypeOK
  <2>4. Whole(want)'
    BY <2>1, <2>2 DEF Whole, Written
  <2>5. stamp' \notin Want
    BY <2>1, <2>2, FileAssumption
  <2> QED BY <2>1, <2>2, <2>3, <2>4, <2>5
          DEF WInv, Writing, AllWritten, ReadyToStamp, StampVouches, SaidIsStamp
<1>2. CASE WriteStamp
  <2>1. /\ at = "stamp" /\ at' = "idle" /\ stamp' = want /\ said' = "generated"
        /\ UNCHANGED <<want, force, next, mods, makefile, torn>>
    BY <1>2 DEF WriteStamp
  <2>2. Whole(want)'
    BY <2>1 DEF WInv, ReadyToStamp, Whole
  <2>3. WTypeOK'
    BY <2>1 DEF WInv, WTypeOK
  <2> QED BY <2>1, <2>2, <2>3
          DEF WInv, Writing, AllWritten, ReadyToStamp, StampVouches, SaidIsStamp
<1> QED BY <1>1, <1>2

(* Wherever the run is killed: past the removal there is no stamp yet, or  *)
(* one that cannot be read.                                                *)
LEMMA KilledInv ==
    ASSUME WInv, Killed
    PROVE  WInv'
<1> USE DEF tree
<1>0. want.files \in 1 .. MaxFiles /\ MaxFiles \in Nat /\ next \in Nat
  BY Bounds DEF WInv
<1>1. /\ at # "idle" /\ at' = "idle" /\ said' = "killed"
      /\ torn' = (torn \/ at = "remove")
      /\ UNCHANGED <<want, force, next>>
  BY DEF Killed
<1>2. /\ DOMAIN mods' \subseteq 0 .. MaxFiles - 1
      /\ mods' \in [DOMAIN mods' -> Texts \cup {Cut}]
  <2>1. CASE UNCHANGED mods
    BY <2>1 DEF WInv, WTypeOK
  <2>2. CASE at = "write" /\ next < want.files /\ mods' = WithFile(next, Cut)
    <3>1. next \in 0 .. MaxFiles - 1
      BY <1>0, <2>2
    <3>2. DOMAIN mods \subseteq 0 .. MaxFiles - 1 /\ mods \in [DOMAIN mods -> Texts \cup {Cut}]
      BY DEF WInv, WTypeOK
    <3>3. DOMAIN WithFile(next, Cut) = DOMAIN mods \cup {next}
      BY DEF WithFile
    <3>4. \A i \in DOMAIN WithFile(next, Cut) : WithFile(next, Cut)[i] \in Texts \cup {Cut}
      BY <3>2 DEF WithFile
    <3>5. WithFile(next, Cut) = [i \in DOMAIN WithFile(next, Cut) |-> WithFile(next, Cut)[i]]
      BY DEF WithFile
    <3> QED BY <2>2, <3>1, <3>2, <3>3, <3>4, <3>5
  <2> QED BY <2>1, <2>2 DEF Killed
<1>3. makefile' \in {makefile, 0} /\ stamp' \in {stamp, Cut}
  BY DEF Killed
<1>4. WTypeOK'
  <2>1. 0 \in 0 .. MaxFiles
    BY <1>0
  <2>3. makefile' \in 0 .. MaxFiles \cup {NoFile} /\ stamp' \in Want \cup {NoFile, Cut}
    BY <1>3, <2>1, Zenon DEF WInv, WTypeOK
  <2>2. torn' \in BOOLEAN
    BY <1>1, Zenon
  <2> QED BY <1>1, <1>2, <2>2, <2>3 DEF WInv, WTypeOK
<1>5. StampVouches'
  <2>1. CASE at = "remove"
    BY <1>1, <2>1 DEF StampVouches
  <2>2. CASE at # "remove"
    <3>1. stamp = NoFile
      BY <1>1, <2>2 DEF WInv, WTypeOK, Writing, AllWritten, ReadyToStamp
    <3> QED BY <1>3, <3>1, FileAssumption DEF StampVouches
  <2> QED BY <2>1, <2>2
<1> QED BY <1>1, <1>4, <1>5 DEF WInv, Writing, AllWritten, ReadyToStamp, SaidIsStamp

-----------------------------------------------------------------------------
(* The invariant the other theorems rest on.                               *)
THEOREM InvHolds == WSpec => []WInv
<1>1. WInit => WInv
  BY InitInv
<1>2. WInv /\ [WNext]_wvars => WInv'
  <2>1. SUFFICES ASSUME WInv, [WNext]_wvars PROVE WInv'
    OBVIOUS
  <2>2. CASE \E w \in Want, f \in BOOLEAN : Main(w, f)
    BY <2>1, <2>2, MainInv
  <2>3. CASE Generate
    BY <2>1, <2>3, RemoveInv, WriteModuleInv, WriteRestInv DEF Generate
  <2>4. CASE Killed
    BY <2>1, <2>4, KilledInv
  <2>5. CASE UNCHANGED wvars
    <3>1. WTypeOK' /\ Writing' /\ AllWritten'
      BY <2>1, <2>5 DEF wvars, tree, WInv, WTypeOK, Writing, Written, AllWritten
    <3>2. ReadyToStamp' /\ StampVouches' /\ SaidIsStamp'
      BY <2>1, <2>5 DEF wvars, tree, WInv, ReadyToStamp, StampVouches, SaidIsStamp, Whole
    <3> QED BY <3>1, <3>2 DEF WInv
  <2> QED BY <2>1, <2>2, <2>3, <2>4, <2>5 DEF WNext
<1> QED BY <1>1, <1>2, PTL DEF WSpec

(* Every variable of the generator keeps its type: main() of workload.py   *)
(* writes no file beyond --files and stamps with the arguments it got.     *)
THEOREM WorkloadTypeCorrect == WSpec => []WTypeOK
<1>1. WInv => WTypeOK
  BY DEF WInv
<1> QED BY <1>1, InvHolds, PTL

(* workload.py says "up to date" only of a complete tree of the wanted     *)
(* files, wherever earlier runs were killed, unless one was killed inside  *)
(* rmtree.                                                                 *)
THEOREM UpToDateIsCompleteHolds == WSpec => []UpToDateIsComplete
<1>1. WInv => UpToDateIsComplete
  <2>1. SUFFICES ASSUME WInv, said = "up to date", at = "idle", ~torn
                 PROVE  Whole(want)
    BY DEF UpToDateIsComplete
  <2>2. stamp = want /\ want \in Want
    BY <2>1 DEF WInv, SaidIsStamp, WTypeOK
  <2> QED BY <2>1, <2>2 DEF WInv, StampVouches
<1> QED BY <1>1, InvHolds, PTL

-----------------------------------------------------------------------------
(* What make finds, also while and after a removal: nothing but modules of *)
(* one tree, written to the end, where a Makefile names any.               *)
MakefileFits ==
    makefile \in Nat \ {0} => \E w \in Want :
        /\ makefile = w.files
        /\ DOMAIN mods \subseteq 0 .. w.files - 1
        /\ \A i \in DOMAIN mods : mods[i] = w.text

LEMMA FitsStep ==
    ASSUME WInv, MakefileFits, [WNext]_wvars
    PROVE  MakefileFits'
<1> USE DEF tree
<1>1. CASE UNCHANGED <<mods, makefile>>
  BY <1>1 DEF MakefileFits
<1>2. CASE RemoveEntry
  <2>1. /\ DOMAIN mods' \subseteq DOMAIN mods /\ \A i \in DOMAIN mods' : mods'[i] = mods[i]
        /\ makefile' \in {makefile, NoFile}
    BY <1>2 DEF RemoveEntry, Restrict
  <2>2. NoFile \notin Nat
    BY FileAssumption
  <2> QED BY <2>1, <2>2 DEF MakefileFits
<1>3. CASE WriteModule
  <2>1. makefile' = NoFile
    BY <1>3 DEF WriteModule, WInv, Writing
  <2> QED BY <2>1, FileAssumption DEF MakefileFits
<1>4. CASE WriteMakefile
  <2>1. makefile' = want.files /\ Written(want.files) /\ UNCHANGED mods
    BY <1>4 DEF WriteMakefile, WInv, AllWritten
  <2>2. want \in Want
    BY DEF WInv, WTypeOK
  <2> QED BY <2>1, <2>2 DEF MakefileFits, Written
<1>5. CASE Killed
  <2>1. CASE UNCHANGED <<mods, makefile>>
    BY <1>1, <2>1
  <2>2. CASE at = "write" /\ UNCHANGED makefile
    BY <2>2, FileAssumption DEF WInv, Writing, MakefileFits
  <2>3. CASE makefile' = 0
    BY <2>3 DEF MakefileFits
  <2> QED BY <1>5, <2>1, <2>2, <2>3 DEF Killed
<1>6. CASE Removed \/ WriteStamp \/ \E w \in Want, f \in BOOLEAN : Main(w, f)
  BY <1>1, <1>6 DEF Removed, WriteStamp, Main
<1>7. CASE UNCHANGED wvars
  BY <1>1, <1>7 DEF wvars
<1> QED BY <1>2, <1>3, <1>4, <1>5, <1>6, <1>7 DEF WNext, Generate

(* generate() writes the Makefile when all modules are there, so none that *)
(* was cut short is ever compiled.                                         *)
THEOREM MakefileFitsHolds == WSpec => []MakefileFits
<1>1. WInit => MakefileFits
  BY FileAssumption DEF WInit, MakefileFits
<1> QED BY <1>1, FitsStep, InvHolds, PTL DEF WSpec

-----------------------------------------------------------------------------
(* The campaign                                                            *)

USE DEF svars

(* The part of the script that is left.                                    *)
ScriptOK ==
    /\ DOMAIN script = {"wants", "sessions", "upsets", "cuts", "md"}
    /\ script.wants \in Seq(Calls)

(* While a session runs, nobody changes the tree, and it has a Makefile.   *)
SessionHasTree ==
    ended = "running" => script.wants = <<>> /\ at = "idle" /\ makefile # NoFile

CampInv == ScriptOK /\ SessionHasTree

-----------------------------------------------------------------------------
(* The tree                                                                *)

LEMMA CallIsMain ==
    ASSUME ScriptOK, CallWorkload
    PROVE  \E w \in Want, f \in BOOLEAN : Main(w, f)
<1>1. script.wants # <<>> /\ script.wants \in Seq(Calls)
  BY DEF ScriptOK, CallWorkload
<1>2. Head(script.wants) \in Calls
  BY <1>1
<1>3. Head(script.wants).want \in Want /\ Head(script.wants).force \in BOOLEAN
  BY <1>2 DEF Calls
<1> QED BY <1>3 DEF CallWorkload

LEMMA StepIsWorkload ==
    ASSUME ScriptOK, [Next]_vars
    PROVE  [WNext]_wvars
<1>1. CASE CallWorkload
  BY <1>1, CallIsMain DEF WNext
<1>2. CASE GenerateWorkload \/ KillWorkload
  BY <1>2 DEF GenerateWorkload, KillWorkload, WNext
<1>3. CASE StartSession \/ Interrupt \/ Analyze
  BY <1>3 DEF StartSession, Interrupt, Analyze
<1>4. CASE MeasureUsual \/ MeasureUnusual
  BY <1>4 DEF MeasureUsual, MeasureUnusual, Measure
<1>5. CASE UNCHANGED vars
  BY <1>5 DEF vars
<1> QED BY <1>1, <1>2, <1>3, <1>4, <1>5 DEF Next

(* A step takes the first call off the script or leaves the calls alone.   *)
LEMMA ScriptStep ==
    ASSUME ScriptOK, [Next]_vars
    PROVE  ScriptOK' /\ (CallWorkload \/ script'.wants = script.wants)
<1>1. CASE CallWorkload
  <2>1. script.wants # <<>> /\ script' = [script EXCEPT !.wants = Tail(@)]
    BY <1>1 DEF CallWorkload
  <2>2. Tail(script.wants) \in Seq(Calls)
    BY <2>1 DEF ScriptOK
  <2> QED BY <1>1, <2>1, <2>2 DEF ScriptOK
<1>2. CASE script' \in {script, [script EXCEPT !.cuts = @ - 1], [script EXCEPT !.upsets = @ - 1],
                        [script EXCEPT !.sessions = Tail(@)]}
  BY <1>2 DEF ScriptOK
<1>3. CASE ~ CallWorkload
  <2>1. script' \in {script, [script EXCEPT !.cuts = @ - 1], [script EXCEPT !.upsets = @ - 1],
                     [script EXCEPT !.sessions = Tail(@)]}
    BY <1>3 DEF Next, GenerateWorkload, KillWorkload, StartSession, MeasureUsual, MeasureUnusual,
                Interrupt, Analyze, vars
  <2> QED BY <1>2, <2>1
<1> QED BY <1>1, <1>3

LEMMA CampInvStep ==
    ASSUME CampInv, [Next]_vars
    PROVE  CampInv'
<1>1. ScriptOK' /\ (CallWorkload \/ script'.wants = script.wants)
  BY ScriptStep DEF CampInv
<1>2. SessionHasTree'
  <2>1. CASE CallWorkload
    <3>1. UNCHANGED ended /\ script.wants # <<>>
      BY <2>1 DEF CallWorkload
    <3> QED BY <3>1 DEF CampInv, SessionHasTree
  <2>2. CASE GenerateWorkload \/ KillWorkload
    <3>1. UNCHANGED ended /\ at # "idle"
      BY <2>2 DEF GenerateWorkload, KillWorkload, Generate, RemoveEntry, Removed, WriteModule,
                  WriteMakefile, WriteStamp, Killed
    <3> QED BY <3>1 DEF CampInv, SessionHasTree
  <2>3. CASE StartSession
    <3>1. /\ script.wants = <<>> /\ at = "idle" /\ UNCHANGED <<at, makefile>>
          /\ ended' = "running" => makefile # NoFile
      BY <2>3 DEF StartSession, wvars, tree
    <3>2. script'.wants = script.wants
      BY <1>1, <3>1 DEF CallWorkload
    <3> QED BY <3>1, <3>2 DEF SessionHasTree
  <2>4. CASE MeasureUsual \/ MeasureUnusual
    <3>1. ended = "running" /\ UNCHANGED <<at, makefile>> /\ ~ CallWorkload
      <4>1. ended = "running" /\ UNCHANGED wvars
        BY <2>4 DEF MeasureUsual, MeasureUnusual, Measure
      <4> QED BY <4>1 DEF wvars, tree, CampInv, SessionHasTree, CallWorkload
    <3> QED BY <1>1, <3>1 DEF CampInv, SessionHasTree
  <2>5. CASE Interrupt
    BY <2>5 DEF Interrupt, SessionHasTree
  <2>6. CASE Analyze
    BY <2>6 DEF Analyze, SessionHasTree
  <2>7. CASE UNCHANGED vars
    BY <2>7 DEF vars, wvars, tree, CampInv, SessionHasTree
  <2> QED BY <2>1, <2>2, <2>3, <2>4, <2>5, <2>6, <2>7 DEF Next
<1> QED BY <1>1, <1>2 DEF CampInv

THEOREM CampInvHolds == Spec => []CampInv
<1>1. Init => CampInv
  BY ScriptAssumption DEF Init, CampInv, ScriptOK, SessionHasTree
<1> QED BY <1>1, CampInvStep, PTL DEF Spec

(* A campaign runs workload.py and otherwise leaves its tree alone.        *)
THEOREM CampaignRunsWorkload == Spec => WSpec
<1>1. Init => WInit
  BY DEF Init
<1>2. CampInv /\ [Next]_vars => [WNext]_wvars
  BY StepIsWorkload DEF CampInv
<1> QED BY <1>1, <1>2, CampInvHolds, PTL DEF Spec, WSpec

-----------------------------------------------------------------------------
(* The records                                                             *)

(* make succeeds only where the Makefile and everything it names are.      *)
LEMMA BuildsWhole ==
    ASSUME WInv, MakefileFits, makefile # NoFile, TRUE \in Builds
    PROVE  \E w \in Want : Whole(w)
<1>1. makefile # 0 /\ 0 .. makefile - 1 \subseteq DOMAIN mods
  BY DEF Builds
<1>2. makefile \in Nat \ {0}
  <2>1. makefile \in 0 .. MaxFiles \cup {NoFile}
    BY DEF WInv, WTypeOK
  <2> QED BY <1>1, <2>1, TextAssumption
<1>3. PICK w \in Want : /\ makefile = w.files
                        /\ DOMAIN mods \subseteq 0 .. w.files - 1
                        /\ \A i \in DOMAIN mods : mods[i] = w.text
  BY <1>2 DEF MakefileFits
<1> QED BY <1>1, <1>3 DEF Whole

(* The two ways into the record of e3-ab: make failed, or it did not.      *)
LEMMA RecordWhole ==
    ASSUME WInv, MakefileFits, makefile # NoFile,
           NEW run, NEW m, NEW built \in Builds, Record(run, m, built).ok
    PROVE  Record(run, m, built).whole
<1>1. built \in BOOLEAN
  BY DEF Builds
<1>2. run.experiment = "e3-ab" => built
  <2>1. (IF run.experiment = "e3-ab" /\ ~ built THEN 2 ELSE m.exit_code) = 0
    BY DEF Record
  <2> QED BY <2>1
<1>3. Record(run, m, built).whole = (run.experiment = "e3-ab" => \E w \in Want : Whole(w))
  BY DEF Record
<1> QED BY <1>1, <1>2, <1>3, BuildsWhole

LEMMA OkStep ==
    ASSUME WInv, MakefileFits, CampInv, OkIsWhole, [Next]_vars
    PROVE  OkIsWhole'
<1>1. CASE UNCHANGED disk
  BY <1>1 DEF OkIsWhole, Readable
<1>2. ASSUME NEW run, NEW contents, disk' = WithRecord(run, contents),
             contents # Damaged /\ contents.ok => contents.whole
      PROVE  OkIsWhole'
  BY <1>2 DEF OkIsWhole, Readable, WithRecord
<1>3. CASE MeasureUsual \/ MeasureUnusual
  <2>1. \E run, m : \E built \in Builds : Measure(run, m, built)
    BY <1>3 DEF MeasureUsual, MeasureUnusual
  <2>2. PICK run, m : \E built \in Builds : Measure(run, m, built)
    BY <2>1
  <2>3. PICK built \in Builds : Measure(run, m, built)
    BY <2>2
  <2>4. disk' = WithRecord(run, Record(run, m, built))
    BY <2>3 DEF Measure
  <2>5. makefile # NoFile
    BY <1>3 DEF MeasureUsual, MeasureUnusual, CampInv, SessionHasTree
  <2> QED BY <1>2, <2>4, <2>5, RecordWhole
<1>4. CASE Interrupt
  <2>1. \/ UNCHANGED disk
        \/ \E run : disk' = WithRecord(run, Damaged)
    BY <1>4 DEF Interrupt
  <2> QED BY <1>1, <1>2, <2>1
<1>5. CASE CallWorkload \/ GenerateWorkload \/ KillWorkload \/ StartSession \/ Analyze
  BY <1>1, <1>5 DEF CallWorkload, GenerateWorkload, KillWorkload, StartSession, Analyze
<1>6. CASE UNCHANGED vars
  BY <1>1, <1>6 DEF vars
<1> QED BY <1>3, <1>4, <1>5, <1>6 DEF Next

(* A build that bench.py records as ok compiled the complete project: the  *)
(* order in which generate() writes its files, the look of preflight() at  *)
(* the Makefile and the exit code of make are enough.                      *)
THEOREM OkIsWholeHolds == Spec => []OkIsWhole
<1>1. Init => OkIsWhole
  BY DEF Init, OkIsWhole, Readable
<1>2. WSpec => []WInv /\ []MakefileFits
  BY InvHolds, MakefileFitsHolds, PTL
<1> QED BY <1>1, <1>2, OkStep, CampInvHolds, CampaignRunsWorkload, PTL DEF Spec

(* In a campaign too, workload.py says "up to date" only of a complete     *)
(* tree, unless a removal was cut short.                                   *)
THEOREM CampaignUpToDate == Spec => []UpToDateIsComplete
  BY CampaignRunsWorkload, UpToDateIsCompleteHolds, PTL

-----------------------------------------------------------------------------
(* The verdict and the headline                                            *)

(* The lines of a verdict that are not about gates are the contrasts.      *)
Line(rows, excluding, a, what) == <<a, what>> \in contrasts(rows, excluding)
Bad(rows) == gates(rows) \cup placement_sanity(rows) # {}

LEMMA ContrastIs ==
    ASSUME NEW rows, NEW excluding, NEW c \in contrasts(rows, excluding)
    PROVE  /\ c = <<c[1], c[2]>> /\ c[1] \in Arms(rows)
           /\ c[2] \in {"insufficient", "none", "lower", "higher"}
<1>1. PICK a \in Compared(rows) : c = <<a, contrast(rows, a, excluding)>>
  BY DEF contrasts
<1>2. contrast(rows, a, excluding) \in {"insufficient", "none", "lower", "higher"}
  BY DEF contrast
<1> QED BY <1>1, <1>2 DEF Compared

LEMMA VerdictLines ==
    ASSUME NEW rows, NEW excluding, NEW l \in experiment_verdict(rows, excluding)
    PROVE  /\ l[2] \in {"lower", "none"} =>
                l[1] \in Arms(rows) /\ Line(rows, excluding, l[1], l[2])
           /\ l[2] = "caution" => Bad(rows)
<1> DEFINE cs == contrasts(rows, excluding)
           detectable == {c \in cs : c[2] \in {"lower", "higher"}}
<1>1. \/ l \in cs
      \/ Bad(rows) /\ l \in {<<c[1], "caution">> : c \in detectable}
      \/ l = <<AllArms, "failing gates">>
      \/ l = <<AllArms, "no data">>
  BY DEF experiment_verdict, Bad
<1>2. CASE l \in cs
  BY <1>2, ContrastIs DEF Line
<1>3. CASE Bad(rows) /\ l \in {<<c[1], "caution">> : c \in detectable}
  BY <1>3
<1>4. CASE l = <<AllArms, "failing gates">> \/ l = <<AllArms, "no data">>
  <2>1. ASSUME NEW x, NEW y, l = <<x, y>> PROVE l[2] = y
    BY <2>1
  <2>2. l[2] = "failing gates" \/ l[2] = "no data"
    BY <1>4, <2>1
  <2> QED BY <2>2
<1> QED BY <1>1, <1>2, <1>3, <1>4

LEMMA LinesOfVerdict ==
    ASSUME NEW rows, NEW excluding, NEW a, NEW what, Line(rows, excluding, a, what)
    PROVE  /\ <<a, what>> \in experiment_verdict(rows, excluding)
           /\ a \in Arms(rows)
           /\ what = "lower" /\ Bad(rows) =>
                <<a, "caution">> \in experiment_verdict(rows, excluding)
<1>1. a \in Arms(rows)
  <2> DEFINE c == <<a, what>>
  <2>1. c \in contrasts(rows, excluding) /\ c[1] = a
    BY DEF Line
  <2> HIDE DEF c
  <2> QED BY <2>1, ContrastIs
<1>2. <<a, what>> \in experiment_verdict(rows, excluding)
  BY DEF Line, experiment_verdict
<1>3. ASSUME what = "lower", Bad(rows)
      PROVE  <<a, "caution">> \in experiment_verdict(rows, excluding)
  <2> DEFINE cs == contrasts(rows, excluding)
             detectable == {c \in cs : c[2] \in {"lower", "higher"}}
             cautions == {<<c[1], "caution">> : c \in detectable}
  <2>1. <<a, "lower">> \in detectable
    BY <1>3 DEF Line
  <2>2. <<a, "caution">> \in cautions
    BY <2>1
  <2>3. cautions \subseteq experiment_verdict(rows, excluding)
    BY <1>3 DEF experiment_verdict, Bad
  <2> QED BY <2>2, <2>3
<1> QED BY <1>1, <1>2, <1>3

LEMMA TagsAre ==
    ASSUME NEW data, NEW excluding, NEW es, NEW what, NEW w
    PROVE  w \in Tags(data, excluding, es, what) <=>
             \E e \in es : \E a \in Arms(data[e]) :
                 w = <<e, a>> /\ Line(data[e], excluding[e], a, what)
<1> DEFINE as(e) == {a \in Arms(data[e]) : Line(data[e], excluding[e], a, what)}
<1>1. Tags(data, excluding, es, what) = UNION {{<<e, a>> : a \in as(e)} : e \in es}
  BY DEF Tags, Line
<1>2. w \in Tags(data, excluding, es, what) <=> \E e \in es : w \in {<<e, a>> : a \in as(e)}
  BY <1>1
<1>3. ASSUME NEW e
      PROVE  w \in {<<e, a>> : a \in as(e)} <=>
               \E a \in Arms(data[e]) : w = <<e, a>> /\ Line(data[e], excluding[e], a, what)
  OBVIOUS
<1> QED BY <1>2, <1>3

(* What VerdictAgrees says, of any verdicts and any headline.              *)
Saving(verdict) ==
    UNION {{<<e, l[1]>> : l \in {l \in verdict[e] : l[2] = "lower"}} : e \in DOMAIN verdict}
Cautioned(verdict) == {w \in Saving(verdict) : <<w[2], "caution">> \in verdict[w[1]]}
Agrees(verdict, h) ==
    /\ h.wins = Saving(verdict) \ Cautioned(verdict)
    /\ h.blocked = Cautioned(verdict)
    /\ "no usable contrast" \in h.lines =>
        \A e \in DOMAIN verdict : \A l \in verdict[e] : l[2] \notin {"lower", "none"}

LEMMA SavingIs ==
    ASSUME NEW data, NEW excluding, NEW w,
           NEW verdict, verdict = [e \in DOMAIN data |-> experiment_verdict(data[e], excluding[e])]
    PROVE  /\ w \in Saving(verdict) <=> w \in Tags(data, excluding, DOMAIN data, "lower")
           /\ w \in Cautioned(verdict) <=>
                \E e \in {e \in DOMAIN data : Bad(data[e])} : \E a \in Arms(data[e]) :
                    w = <<e, a>> /\ Line(data[e], excluding[e], a, "lower")
<1> DEFINE Is(e, a) == w = <<e, a>> /\ Line(data[e], excluding[e], a, "lower")
<1>1. DOMAIN verdict = DOMAIN data
  OBVIOUS
<1>2. \A e \in DOMAIN data : verdict[e] = experiment_verdict(data[e], excluding[e])
  OBVIOUS
<1>3. w \in Saving(verdict) <=>
        \E e \in DOMAIN data : \E l \in verdict[e] : l[2] = "lower" /\ w = <<e, l[1]>>
  <2> DEFINE ls(e) == {l \in verdict[e] : l[2] = "lower"}
  <2>1. w \in Saving(verdict) <=> \E e \in DOMAIN verdict : w \in {<<e, l[1]>> : l \in ls(e)}
    BY DEF Saving
  <2>2. ASSUME NEW e
        PROVE  w \in {<<e, l[1]>> : l \in ls(e)} <=>
                 \E l \in verdict[e] : l[2] = "lower" /\ w = <<e, l[1]>>
    OBVIOUS
  <2> HIDE DEF ls
  <2> QED BY <1>1, <2>1, <2>2
<1>4. ASSUME NEW e \in DOMAIN data
      PROVE  (\E l \in verdict[e] : l[2] = "lower" /\ w = <<e, l[1]>>)
               <=> \E a \in Arms(data[e]) : Is(e, a)
  <2>1. ASSUME NEW l \in verdict[e], l[2] = "lower", w = <<e, l[1]>>
        PROVE  \E a \in Arms(data[e]) : Is(e, a)
    <3>1. l[1] \in Arms(data[e]) /\ Line(data[e], excluding[e], l[1], "lower")
      BY <1>2, <2>1, VerdictLines
    <3> QED BY <2>1, <3>1
  <2>2. ASSUME NEW a \in Arms(data[e]), Is(e, a)
        PROVE  \E l \in verdict[e] : l[2] = "lower" /\ w = <<e, l[1]>>
    <3>1. <<a, "lower">> \in verdict[e]
      BY <1>2, <2>2, LinesOfVerdict
    <3>2. <<a, "lower">>[1] = a /\ <<a, "lower">>[2] = "lower"
      OBVIOUS
    <3> QED BY <2>2, <3>1, <3>2
  <2> QED BY <2>1, <2>2
<1>5. w \in Tags(data, excluding, DOMAIN data, "lower") <=>
        \E e \in DOMAIN data : \E a \in Arms(data[e]) : Is(e, a)
  BY TagsAre
<1>6. w \in Saving(verdict) <=> \E e \in DOMAIN data : \E a \in Arms(data[e]) : Is(e, a)
  <2> HIDE DEF Is
  <2> QED BY <1>3, <1>4
<1>7. ASSUME NEW e \in DOMAIN data, NEW a \in Arms(data[e]), Is(e, a)
      PROVE  w \in Cautioned(verdict) <=> Bad(data[e])
  <2>1. w \in Saving(verdict)
    BY <1>6, <1>7
  <2>2. w[1] = e /\ w[2] = a
    BY <1>7
  <2>3. w \in Cautioned(verdict) <=> <<a, "caution">> \in verdict[e]
    BY <2>1, <2>2 DEF Cautioned
  <2>4. Bad(data[e]) => <<a, "caution">> \in verdict[e]
    BY <1>2, <1>7, LinesOfVerdict
  <2>5. <<a, "caution">> \in verdict[e] => Bad(data[e])
    <3> DEFINE l == <<a, "caution">>
    <3>1. l[2] = "caution"
      OBVIOUS
    <3> HIDE DEF l
    <3>2. l \in verdict[e] => Bad(data[e])
      BY <1>2, <3>1, VerdictLines
    <3> QED BY <3>2 DEF l
  <2> QED BY <2>3, <2>4, <2>5
<1>8. w \in Cautioned(verdict) => w \in Saving(verdict)
  BY DEF Cautioned
<1> HIDE DEF Is
<1>9. w \in Cautioned(verdict) <=>
        \E e \in {e \in DOMAIN data : Bad(data[e])} : \E a \in Arms(data[e]) : Is(e, a)
  BY <1>6, <1>7, <1>8
<1>10. w \in Saving(verdict) <=> w \in Tags(data, excluding, DOMAIN data, "lower")
  BY <1>5, <1>6
<1> QED BY <1>9, <1>10 DEF Is

LEMMA JudgeAgrees ==
    ASSUME NEW data, NEW excluding
    PROVE  Agrees([e \in DOMAIN data |-> experiment_verdict(data[e], excluding[e])],
                  overall_headline(data, excluding))
<1> DEFINE verdict == [e \in DOMAIN data |-> experiment_verdict(data[e], excluding[e])]
           h == overall_headline(data, excluding)
           bad == {e \in DOMAIN data : Bad(data[e])}
           wins == Tags(data, excluding, DOMAIN data \ bad, "lower")
           blocked == Tags(data, excluding, bad, "lower")
           nulls == Tags(data, excluding, DOMAIN data, "none")
           lines == (IF wins # {} THEN {"saving found"} ELSE {})
                      \cup (IF blocked # {} THEN {"not admissible"} ELSE {})
                      \cup (IF nulls # {} /\ wins = {} THEN {"no saving"} ELSE {})
<1>0. verdict = [e \in DOMAIN data |-> experiment_verdict(data[e], excluding[e])]
  OBVIOUS
<1>1. /\ h.wins = wins /\ h.blocked = blocked
      /\ h.lines = IF lines = {} THEN {"no usable contrast"} ELSE lines
  BY DEF overall_headline, Bad
<1>2. ASSUME NEW w PROVE w \in blocked <=> w \in Cautioned(verdict)
  <2>1. w \in blocked <=> \E e \in bad : \E a \in Arms(data[e]) :
                             w = <<e, a>> /\ Line(data[e], excluding[e], a, "lower")
    BY TagsAre
  <2>2. w \in Cautioned(verdict) <=> \E e \in bad : \E a \in Arms(data[e]) :
                             w = <<e, a>> /\ Line(data[e], excluding[e], a, "lower")
    BY SavingIs
  <2> HIDE DEF verdict, blocked, bad
  <2> QED BY <2>1, <2>2
<1>3. ASSUME NEW w PROVE w \in wins <=> w \in Saving(verdict) /\ w \notin Cautioned(verdict)
  <2>1. w \in Saving(verdict) <=>
          \E e \in DOMAIN data : \E a \in Arms(data[e]) :
              w = <<e, a>> /\ Line(data[e], excluding[e], a, "lower")
    <3> HIDE DEF verdict
    <3>1. w \in Saving(verdict) <=> w \in Tags(data, excluding, DOMAIN data, "lower")
      BY <1>0, SavingIs
    <3> QED BY <3>1, TagsAre
  <2>2. w \in wins <=> \E e \in DOMAIN data \ bad : \E a \in Arms(data[e]) :
                          w = <<e, a>> /\ Line(data[e], excluding[e], a, "lower")
    BY TagsAre
  <2>3. w \in Cautioned(verdict) <=> \E e \in bad : \E a \in Arms(data[e]) :
                          w = <<e, a>> /\ Line(data[e], excluding[e], a, "lower")
    BY SavingIs
  <2>4. \A e, f, a, b : <<e, a>> = <<f, b>> => e = f
    OBVIOUS
  <2>5. bad \subseteq DOMAIN data
    OBVIOUS
  <2> HIDE DEF bad, wins, verdict
  <2> QED BY <2>1, <2>2, <2>3, <2>4, <2>5
<1>4. ASSUME "no usable contrast" \in h.lines,
             NEW e \in DOMAIN verdict, NEW l \in verdict[e], l[2] \in {"lower", "none"}
      PROVE  FALSE
  <2>1. lines = {}
    <3>1. "no usable contrast" \notin lines
      <4> HIDE DEF wins, blocked, nulls
      <4> QED OBVIOUS
    <3>2. h.lines = IF lines = {} THEN {"no usable contrast"} ELSE lines
      BY <1>1
    <3> HIDE DEF lines, h
    <3> QED BY <1>4, <3>1, <3>2
  <2>2. wins = {} /\ blocked = {} /\ nulls = {}
    <3> HIDE DEF wins, blocked, nulls
    <3> QED BY <2>1
  <2>3. /\ e \in DOMAIN data /\ l[1] \in Arms(data[e])
        /\ Line(data[e], excluding[e], l[1], l[2])
    BY <1>4, VerdictLines
  <2> DEFINE w == <<e, l[1]>>
  <2>4. CASE l[2] = "none"
    <3>1. w \in nulls
      BY <2>3, <2>4, TagsAre
    <3> QED BY <2>2, <3>1
  <2>5. CASE l[2] = "lower"
    <3>1. w \in Tags(data, excluding, DOMAIN data, "lower")
      BY <2>3, <2>5, TagsAre
    <3>2. w \in Saving(verdict)
      BY <3>1, SavingIs
    <3> HIDE DEF w, verdict, wins, blocked
    <3> QED BY <1>2, <1>3, <2>2, <3>2
  <2> QED BY <1>4, <2>4, <2>5
<1>5. h.wins = Saving(verdict) \ Cautioned(verdict) /\ h.blocked = Cautioned(verdict)
  <2> HIDE DEF verdict, wins, blocked, h
  <2>1. wins = Saving(verdict) \ Cautioned(verdict)
    BY <1>3
  <2>2. blocked = Cautioned(verdict)
    BY <1>2
  <2> QED BY <1>1, <2>1, <2>2
<1> HIDE DEF verdict, h
<1>6. Agrees(verdict, h)
  BY <1>4, <1>5 DEF Agrees
<1> QED BY <1>6 DEF verdict, h

(* analyze.py decides twice what is admissible, in the verdict of each     *)
(* experiment and in overall_headline(): in every report that it writes,   *)
(* whatever runs were interrupted, failed or written over, the wins are    *)
(* the savings without caution, the blocked savings those with it, and     *)
(* "no usable contrast" hides neither a saving nor a null result.          *)
THEOREM VerdictsAgree == Spec => []VerdictAgrees
<1> DEFINE V == md.kind = "generated" => Agrees(md.verdict, md.headline)
<1>1. VerdictAgrees <=> V
  BY DEF VerdictAgrees, Judged, Agrees, Saving, Cautioned
<1>2. Init => V
  <2>1. ASSUME md = Absent \/ md = Own PROVE md.kind # "generated"
    BY <2>1 DEF Absent, Own
  <2> QED BY <2>1, ScriptAssumption DEF Init
<1>3. V /\ [Next]_vars => V'
  <2> SUFFICES ASSUME V, [Next]_vars PROVE V'
    OBVIOUS
  <2>1. ASSUME UNCHANGED md PROVE V'
    BY <2>1
  <2>2. ASSUME Analyze PROVE V'
    <3> DEFINE data == csv'.rows
    <3>1. PICK report \in Judgements(data) : write_markdown(report)
      BY <2>2 DEF Analyze
    <3>2. PICK excluding : report = Judge(data, excluding)
      <4> HIDE DEF data
      <4> QED BY DEF Judgements
    <3> DEFINE verdict == [e \in DOMAIN data |-> experiment_verdict(data[e], excluding[e])]
               h == overall_headline(data, excluding)
    <3>3. Agrees(verdict, h)
      <4> HIDE DEF data
      <4> QED BY JudgeAgrees
    <3>4. report.verdict = verdict /\ report.headline = h
      BY <3>2 DEF Judge
    <3> HIDE DEF data, verdict, h
    <3>5. CASE UNCHANGED md
      BY <2>1, <3>5
    <3>6. CASE md' = report
      BY <3>3, <3>4, <3>6
    <3> QED BY <3>1, <3>5, <3>6 DEF write_markdown
  <2>3. CASE Next
    <3>1. Next => Analyze \/ UNCHANGED md
      BY DEF Next, CallWorkload, GenerateWorkload, KillWorkload, StartSession,
             MeasureUsual, MeasureUnusual, Measure, Interrupt
    <3> QED BY <2>1, <2>2, <2>3, <3>1
  <2>4. CASE UNCHANGED vars
    BY <2>1, <2>4 DEF vars
  <2> QED BY <2>3, <2>4
<1> QED BY <1>1, <1>2, <1>3, PTL DEF Spec

-----------------------------------------------------------------------------
(* The clocks: the operators behind the gate "split"                       *)

LEMMA QuotientAtLeast ==
    ASSUME NEW x \in Nat, NEW y \in Nat, y > 0, NEW k \in Nat, x >= k * y
    PROVE  x \div y \in Nat /\ x \div y >= k
<1> DEFINE q == x \div y
<1>1. q \in Nat /\ x < (q + 1) * y
  OBVIOUS
<1> HIDE DEF q
<1>2. SUFFICES ASSUME q < k PROVE FALSE
  BY <1>1 DEF q
<1>3. (q + 1) * y <= k * y
  BY <1>1, <1>2
<1> QED BY <1>1, <1>3

(* SumOver is a sum.                                                       *)
LEMMA SumOverIs ==
    ASSUME NEW D, IsFiniteSet(D), NEW bzy, \A c \in D : bzy[c] \in Nat
    PROVE  \E g : IsSum(g, D, [c \in D |-> bzy[c]]) /\ SumOver(bzy, D) = g[D]
<1> DEFINE fun == [c \in D |-> bzy[c]]
           Sums(h) == h = [s \in SUBSET D |->
                        IF s = {} THEN 0 ELSE bzy[Taken(s)] + h[s \ {Taken(s)}]]
           g == CHOOSE h : Sums(h)
<1>1. fun \in [D -> Nat]
  OBVIOUS
<1>2. ASSUME NEW h PROVE Sums(h) <=> IsSum(h, D, fun)
  <2> DEFINE a(s) == IF s = {} THEN 0 ELSE bzy[Taken(s)] + h[s \ {Taken(s)}]
             b(s) == IF s = {} THEN 0 ELSE fun[Taken(s)] + h[s \ {Taken(s)}]
  <2>1. ASSUME NEW s \in SUBSET D PROVE a(s) = b(s)
    <3>1. CASE s = {}
      BY <3>1
    <3>2. CASE s # {}
      <4>1. Taken(s) \in D
        BY <3>2, Taking
      <4> QED BY <4>1
    <3> QED BY <3>1, <3>2
  <2>2. [s \in SUBSET D |-> a(s)] = [s \in SUBSET D |-> b(s)]
    <3> HIDE DEF a, b
    <3> QED BY <2>1
  <2> QED BY <2>2 DEF IsSum
<1>3. \E h : Sums(h)
  <2>1. PICK h : IsSum(h, D, fun)
    <3> HIDE DEF fun
    <3> QED BY <1>1, SumExists
  <2> HIDE DEF Sums, fun
  <2> QED BY <1>2, <2>1
<1>4. Sums(g)
  <2> HIDE DEF Sums
  <2> QED BY <1>3
<1>5. SumOver(bzy, D) = g[D]
  BY DEF SumOver, MapThenSumSet, MapThenFoldSet, Taken
<1>6. IsSum(g, D, fun)
  <2> HIDE DEF Sums, fun, g
  <2> QED BY <1>2, <1>4
<1> QED BY <1>5, <1>6

(* Where no little CPU is slower than nine tenths of any big one, neither  *)
(* is the mean.                                                            *)
LEMMA RatioAtLeast ==
    ASSUME NEW bzy, NEW big, NEW little, NEW b, NEW l,
           b = Known(bzy, big), l = Known(bzy, little),
           IsFiniteSet(b), IsFiniteSet(l), l # {},
           \A c \in b \cup l : bzy[c] \in Nat,
           \E c \in b : bzy[c] > 0,
           \A c \in b, d \in l : 1000 * bzy[d] >= FREQ_RATIO_REAL * bzy[c]
    PROVE  Ratio(bzy, big, little) \in Nat /\ Ratio(bzy, big, little) >= FREQ_RATIO_REAL
<1> DEFINE B == Cardinality(b)
           L == Cardinality(l)
           sb == SumOver(bzy, b)
           sl == SumOver(bzy, l)
           clocks == {bzy[d] : d \in l}
<1>1. PICK m \in clocks : \A n \in clocks : m <= n
  <2>1. clocks \in SUBSET Nat /\ clocks # {}
    OBVIOUS
  <2> HIDE DEF clocks
  <2> QED BY <2>1, NatLeast
<1>2. PICK e \in l : bzy[e] = m
  OBVIOUS
<1>3. m \in Nat /\ \A d \in l : m <= bzy[d]
  BY <1>1, <1>2
<1> DEFINE hi == (1000 * m) \div 900
<1>4. hi \in Nat /\ 900 * hi <= 1000 * m /\ \A c \in b : bzy[c] <= hi
  <2>1. hi \in Nat /\ 900 * hi <= 1000 * m /\ 1000 * m < 900 * (hi + 1)
    BY <1>3
  <2>2. ASSUME NEW c \in b PROVE bzy[c] <= hi
    <3>1. bzy[c] \in Nat /\ 1000 * m >= 900 * bzy[c]
      BY <1>2 DEF FREQ_RATIO_REAL
    <3> HIDE DEF hi
    <3> QED BY <1>3, <2>1, <3>1
  <2> QED BY <2>1, <2>2
<1>5. L \in Nat /\ sl \in Nat /\ m * L <= sl
  <2> DEFINE fun == [c \in l |-> bzy[c]]
  <2>1. fun \in [l -> Nat] /\ \A i \in l : m <= fun[i]
    BY <1>3
  <2>2. PICK g : IsSum(g, l, fun) /\ sl = g[l]
    BY SumOverIs
  <2> HIDE DEF fun, sl
  <2> QED BY <1>3, <2>1, <2>2, SumBounds
<1>6. B \in Nat /\ sb \in Nat /\ sb <= hi * B
  <2> DEFINE fun == [c \in b |-> bzy[c]]
  <2>1. fun \in [b -> Nat] /\ \A i \in b : fun[i] <= hi
    BY <1>4
  <2>2. PICK g : IsSum(g, b, fun) /\ sb = g[b]
    BY SumOverIs
  <2> HIDE DEF fun, sb, hi
  <2> QED BY <1>4, <2>1, <2>2, SumBounds
<1>7. L > 0 /\ b # {} /\ B > 0
  BY <1>5, <1>6, FS_EmptySet
<1>8. sb > 0
  <2> DEFINE fun == [c \in b |-> bzy[c]]
  <2>1. fun \in [b -> Nat]
    OBVIOUS
  <2>2. PICK g : IsSum(g, b, fun) /\ sb = g[b]
    BY SumOverIs
  <2>3. PICK c \in b : fun[c] > 0
    OBVIOUS
  <2> HIDE DEF fun, sb
  <2> QED BY <2>1, <2>2, <2>3, SumPositive
<1> HIDE DEF B, L, sb, sl, hi
<1>9. 900 * (sb * L) <= 1000 * sl * B
  <2>1. 900 * (sb * L) <= 900 * (hi * B * L)
    BY <1>4, <1>5, <1>6
  <2>2. 900 * (hi * B * L) <= 1000 * (m * B * L)
    <3>1. B * L \in Nat /\ hi * B * L = hi * (B * L) /\ m * B * L = m * (B * L)
      BY <1>3, <1>4, <1>5, <1>6
    <3>2. (900 * hi) * (B * L) <= (1000 * m) * (B * L)
      BY <1>3, <1>4, <3>1
    <3> QED BY <1>3, <1>4, <3>1, <3>2
  <2>3. 1000 * (m * B * L) <= 1000 * sl * B
    <3>1. (m * L) * B <= sl * B
      BY <1>3, <1>5, <1>6
    <3> QED BY <1>3, <1>5, <1>6, <3>1
  <2>4. /\ 900 * (sb * L) \in Nat /\ 900 * (hi * B * L) \in Nat
        /\ 1000 * (m * B * L) \in Nat /\ 1000 * sl * B \in Nat
    BY <1>3, <1>4, <1>5, <1>6
  <2> QED BY <2>1, <2>2, <2>3, <2>4
<1>10. Ratio(bzy, big, little) = (1000 * sl * B) \div (sb * L)
  BY <1>7, <1>8 DEF Ratio, B, L, sb, sl
<1>11. sb * L \in Nat /\ sb * L > 0 /\ 1000 * sl * B \in Nat
  BY <1>5, <1>6, <1>7, <1>8
<1> QED BY <1>9, <1>10, <1>11, QuotientAtLeast DEF FREQ_RATIO_REAL

LEMMA TotalAtLeast ==
    ASSUME NEW n \in Nat, NEW xs \in [1 .. n -> Nat], NEW lo \in Nat, \A i \in 1 .. n : lo <= xs[i]
    PROVE  Total(xs) \in Nat /\ lo * n <= Total(xs)
<1> DEFINE D == 1 .. n
           g == CHOOSE h : IsSum(h, D, xs)
<1>1. IsFiniteSet(D) /\ Cardinality(D) = n
  BY FS_Interval
<1>2. \E h : IsSum(h, D, xs)
  BY <1>1, SumExists
<1>3. IsSum(g, D, xs)
  BY <1>2
<1>4. Total(xs) = g[D]
  BY DEF Total, FoldSeq, FoldFunction, FoldFunctionOnSet, MapThenFoldSet, Taken, IsSum
<1>5. xs \in [D -> Nat] /\ \A i \in D : lo <= xs[i]
  OBVIOUS
<1> HIDE DEF D, g
<1> QED BY <1>1, <1>3, <1>4, <1>5, SumBounds

LEMMA MeanAtLeast ==
    ASSUME NEW n \in Nat, n > 0, NEW xs, xs \in [1 .. n -> Nat], NEW lo \in Nat,
           \A i \in 1 .. n : lo <= xs[i]
    PROVE  clean(xs) # <<>> /\ mean(clean(xs))[1] >= lo * mean(clean(xs))[2]
<1> DEFINE kept == Sorted({i \in DOMAIN xs : xs[i] # Missing})
           ys == [k \in DOMAIN kept |-> xs[kept[k]]]
<1>1. {i \in DOMAIN xs : xs[i] # Missing} = 1 .. n
  BY MissingAssumption
<1>2. kept \in [1 .. n -> 1 .. n]
  <2>1. IsFiniteSet(1 .. n) /\ Cardinality(1 .. n) = n /\ 1 .. n \in SUBSET Int
    BY FS_Interval
  <2> QED BY <1>1, <2>1, SortedIs
<1> HIDE DEF kept
<1>3. ys \in [1 .. n -> Nat] /\ \A i \in 1 .. n : lo <= ys[i]
  BY <1>2
<1>4. clean(xs) = ys
  BY DEF clean, kept
<1> HIDE DEF ys
<1>5. Len(ys) = n /\ ys # <<>>
  <2>1. ys \in Seq(Nat) /\ Len(ys) = n
    BY <1>3
  <2> QED BY <2>1
<1>6. Total(ys) \in Nat /\ lo * n <= Total(ys)
  BY <1>3, TotalAtLeast
<1>7. mean(ys)[1] = Total(ys) /\ mean(ys)[2] = n
  BY <1>5 DEF mean
<1>8. lo * n \in Nat
  OBVIOUS
<1> QED BY <1>4, <1>5, <1>6, <1>7, <1>8

(* The rows, or the records, of an arm, and their repetitions.             *)
OfArm(rs, a) == {r \in rs : r.arm = a}
Reps(rs) == {r.rep : r \in rs}

(* The runs of an arm, one for each repetition.                            *)
LEMMA OfIs ==
    ASSUME NEW rows, NEW a, IsFiniteSet(OfArm(rows, a)),
           \A r \in OfArm(rows, a) : r.rep \in Int
    PROVE  LET n == Cardinality(Reps(OfArm(rows, a))) IN
           /\ n \in Nat /\ DOMAIN Of(rows, a) = 1 .. n /\ Len(Of(rows, a)) = n
           /\ \A i \in 1 .. n : Of(rows, a)[i] \in OfArm(rows, a)
<1> DEFINE own == {r \in rows : r.arm = a}
           reps == {r.rep : r \in own}
           n == Cardinality(reps)
           f == [r \in own |-> r.rep]
           s == Sorted(reps)
           one(i) == CHOOSE r \in own : r.rep = s[i]
<1>0. own = OfArm(rows, a) /\ reps = Reps(OfArm(rows, a)) /\ \A r \in own : r.rep \in Int
  BY DEF OfArm, Reps
<1>1. IsFiniteSet(reps)
  <2>1. f = [r \in own |-> f[r]] /\ DOMAIN f = own /\ reps = {f[r] : r \in own}
    OBVIOUS
  <2>2. IsFiniteSet(own)
    BY <1>0
  <2> HIDE DEF f, reps, own
  <2> QED BY ONLY <2>1, <2>2, ImageIs
<1>2. reps \in SUBSET Int
  BY <1>0
<1>3. n \in Nat /\ s \in [1 .. n -> reps]
  BY <1>1, <1>2, SortedIs
<1>4. Of(rows, a) = [i \in DOMAIN s |-> one(i)]
  BY DEF Of
<1> HIDE DEF n, s
<1>5. \A i \in 1 .. n : one(i) \in own
  <2> TAKE i \in 1 .. n
  <2>1. s[i] \in reps
    BY <1>3
  <2>2. \E r \in own : r.rep = s[i]
    BY <2>1
  <2> QED BY <2>2
<1> HIDE DEF one
<1>6. DOMAIN Of(rows, a) = 1 .. n /\ \A i \in 1 .. n : Of(rows, a)[i] \in own
  BY <1>3, <1>4, <1>5
<1>7. Len(Of(rows, a)) = n
  BY <1>3, <1>6
<1> HIDE DEF own, reps
<1> QED BY <1>0, <1>3, <1>6, <1>7 DEF n

LEMMA RowIs ==
    ASSUME NEW r
    PROVE  LET row == flatten_run(r)
               d == split_domains(arr(r.energy.epp))
           IN  /\ row.arm = r.arm /\ row.rep = r.rep /\ row.ok = r.ok /\ row.on_ac = r.on_ac
               /\ row.pkg_c_max = r.energy.pkg_c_max
               /\ row.partitioned = d.partitioned
               /\ row.ratio = Ratio(arr(r.energy.bzy), d.big, d.little)
  BY DEF flatten_run

(* A run whose clocks did not follow its EPPs shows it in its row.         *)
LEMMA OneClockRow ==
    ASSUME NEW r, DOMAIN r.energy.epp = DOMAIN r.energy.bzy, OneClock(r)
    PROVE  LET row == flatten_run(r)
           IN  row.partitioned = TRUE /\ row.ratio \in Nat /\ row.ratio >= FREQ_RATIO_REAL
<1> DEFINE epp == r.energy.epp
           bzy == r.energy.bzy
           known == {c \in Cpu \cap DOMAIN epp : epp[c] # Missing /\ bzy[c] # Missing}
           big == {c \in known : epp[c] < EPP_BIG_MAX}
           little == {c \in known : epp[c] >= EPP_BIG_MAX}
           e == arr(epp)
           z == arr(bzy)
           with == {c \in Cpu : e[c] # Missing}
           vals == {e[c] : c \in with}
           d == split_domains(e)
<1>1. /\ \A c \in known : epp[c] \in Nat /\ bzy[c] \in Nat
      /\ little # {} /\ \E c \in big : bzy[c] > 0
      /\ \A c \in big, f \in little : 1000 * bzy[f] >= FREQ_RATIO_REAL * bzy[c]
  BY DEF OneClock
<1>2. /\ \A c \in Cpu : e[c] = IF c \in DOMAIN epp THEN epp[c] ELSE Missing
      /\ \A c \in Cpu : z[c] = IF c \in DOMAIN epp THEN bzy[c] ELSE Missing
  BY DEF arr
<1>3. IsFiniteSet(Cpu)
  BY CpusAssumption, FS_Interval DEF Cpu
<1>4. known = {c \in Cpu : e[c] # Missing /\ z[c] # Missing}
  <2> HIDE DEF e, z, epp, bzy
  <2> QED BY <1>2
<1>5. \A c \in known : e[c] = epp[c] /\ z[c] = bzy[c]
  <2> HIDE DEF e, z, epp, bzy
  <2> QED BY <1>2
<1> HIDE DEF e, z, epp, bzy
<1>6. IsFiniteSet(with) /\ IsFiniteSet(vals)
  <2> DEFINE f == [c \in with |-> e[c]]
  <2>1. IsFiniteSet(with)
    BY <1>3, FS_Subset
  <2>2. f = [c \in with |-> f[c]] /\ DOMAIN f = with /\ vals = {f[c] : c \in with}
    OBVIOUS
  <2> HIDE DEF f, with, vals
  <2> QED BY <2>1, <2>2, ImageIs
<1>7. Cardinality(vals) > 1
  <2>1. PICK c \in big : TRUE
    BY <1>1
  <2>2. PICK f \in little : TRUE
    BY <1>1
  <2>3. e[c] # e[f] /\ e[c] \in vals /\ e[f] \in vals
    <3>1. c \in known /\ f \in known /\ epp[c] \in Nat /\ epp[f] \in Nat
      BY <1>1, <2>1, <2>2
    <3>2. epp[c] < 128 /\ epp[f] >= 128
      BY DEF EPP_BIG_MAX
    <3>3. e[c] = epp[c] /\ e[f] = epp[f] /\ c \in with /\ f \in with
      BY <1>4, <1>5, <3>1
    <3> QED BY <3>1, <3>2, <3>3
  <2> HIDE DEF vals
  <2>4. Cardinality({e[c], e[f]}) = 2
    BY ONLY <2>3, TwoCount
  <2>5. {e[c], e[f]} \in SUBSET vals
    BY <2>3
  <2> QED BY <1>6, <2>4, <2>5, FS_Subset, FS_CardinalityType
<1>8. /\ d.partitioned = TRUE
      /\ d.big = {c \in with : e[c] < EPP_BIG_MAX}
      /\ d.little = {c \in with : e[c] >= EPP_BIG_MAX}
  <2>1. with # {}
    <3>1. PICK c \in big : TRUE
      BY <1>1
    <3> QED BY <1>4, <3>1
  <2>2. (Cardinality(vals) > 1) = TRUE
    BY <1>7
  <2> QED BY <2>1, <2>2 DEF split_domains
<1>9. Known(z, d.big) = big /\ Known(z, d.little) = little
  <2>1. \A c : c \in big <=> c \in with /\ e[c] < EPP_BIG_MAX /\ z[c] # Missing
    BY <1>4, <1>5
  <2>2. \A c : c \in little <=> c \in with /\ e[c] >= EPP_BIG_MAX /\ z[c] # Missing
    BY <1>4, <1>5
  <2> HIDE DEF big, little, with, d
  <2> QED BY <1>8, <2>1, <2>2 DEF Known
<1>10. IsFiniteSet(big) /\ IsFiniteSet(little)
  <2>1. big \in SUBSET Cpu /\ little \in SUBSET Cpu
    OBVIOUS
  <2> HIDE DEF big, little
  <2> QED BY <1>3, <2>1, FS_Subset
<1>11. /\ \A c \in big \cup little : z[c] \in Nat
       /\ \E c \in big : z[c] > 0
       /\ \A c \in big, f \in little : 1000 * z[f] >= FREQ_RATIO_REAL * z[c]
  <2>1. big \subseteq known /\ little \subseteq known
    OBVIOUS
  <2> HIDE DEF big, little, known
  <2> QED BY <1>1, <1>5, <2>1
<1> HIDE DEF big, little, known, d
<1>12. Ratio(z, d.big, d.little) \in Nat /\ Ratio(z, d.big, d.little) >= FREQ_RATIO_REAL
  BY <1>1, <1>9, <1>10, <1>11, RatioAtLeast
<1>13. /\ flatten_run(r).partitioned = d.partitioned
       /\ flatten_run(r).ratio = Ratio(z, d.big, d.little)
  BY RowIs DEF d, e, z, epp, bzy
<1> QED BY <1>8, <1>12, <1>13

-----------------------------------------------------------------------------
(* The gates                                                               *)

(* An experiment without failing gates.                                    *)
LEMMA GatesPassed ==
    ASSUME NEW rows, ~Bad(rows)
    PROVE  /\ ~Incomplete(rows) /\ ~MixedPower(rows) /\ ~Throttled(rows) /\ ~Unbalanced(rows)
           /\ \A a \in Arms(rows) : ~(Split(rows, a) /\ Unreal(rows, a))
<1>1. quality_gates(rows) = {} /\ frequency_divergence(rows) = {}
  BY DEF Bad, gates
<1>2. ~Incomplete(rows) /\ ~MixedPower(rows) /\ ~Throttled(rows) /\ ~Unbalanced(rows)
  <2> DEFINE fails == [completion |-> Incomplete(rows), temperature |-> TempSpread(rows),
                       on_ac |-> MixedPower(rows), thermal |-> Throttled(rows),
                       balanced |-> Unbalanced(rows), drift |-> Drift(rows)]
  <2>1. {<<g, AllArms>> : g \in {g \in DOMAIN fails : fails[g]}} = {}
    BY <1>1 DEF quality_gates
  <2>2. /\ {"completion", "on_ac", "thermal", "balanced"} \subseteq DOMAIN fails
        /\ fails["completion"] = Incomplete(rows) /\ fails["on_ac"] = MixedPower(rows)
        /\ fails["thermal"] = Throttled(rows) /\ fails["balanced"] = Unbalanced(rows)
    OBVIOUS
  <2> HIDE DEF fails
  <2>3. \A g \in DOMAIN fails : ~fails[g]
    BY <2>1
  <2> QED BY <2>2, <2>3
<1>3. ASSUME NEW a \in Arms(rows), Split(rows, a), Unreal(rows, a) PROVE FALSE
  <2>1. <<"split", a>> \in frequency_divergence(rows)
    BY <1>3 DEF frequency_divergence
  <2> QED BY <1>1, <2>1
<1> QED BY <1>2, <1>3

RowsFrom(rs) == {flatten_run(r) : r \in rs}

(* The records rs of an experiment: one for each arm and repetition.       *)
RecordsOK(rs) ==
    /\ IsFiniteSet(rs)
    /\ \A r \in rs : r.rep \in Nat /\ DOMAIN r.energy.epp = DOMAIN r.energy.bzy
    /\ \A r, s \in rs : r.arm = s.arm /\ r.rep = s.rep => r = s

LEMMA OfArmIs ==
    ASSUME NEW rs, RecordsOK(rs), NEW a
    PROVE  LET own == OfArm(RowsFrom(rs), a)
               runs == OfArm(rs, a)
           IN  /\ IsFiniteSet(own) /\ own = RowsFrom(runs)
               /\ \A x \in own : x.rep \in Int
               /\ IsFiniteSet(runs) /\ Cardinality(runs) \in Nat
               /\ Cardinality(Reps(own)) = Cardinality(runs)
<1> DEFINE own == OfArm(RowsFrom(rs), a)
           runs == OfArm(rs, a)
<1>1. IsFiniteSet(runs) /\ Cardinality(runs) \in Nat
  <2>1. runs \in SUBSET rs
    BY DEF OfArm
  <2> HIDE DEF runs
  <2> QED BY <2>1, FS_Subset, FS_CardinalityType DEF RecordsOK
<1>2. \A r : flatten_run(r).arm = r.arm /\ flatten_run(r).rep = r.rep
  BY RowIs
<1>3. own = RowsFrom(runs)
  BY <1>2 DEF OfArm, RowsFrom
<1>4. /\ \A r, s \in runs : r.rep = s.rep => r = s
      /\ \A r \in runs : r.rep \in Nat
  BY DEF RecordsOK, OfArm
<1> HIDE DEF own, runs
<1>5. IsFiniteSet(own)
  <2> DEFINE f == [r \in runs |-> flatten_run(r)]
  <2>1. f = [r \in runs |-> f[r]] /\ DOMAIN f = runs /\ own = {f[r] : r \in runs}
    BY <1>3 DEF RowsFrom
  <2> HIDE DEF f
  <2> QED BY ONLY <1>1, <2>1, ImageIs
<1>6. Cardinality(Reps(own)) = Cardinality(runs)
  <2> DEFINE f == [r \in runs |-> r.rep]
  <2>1. f = [r \in runs |-> f[r]] /\ DOMAIN f = runs
    OBVIOUS
  <2>2. Reps(own) = {f[r] : r \in runs}
    <3>1. Reps(own) = {r.rep : r \in runs}
      BY ONLY <1>2, <1>3 DEF Reps, RowsFrom
    <3> QED BY ONLY <3>1
  <2>3. \A r, s \in runs : f[r] = f[s] => r = s
    BY <1>4
  <2> HIDE DEF f
  <2> QED BY ONLY <1>1, <2>1, <2>2, <2>3, ImageIs
<1>7. \A x \in own : x.rep \in Int
  BY <1>2, <1>3, <1>4 DEF RowsFrom
<1> QED BY <1>1, <1>3, <1>5, <1>6, <1>7 DEF own, runs

(* As many rows of an arm as it has records.                               *)
LEMMA OfCounts ==
    ASSUME NEW rs, RecordsOK(rs), NEW a
    PROVE  LET of == Of(RowsFrom(rs), a)
               n == Cardinality(OfArm(rs, a))
           IN  /\ n \in Nat /\ DOMAIN of = 1 .. n /\ Len(of) = n
               /\ \A i \in 1 .. n : of[i] \in OfArm(RowsFrom(rs), a)
  BY OfArmIs, OfIs

(* An arm that asked for two clocks and had one in all its runs fails.     *)
LEMMA OneClockFails ==
    ASSUME NEW rs, RecordsOK(rs),
           NEW a, a \in {r.arm : r \in rs}, \A r \in OfArm(rs, a) : OneClock(r)
    PROVE  LET rows == RowsFrom(rs) IN a \in Arms(rows) /\ Split(rows, a) /\ Unreal(rows, a)
<1> DEFINE rows == RowsFrom(rs)
           own == OfArm(rows, a)
           runs == OfArm(rs, a)
           n == Cardinality(runs)
           of == Of(rows, a)
           xs == [i \in DOMAIN of |-> of[i]["ratio"]]
<1>1. own = RowsFrom(runs) /\ IsFiniteSet(runs)
  BY OfArmIs
<1>2. n \in Nat /\ DOMAIN of = 1 .. n /\ \A i \in 1 .. n : of[i] \in own
  BY OfCounts
<1>3. \A r \in runs : DOMAIN r.energy.epp = DOMAIN r.energy.bzy /\ OneClock(r)
  BY DEF RecordsOK, OfArm
<1>4. runs # {}
  BY DEF OfArm
<1>5. \A x \in own : x \in rows /\ x.arm = a
  BY DEF OfArm
<1> HIDE DEF own, runs, of, rows
<1>6. \A x \in own : x.partitioned = TRUE /\ x.ratio \in Nat /\ x.ratio >= FREQ_RATIO_REAL
  <2> TAKE x \in own
  <2>1. PICK r \in runs : x = flatten_run(r)
    BY <1>1 DEF RowsFrom
  <2> QED BY <1>3, <2>1, OneClockRow
<1>7. n > 0
  BY <1>1, <1>2, <1>4, FS_EmptySet
<1>8. PICK x \in own : TRUE
  BY <1>1, <1>4 DEF RowsFrom
<1>9. a \in Arms(rows) /\ \E r \in rows : r.arm = a /\ r.partitioned
  BY <1>5, <1>6, <1>8 DEF Arms
<1> HIDE DEF n
<1>10. xs \in [1 .. n -> Nat] /\ \A i \in 1 .. n : FREQ_RATIO_REAL <= xs[i]
  <2>1. ASSUME NEW i \in 1 .. n
        PROVE  of[i]["ratio"] \in Nat /\ FREQ_RATIO_REAL <= of[i]["ratio"]
    BY <1>2, <1>6 DEF FREQ_RATIO_REAL
  <2> QED BY <1>2, <2>1
<1>11. Ratios(rows, a) = clean(xs)
  BY DEF Ratios, values, of
<1> HIDE DEF xs
<1>12. clean(xs) # <<>> /\ mean(clean(xs))[1] >= FREQ_RATIO_REAL * mean(clean(xs))[2]
  BY <1>2, <1>7, <1>10, MeanAtLeast DEF FREQ_RATIO_REAL
<1>13. Split(rows, a) /\ Unreal(rows, a)
  BY <1>9, <1>11, <1>12 DEF Split, Unreal
<1> QED BY <1>9, <1>13 DEF rows

(* WinIsAdmissible, said of the records rs of an experiment.               *)
Sound(rs) ==
    /\ \A r \in rs : /\ r.ok = TRUE
                     /\ ~(r.energy.pkg_c_max # Missing /\ r.energy.pkg_c_max >= THROTTLE_LIMIT_C)
    /\ \A r, s \in rs :
        /\ r.on_ac = s.on_ac
        /\ Cardinality(OfArm(rs, r.arm)) = Cardinality(OfArm(rs, s.arm))
    /\ \A a \in {r.arm : r \in rs} : \E r \in OfArm(rs, a) : ~OneClock(r)

(* A finite set with not more than one element.                            *)
LEMMA AtMostOne ==
    ASSUME NEW Q, IsFiniteSet(Q), ~(Cardinality(Q) > 1), NEW x \in Q, NEW y \in Q
    PROVE  x = y
<1>1. Cardinality(Q) \in Nat /\ Cardinality(Q) # 0
  BY FS_CardinalityType, FS_EmptySet
<1>2. Cardinality(Q) = 1
  BY <1>1
<1>3. PICK z : Q = {z}
  BY <1>2, FS_Singleton
<1> QED BY <1>3

LEMMA PassedIsSound ==
    ASSUME NEW rs, RecordsOK(rs), ~Bad(RowsFrom(rs))
    PROVE  Sound(rs)
<1> DEFINE rows == RowsFrom(rs)
<1>1. /\ ~Incomplete(rows) /\ ~MixedPower(rows) /\ ~Throttled(rows) /\ ~Unbalanced(rows)
      /\ \A a \in Arms(rows) : ~(Split(rows, a) /\ Unreal(rows, a))
  BY GatesPassed
<1>2. ASSUME NEW r \in rs
      PROVE  LET x == flatten_run(r) IN
             /\ x \in rows /\ x.arm = r.arm /\ x.ok = r.ok /\ x.on_ac = r.on_ac
             /\ x.pkg_c_max = r.energy.pkg_c_max
  BY RowIs DEF RowsFrom
<1>3. IsFiniteSet(rs)
  BY DEF RecordsOK
<1> HIDE DEF rows
<1>4. ASSUME NEW r \in rs
      PROVE  /\ r.ok = TRUE
             /\ ~(r.energy.pkg_c_max # Missing /\ r.energy.pkg_c_max >= THROTTLE_LIMIT_C)
  BY <1>1, <1>2 DEF Incomplete, Throttled
<1>5. ASSUME NEW r \in rs, NEW s \in rs PROVE r.on_ac = s.on_ac
  <2> DEFINE Q == {x.on_ac : x \in rows}
             f == [t \in rs |-> t.on_ac]
  <2>1. Q = {f[t] : t \in rs}
    <3>1. Q = {t.on_ac : t \in rs}
      BY <1>2 DEF rows, RowsFrom
    <3> QED BY <3>1
  <2>2. IsFiniteSet(Q)
    <3>1. f = [t \in rs |-> f[t]] /\ DOMAIN f = rs
      OBVIOUS
    <3> HIDE DEF f, Q
    <3> QED BY ONLY <1>3, <2>1, <3>1, ImageIs
  <2>3. ~(Cardinality(Q) > 1)
    <3>1. Cardinality(Q) = 1
      BY <1>1 DEF MixedPower
    <3> QED BY <3>1
  <2>4. r.on_ac \in Q /\ s.on_ac \in Q
    BY <1>2
  <2> HIDE DEF Q
  <2> QED BY <2>2, <2>3, <2>4, AtMostOne
<1>6. ASSUME NEW r \in rs, NEW s \in rs
      PROVE  Cardinality(OfArm(rs, r.arm)) = Cardinality(OfArm(rs, s.arm))
  <2> DEFINE Q == {Len(Of(rows, a)) : a \in Arms(rows)}
             f == [t \in rs |-> Len(Of(rows, t.arm))]
  <2>1. Q = {f[t] : t \in rs}
    <3>1. Arms(rows) = {t.arm : t \in rs}
      BY <1>2 DEF rows, RowsFrom, Arms
    <3>2. Q = {Len(Of(rows, t.arm)) : t \in rs}
      BY <3>1
    <3> QED BY <3>2
  <2>2. IsFiniteSet(Q)
    <3>1. f = [t \in rs |-> f[t]] /\ DOMAIN f = rs
      OBVIOUS
    <3> HIDE DEF f, Q
    <3> QED BY ONLY <1>3, <2>1, <3>1, ImageIs
  <2>3. ~(Cardinality(Q) > 1)
    BY <1>1 DEF Unbalanced
  <2>4. f[r] \in Q /\ f[s] \in Q
    <3> HIDE DEF f, Q
    <3> QED BY <2>1
  <2>5. f[r] = f[s]
    <3> HIDE DEF f, Q
    <3> QED BY <2>2, <2>3, <2>4, AtMostOne
  <2>6. /\ f[r] = Len(Of(rows, r.arm)) /\ f[s] = Len(Of(rows, s.arm))
    OBVIOUS
  <2>7. /\ Len(Of(rows, r.arm)) = Cardinality(OfArm(rs, r.arm))
        /\ Len(Of(rows, s.arm)) = Cardinality(OfArm(rs, s.arm))
    BY OfCounts DEF rows
  <2> QED BY <2>5, <2>6, <2>7
<1>7. ASSUME NEW a \in {r.arm : r \in rs}, \A r \in OfArm(rs, a) : OneClock(r)
      PROVE  FALSE
  <2>1. a \in Arms(rows) /\ Split(rows, a) /\ Unreal(rows, a)
    BY <1>7, OneClockFails DEF rows
  <2> QED BY <1>1, <2>1
<1> QED BY <1>4, <1>5, <1>6, <1>7 DEF Sound

-----------------------------------------------------------------------------
(* The runs of a session                                                   *)

(* Sets of runs that have a repetition.                                    *)
Numbered(T) == \A group \in T : \A run \in group : run.rep \in Nat

LEMMA RepeatedIs ==
    ASSUME NEW arm, NEW r
    PROVE  Repeated(arm, r).rep = r
  BY DEF Repeated

(* The groups of InOrder and of Shuffled.                                  *)
Groups(A) == SUBSET {Repeated(a, r) : a \in A, r \in Nat}

LEMMA GroupsNumbered ==
    ASSUME NEW A
    PROVE  Numbered(Groups(A))
  BY RepeatedIs DEF Numbered, Groups

LEMMA InOrderIs ==
    ASSUME NEW A, NEW arms \in Seq(A), arms # <<>>, NEW reps \in Nat \ {0}
    PROVE  InOrder(arms, reps) \in Seq(Groups(A)) /\ InOrder(arms, reps) # <<>>
<1> DEFINE round(r) == [i \in DOMAIN arms |-> {Repeated(arms[i], r - 1)}]
           seqs == [r \in 1 .. reps |-> round(r)]
<1>1. ASSUME NEW r \in 1 .. reps PROVE round(r) \in Seq(Groups(A)) /\ round(r) # <<>>
  <2>1. ASSUME NEW i \in DOMAIN arms PROVE {Repeated(arms[i], r - 1)} \in Groups(A)
    <3>1. arms[i] \in A /\ r - 1 \in Nat
      OBVIOUS
    <3> QED BY <3>1 DEF Groups
  <2>2. DOMAIN arms = 1 .. Len(arms) /\ Len(arms) \in Nat /\ Len(arms) # 0
    OBVIOUS
  <2>3. DOMAIN round(r) = 1 .. Len(arms) /\ \A i \in DOMAIN arms : round(r)[i] \in Groups(A)
    BY <2>1, <2>2
  <2>4. round(r) \in [1 .. Len(arms) -> Groups(A)]
    BY <2>1, <2>2
  <2> HIDE DEF round
  <2>5. round(r) \in Seq(Groups(A)) /\ Len(round(r)) = Len(arms)
    BY <2>2, <2>4
  <2> QED BY <2>2, <2>5
<1> HIDE DEF round
<1>2. seqs \in Seq(Seq(Groups(A))) /\ Len(seqs) = reps /\ seqs[1] = round(1)
  <2>1. seqs \in [1 .. reps -> Seq(Groups(A))] /\ reps \in Nat
    BY <1>1
  <2> QED BY <2>1
<1>3. seqs[1] # <<>> /\ Len(seqs) # 0
  BY <1>1, <1>2
<1>4. InOrder(arms, reps) = FlattenSeq(seqs)
  BY DEF InOrder, round
<1> HIDE DEF seqs
<1> QED BY <1>2, <1>3, <1>4, FlattenIs

LEMMA ShuffledIs ==
    ASSUME NEW A, NEW arms \in Seq(A), NEW reps \in Nat \ {0}
    PROVE  Shuffled(arms, reps) \in Seq(Groups(A)) /\ Shuffled(arms, reps) # <<>>
<1> DEFINE group(r) == {Repeated(arms[i], r - 1) : i \in DOMAIN arms}
<1>1. ASSUME NEW r \in 1 .. reps PROVE group(r) \in Groups(A)
  <2>1. r - 1 \in Nat /\ \A i \in DOMAIN arms : arms[i] \in A
    OBVIOUS
  <2> QED BY <2>1 DEF Groups
<1>2. Shuffled(arms, reps) = [r \in 1 .. reps |-> group(r)]
  BY DEF Shuffled
<1> HIDE DEF group
<1>3. Shuffled(arms, reps) \in [1 .. reps -> Groups(A)] /\ reps \in Nat
  BY <1>1, <1>2
<1>4. Shuffled(arms, reps) \in Seq(Groups(A)) /\ Len(Shuffled(arms, reps)) = reps
  BY <1>3
<1> QED BY <1>4

LEMMA FunctionIsSeq ==
    ASSUME NEW A, NEW n \in Nat, NEW f \in [1 .. n -> A]
    PROVE  f \in Seq(A) /\ Len(f) = n
  OBVIOUS

LEMMA FourArms ==
    ASSUME NEW a, NEW b, NEW c, NEW d
    PROVE  <<a, b, c, d>> \in Seq({a, b, c, d}) /\ <<a, b, c, d>> # <<>>
  OBVIOUS

LEMMA E1Arms ==
    ASSUME NEW topo, NEW p
    PROVE  \E A : e1_arms(topo, p) \in Seq(A) /\ e1_arms(topo, p) # <<>>
<1>1. PICK a, b, c, d : e1_arms(topo, p) = <<a, b, c, d>>
  BY DEF e1_arms
<1>2. e1_arms(topo, p) \in Seq({a, b, c, d}) /\ e1_arms(topo, p) # <<>>
  BY ONLY <1>1, FourArms
<1> QED BY <1>2

LEMMA E1bArms ==
    ASSUME NEW topo, NEW p
    PROVE  \E A : e1b_arms(topo, p) \in Seq(A) /\ e1b_arms(topo, p) # <<>>
<1>1. PICK a, b, c, d : e1b_arms(topo, p) = <<a, b, c, d>>
  BY DEF e1b_arms
<1>2. e1b_arms(topo, p) \in Seq({a, b, c, d}) /\ e1b_arms(topo, p) # <<>>
  BY ONLY <1>1, FourArms
<1> QED BY <1>2

LEMMA Conditions ==
    ASSUME NEW p
    PROVE  \E C : e2_conditions(p) \in Seq(C) /\ e2_conditions(p) # <<>>
<1> DEFINE some == {k \in {1, 2, Len(p.little)} : k <= Len(p.little)}
           n == Cardinality(some)
           ks == Sorted(some)
           C == {0, 1} \X ({NoK} \cup {ks[i] : i \in 1 .. n})
           seqs == [i \in DOMAIN ks |-> << <<0, ks[i]>>, <<1, ks[i]>> >>]
<1>1. n \in Nat
  <2>1. some \in SUBSET ({1} \cup {2} \cup {Len(p.little)})
    OBVIOUS
  <2>2. IsFiniteSet({1} \cup {2} \cup {Len(p.little)})
    <3>1. IsFiniteSet({1})
      BY FS_Singleton
    <3>2. IsFiniteSet({1} \cup {2})
      BY ONLY <3>1, FS_AddElement
    <3> QED BY ONLY <3>2, FS_AddElement
  <2> HIDE DEF some
  <2> QED BY <2>1, <2>2, FS_Subset, FS_CardinalityType
<1>2. DOMAIN ks = 1 .. n
  BY DEF Sorted
<1>3. e2_conditions(p) = << <<0, NoK>> >> \o FlattenSeq(seqs) \o << <<1, NoK>> >>
  BY DEF e2_conditions
<1> HIDE DEF ks, n
<1>4. ASSUME NEW i \in 1 .. n PROVE << <<0, ks[i]>>, <<1, ks[i]>> >> \in Seq(C)
  <2>1. <<0, ks[i]>> \in C /\ <<1, ks[i]>> \in C
    OBVIOUS
  <2> HIDE DEF C
  <2> QED BY <2>1
<1>5. <<0, NoK>> \in C /\ <<1, NoK>> \in C
  OBVIOUS
<1> HIDE DEF C
<1>6. seqs \in Seq(Seq(C))
  <2>1. seqs \in [1 .. n -> Seq(C)]
    BY <1>2, <1>4
  <2> HIDE DEF seqs
  <2> QED BY <1>1, <2>1
<1> HIDE DEF seqs
<1>7. FlattenSeq(seqs) \in Seq(C)
  BY <1>6, FlattenIs
<1>8. << <<0, NoK>> >> \in Seq(C) /\ << <<1, NoK>> >> \in Seq(C)
  BY <1>5
<1> DEFINE x == << <<0, NoK>> >>
           y == FlattenSeq(seqs)
           z == << <<1, NoK>> >>
<1>9. Len(x) = 1
  OBVIOUS
<1> HIDE DEF x, y, z
<1>10. x \o y \o z \in Seq(C) /\ x \o y \o z # <<>>
  <2>1. x \in Seq(C) /\ y \in Seq(C) /\ z \in Seq(C)
    BY <1>7, <1>8 DEF x, y, z
  <2>2. x \o y \o z \in Seq(C) /\ Len(x \o y \o z) = 1 + Len(y) + Len(z)
    <3>1. x \o y \in Seq(C) /\ Len(x \o y) = 1 + Len(y)
      <4>1. x \o y \in Seq(C) /\ Len(x \o y) = Len(x) + Len(y)
        BY ONLY <2>1
      <4> QED BY ONLY <1>9, <4>1
    <3> QED BY ONLY <2>1, <3>1
  <2>3. Len(y) \in Nat /\ Len(z) \in Nat
    BY <2>1
  <2> QED BY <2>2, <2>3
<1> QED BY <1>3, <1>10 DEF x, y, z

LEMMA E2Arms ==
    ASSUME NEW topo, NEW p
    PROVE  \E A : e2_arms(topo, p) \in Seq(A) /\ e2_arms(topo, p) # <<>>
<1> DEFINE conds == e2_conditions(p)
           n == Len(conds)
           arm(name, epp, i) == Arm("e2-coupling", <<name, conds[i][1], conds[i][2]>>, epp,
                                    NoFactor, name, NoFactor)
           f == [i \in DOMAIN conds |-> arm("partitioned", Partitioned(topo, p), i)]
           g == [i \in DOMAIN conds |-> arm("flat", Everywhere(topo, EPP_FLAT), i)]
           A == {f[i] : i \in 1 .. n} \cup {g[i] : i \in 1 .. n}
<1>1. n \in Nat /\ n # 0 /\ DOMAIN conds = 1 .. n
  BY Conditions
<1>2. e2_arms(topo, p) = f \o g
  BY DEF e2_arms
<1> HIDE DEF n, arm
<1>3. f \in [1 .. n -> A] /\ g \in [1 .. n -> A]
  BY <1>1
<1> HIDE DEF f, g, A
<1>4. f \in Seq(A) /\ g \in Seq(A) /\ Len(f) = n /\ Len(g) = n
  BY <1>1, <1>3
<1>5. f \o g \in Seq(A) /\ Len(f \o g) = n + n
  BY <1>4
<1>6. f \o g # <<>>
  BY <1>1, <1>5
<1> QED BY <1>2, <1>5, <1>6

LEMMA E3Arms ==
    ASSUME NEW topo, NEW p
    PROVE  \E A : e3_arms(topo, p) \in Seq(A) /\ e3_arms(topo, p) # <<>>
<1>1. DOMAIN E3_ARMS = 1 .. 5
  BY DEF E3_ARMS
<1> DEFINE e == e3_arms(topo, p)
           A == {e[i] : i \in 1 .. 5}
<1>2. DOMAIN e = 1 .. 5 /\ e = [i \in 1 .. 5 |-> e[i]]
  BY <1>1 DEF e3_arms
<1> HIDE DEF e
<1>3. e \in [1 .. 5 -> A]
  BY <1>2
<1>4. e \in Seq(A) /\ Len(e) = 5
  <2>1. PICK n \in Nat : n = 5
    OBVIOUS
  <2>2. e \in [1 .. n -> A]
    BY <1>3, <2>1
  <2> HIDE DEF A
  <2>3. e \in Seq(A) /\ Len(e) = n
    BY ONLY n \in Nat, <2>2, FunctionIsSeq
  <2> QED BY <2>1, <2>3
<1>5. e # <<>>
  BY <1>4
<1> QED BY <1>4, <1>5 DEF e

(* A session has runs, and they have repetitions.                          *)
LEMMA RunsAre ==
    ASSUME NEW e, e \in {"e1-rail", "e1b-poison", "e2-coupling", "e3-ab", "all"},
           NEW reps \in Nat \ {0}, NEW topo, NEW p
    PROVE  /\ Runs(e, reps, topo, p) # <<>>
           /\ \E T : Numbered(T) /\ Runs(e, reps, topo, p) \in Seq(T)
<1>1. PICK A1 : e1_arms(topo, p) \in Seq(A1) /\ e1_arms(topo, p) # <<>>
  BY E1Arms
<1>2. PICK A2 : e1b_arms(topo, p) \in Seq(A2) /\ e1b_arms(topo, p) # <<>>
  BY E1bArms
<1>3. PICK A3 : e2_arms(topo, p) \in Seq(A3) /\ e2_arms(topo, p) # <<>>
  BY E2Arms
<1>4. PICK A4 : e3_arms(topo, p) \in Seq(A4) /\ e3_arms(topo, p) # <<>>
  BY E3Arms
<1> DEFINE T == Groups(A1) \cup Groups(A2) \cup Groups(A3) \cup Groups(A4)
           g1 == InOrder(e1_arms(topo, p), reps)
           g2 == InOrder(e1b_arms(topo, p), reps)
           g3 == InOrder(e2_arms(topo, p), reps)
           g4 == Shuffled(e3_arms(topo, p), reps)
           p1 == IF Wants(e, "e1-rail") THEN g1 ELSE <<>>
           p2 == IF Wants(e, "e1b-poison") THEN g2 ELSE <<>>
           p3 == IF Wants(e, "e2-coupling") THEN g3 ELSE <<>>
           p4 == IF Wants(e, "e3-ab") THEN g4 ELSE <<>>
<1>5. /\ g1 \in Seq(Groups(A1)) /\ g1 # <<>> /\ g2 \in Seq(Groups(A2)) /\ g2 # <<>>
      /\ g3 \in Seq(Groups(A3)) /\ g3 # <<>> /\ g4 \in Seq(Groups(A4)) /\ g4 # <<>>
  BY <1>1, <1>2, <1>3, <1>4, InOrderIs, ShuffledIs
<1>6. Runs(e, reps, topo, p) = p1 \o p2 \o p3 \o p4
  BY DEF Runs
<1>7. Numbered(T)
  <2>1. Numbered(Groups(A1)) /\ Numbered(Groups(A2)) /\ Numbered(Groups(A3)) /\ Numbered(Groups(A4))
    BY GroupsNumbered
  <2> QED BY <2>1 DEF Numbered
<1> HIDE DEF g1, g2, g3, g4
<1>8. g1 \in Seq(T) /\ g2 \in Seq(T) /\ g3 \in Seq(T) /\ g4 \in Seq(T)
  BY <1>5
<1> HIDE DEF T
<1>9. p1 \in Seq(T) /\ p2 \in Seq(T) /\ p3 \in Seq(T) /\ p4 \in Seq(T)
  BY <1>8
<1>10. p1 # <<>> \/ p2 # <<>> \/ p3 # <<>> \/ p4 # <<>>
  BY <1>5 DEF Wants
<1> HIDE DEF p1, p2, p3, p4
<1>11. p1 \o p2 \o p3 \o p4 \in Seq(T)
  BY <1>9
<1>12. p1 \o p2 \o p3 \o p4 # <<>>
  <2>1. Len(p1 \o p2 \o p3 \o p4) = Len(p1) + Len(p2) + Len(p3) + Len(p4)
    BY <1>9
  <2>2. Len(p1) \in Nat /\ Len(p2) \in Nat /\ Len(p3) \in Nat /\ Len(p4) \in Nat
    BY <1>9
  <2>3. Len(p1) # 0 \/ Len(p2) # 0 \/ Len(p3) # 0 \/ Len(p4) # 0
    BY <1>9, <1>10
  <2> QED BY <1>11, <2>1, <2>2, <2>3
<1> QED BY <1>6, <1>7, <1>11, <1>12

-----------------------------------------------------------------------------
(* Sessions and their files                                                *)

(* What is left of the script, and the session under way.                  *)
LeftOK ==
    /\ script.sessions \in Seq(Sessions)
    /\ script.upsets \in Nat /\ script.cuts \in Nat
    /\ ended \in {"nothing", "refused", "running", "returned", "raised", "interrupted"}
    /\ (todo # <<>>) = (ended = "running")
    /\ \E T : Numbered(T) /\ todo \in Seq(T)

(* The file n with the record r: the name tells whose record it is, and    *)
(* the recorder reads clock and EPP of the same CPUs.                      *)
FileOK(n, r) ==
    /\ n = <<n[1], r.arm, r.rep>> /\ r.rep \in Nat
    /\ DOMAIN r.energy.epp = DOMAIN r.energy.bzy

(* data/raw.  A file that was cut is not a record.                         *)
DiskOK ==
    /\ IsFiniteSet(DOMAIN disk) /\ written \subseteq DOMAIN disk
    /\ \A n \in DOMAIN disk : disk[n] = Damaged \/ FileOK(n, disk[n])

ReportsOK ==
    /\ csv.kind \in {"absent", "rows"} /\ md.kind \in {"absent", "own", "generated"}

CampTypeInv == ScriptOK /\ LeftOK /\ DiskOK /\ ReportsOK

LEMMA CampTypeInit == Init => CampTypeInv
<1> SUFFICES ASSUME Init PROVE CampTypeInv
  OBVIOUS
<1>1. ScriptOK /\ md \in {Absent, Own} /\ todo = <<>> /\ ended = "nothing"
  BY ScriptAssumption DEF Init, ScriptOK
<1>2. LeftOK
  <2>1. Numbered({}) /\ todo \in Seq({})
    BY <1>1 DEF Numbered
  <2>2. \E T : Numbered(T) /\ todo \in Seq(T)
    BY <2>1
  <2> QED BY <1>1, <2>2, ScriptAssumption DEF Init, LeftOK
<1>3. DiskOK
  <2>1. DOMAIN disk = {}
    BY DEF Init
  <2> QED BY <2>1, FS_EmptySet DEF Init, DiskOK
<1>4. ReportsOK
  BY <1>1 DEF Init, ReportsOK, Absent, Own
<1> QED BY <1>1, <1>2, <1>3, <1>4 DEF CampTypeInv

(* A run leaves the rest of its group and the groups after it.             *)
LEMMA AfterIs ==
    ASSUME NEW T, Numbered(T), todo \in Seq(T), todo # <<>>, NEW run
    PROVE  \E U : Numbered(U) /\ After(run) \in Seq(U)
<1> DEFINE group == Head(todo) \ {run}
           U == T \cup {group}
<1>1. Head(todo) \in T /\ Tail(todo) \in Seq(T)
  OBVIOUS
<1>2. Numbered(U)
  BY <1>1 DEF Numbered
<1> HIDE DEF group
<1>3. group \in U /\ Tail(todo) \in Seq(U)
  BY <1>1
<1> HIDE DEF U
<1>4. <<group>> \o Tail(todo) \in Seq(U)
  <2>1. <<group>> \in Seq(U)
    BY <1>3
  <2> QED BY <1>3, <2>1
<1>5. After(run) = Tail(todo) \/ After(run) = <<group>> \o Tail(todo)
  BY DEF After, group
<1> QED BY <1>2, <1>3, <1>4, <1>5

(* What record() writes fits the name of the file.                         *)
LEMMA RecordIs ==
    ASSUME NEW run, run.rep \in Nat, NEW m, NEW built
    PROVE  FileOK(NameOf(run), Record(run, m, built))
<1> DEFINE r == Record(run, m, built)
           n == NameOf(run)
<1>1. r.arm = run.arm /\ r.rep = run.rep
  BY DEF Record
<1>2. n = <<run.experiment, run.arm, run.rep>> /\ n[1] = run.experiment
  BY DEF NameOf
<1>3. DOMAIN r.energy.epp = DOMAIN r.energy.bzy
  <2> DEFINE code == IF run.experiment = "e3-ab" /\ ~ built THEN 2 ELSE m.exit_code
             took == [exit_code |-> code, pkg_j |-> m.pkg_j, wall_s |-> m.wall_s,
                      pkg_c_max |-> m.pkg_c_max,
                      bzy |-> [c \in DOMAIN run.epp |-> m.clock[run.epp[c]]],
                      epp |-> [c \in DOMAIN run.epp |-> m.readback[run.epp[c]]]]
  <2>1. r.energy = NoEnergy \/ r.energy = took
    BY DEF Record
  <2>2. DOMAIN NoEnergy.epp = DOMAIN NoEnergy.bzy
    BY DEF NoEnergy
  <2>3. DOMAIN took.epp = DOMAIN took.bzy
    OBVIOUS
  <2> HIDE DEF r, took
  <2> QED BY <2>1, <2>2, <2>3
<1> HIDE DEF r, n
<1>4. FileOK(n, r)
  BY <1>1, <1>2, <1>3 DEF FileOK
<1> QED BY <1>4 DEF r, n

(* A file is written.                                                      *)
LEMMA WithRecordOK ==
    ASSUME DiskOK, NEW run, NEW contents,
           disk' = WithRecord(run, contents),
           contents = Damaged \/ FileOK(NameOf(run), contents),
           written' \subseteq written \cup {NameOf(run)}
    PROVE  DiskOK'
<1>1. DOMAIN disk' = DOMAIN disk \cup {NameOf(run)}
  BY DEF WithRecord
<1>2. IsFiniteSet(DOMAIN disk')
  BY <1>1, FS_AddElement DEF DiskOK
<1>3. written' \subseteq DOMAIN disk'
  BY <1>1 DEF DiskOK
<1>4. ASSUME NEW n \in DOMAIN disk' PROVE disk'[n] = Damaged \/ FileOK(n, disk'[n])
  <2>1. disk'[n] = IF n = NameOf(run) THEN contents ELSE disk[n]
    BY <1>1 DEF WithRecord
  <2> QED BY <1>1, <2>1 DEF DiskOK
<1> QED BY <1>2, <1>3, <1>4 DEF DiskOK, FileOK

(* A measured run.                                                         *)
LEMMA MeasureOK ==
    ASSUME CampTypeInv, ended = "running",
           NEW run \in Head(todo), NEW m, NEW built, Measure(run, m, built)
    PROVE  /\ DiskOK'
           /\ ended' \in {"running", "returned"} /\ (todo' # <<>>) = (ended' = "running")
           /\ (\E T : Numbered(T) /\ todo \in Seq(T))'
           /\ UNCHANGED <<csv, md>>
<1>1. /\ disk' = WithRecord(run, Record(run, m, built))
      /\ written' = written \cup {NameOf(run)}
      /\ todo' = After(run)
      /\ ended' = (IF todo' = <<>> THEN "returned" ELSE "running")
      /\ UNCHANGED <<csv, md>>
  BY DEF Measure
<1>2. PICK T : Numbered(T) /\ todo \in Seq(T)
  BY DEF CampTypeInv, LeftOK
<1>3. todo # <<>>
  BY DEF CampTypeInv, LeftOK
<1>4. Head(todo) \in T
  BY <1>2, <1>3
<1>5. run.rep \in Nat
  BY <1>2, <1>4 DEF Numbered
<1>6. DiskOK'
  BY <1>1, <1>5, RecordIs, WithRecordOK DEF CampTypeInv
<1>7. \E U : Numbered(U) /\ After(run) \in Seq(U)
  BY <1>2, <1>3, AfterIs
<1> QED BY <1>1, <1>6, <1>7 DEF Numbered

(* A session that starts.                                                  *)
LEMMA StartOK ==
    ASSUME CampTypeInv, StartSession
    PROVE  LeftOK'
<1> DEFINE s == Head(script.sessions)
           p == PartitionOf(s)
           runs == Runs(s.experiment, s.reps, s.topo, p)
<1>1. /\ script.sessions # <<>> /\ script' = [script EXCEPT !.sessions = Tail(@)]
      /\ \/ ended' \in {"refused", "raised"} /\ todo' = <<>>
         \/ ended' = "running" /\ todo' = runs
  BY DEF StartSession
<1>2. s \in Sessions /\ Tail(script.sessions) \in Seq(Sessions)
  BY <1>1 DEF CampTypeInv, LeftOK
<1>3. /\ script'.sessions \in Seq(Sessions)
      /\ script'.upsets = script.upsets /\ script'.cuts = script.cuts
  BY <1>1, <1>2 DEF CampTypeInv, ScriptOK
<1>4. CASE ended' \in {"refused", "raised"} /\ todo' = <<>>
  <2>1. Numbered({}) /\ todo' \in Seq({})
    BY <1>4 DEF Numbered
  <2>2. \E T : Numbered(T) /\ todo' \in Seq(T)
    BY <2>1
  <2> QED BY <1>3, <1>4, <2>2 DEF LeftOK, CampTypeInv, Numbered
<1>5. CASE ended' = "running" /\ todo' = runs
  <2>1. /\ s.experiment \in {"e1-rail", "e1b-poison", "e2-coupling", "e3-ab", "all"}
        /\ s.reps \in Nat \ {0}
    BY <1>2, SessionAssumption
  <2>2. runs # <<>> /\ \E T : Numbered(T) /\ runs \in Seq(T)
    <3> HIDE DEF s, p
    <3> QED BY <2>1, RunsAre
  <2> HIDE DEF runs
  <2> QED BY <1>3, <1>5, <2>2 DEF LeftOK, CampTypeInv, Numbered
<1> QED BY <1>1, <1>4, <1>5

LEMMA CampTypeStep ==
    ASSUME CampTypeInv, [Next]_vars
    PROVE  CampTypeInv'
<1>1. ScriptOK'
  BY ScriptStep DEF CampTypeInv
<1>2. CASE CallWorkload \/ GenerateWorkload \/ KillWorkload \/ UNCHANGED vars
  <2>1. UNCHANGED <<svars, disk, csv, md>>
    BY <1>2 DEF CallWorkload, GenerateWorkload, KillWorkload, vars
  <2>2. /\ script'.sessions = script.sessions /\ script'.upsets = script.upsets
        /\ script'.cuts \in Nat
    <3>1. CASE CallWorkload
      BY <3>1 DEF CallWorkload, CampTypeInv, ScriptOK, LeftOK
    <3>2. CASE KillWorkload
      BY <3>2 DEF KillWorkload, CampTypeInv, ScriptOK, LeftOK
    <3>3. CASE UNCHANGED script
      BY <3>3 DEF CampTypeInv, LeftOK
    <3> QED BY <1>2, <3>1, <3>2, <3>3 DEF GenerateWorkload, vars
  <2>3. UNCHANGED <<todo, ended, written, disk, csv, md>>
    BY <2>1
  <2> QED BY <1>1, <2>2, <2>3
          DEF CampTypeInv, LeftOK, DiskOK, FileOK, ReportsOK, Numbered
<1>3. CASE StartSession
  <2>1. LeftOK' /\ written' = {} /\ UNCHANGED <<disk, csv, md>>
    <3>1. LeftOK'
      BY <1>3, StartOK
    <3> QED BY <1>3, <3>1 DEF StartSession
  <2>2. DiskOK' /\ ReportsOK'
    BY <2>1 DEF CampTypeInv, DiskOK, FileOK, ReportsOK
  <2> QED BY <1>1, <2>1, <2>2 DEF CampTypeInv
<1>4. CASE MeasureUsual \/ MeasureUnusual
  <2>1. /\ ended = "running"
        /\ \E run \in Head(todo) : \E m, built : Measure(run, m, built)
    BY <1>4 DEF MeasureUsual, MeasureUnusual
  <2>2. PICK run \in Head(todo) : \E m, built : Measure(run, m, built)
    BY <2>1
  <2>3. PICK m, built : Measure(run, m, built)
    BY <2>2
  <2>4. /\ DiskOK'
        /\ ended' \in {"running", "returned"} /\ (todo' # <<>>) = (ended' = "running")
        /\ (\E T : Numbered(T) /\ todo \in Seq(T))'
        /\ UNCHANGED <<csv, md>>
    BY <2>1, <2>3, MeasureOK
  <2>5. script'.sessions = script.sessions /\ script'.upsets \in Nat /\ script'.cuts = script.cuts
    <3>1. CASE MeasureUsual
      BY <3>1 DEF MeasureUsual, CampTypeInv, LeftOK
    <3>2. CASE MeasureUnusual
      BY <3>2 DEF MeasureUnusual, CampTypeInv, ScriptOK, LeftOK
    <3> QED BY <1>4, <3>1, <3>2
  <2>6. LeftOK' /\ ReportsOK'
    BY <2>4, <2>5 DEF CampTypeInv, LeftOK, ReportsOK
  <2> QED BY <1>1, <2>4, <2>6 DEF CampTypeInv
<1>5. CASE Interrupt
  <2>1. /\ todo' = <<>> /\ ended' = "interrupted" /\ UNCHANGED <<written, csv, md>>
        /\ script.cuts > 0 /\ script' = [script EXCEPT !.cuts = @ - 1]
        /\ disk' = disk \/ \E run : disk' = WithRecord(run, Damaged)
    BY <1>5 DEF Interrupt
  <2>2. DiskOK'
    <3>1. CASE disk' = disk
      BY <2>1, <3>1 DEF CampTypeInv, DiskOK, FileOK
    <3>2. CASE \E run : disk' = WithRecord(run, Damaged)
      BY <2>1, <3>2, WithRecordOK DEF CampTypeInv
    <3> QED BY <2>1, <3>1, <3>2
  <2>3. /\ script'.sessions = script.sessions /\ script'.upsets = script.upsets
        /\ script'.cuts \in Nat
    BY <2>1 DEF CampTypeInv, ScriptOK, LeftOK
  <2>4. Numbered({}) /\ todo' \in Seq({})
    BY <2>1 DEF Numbered
  <2>5. \E T : Numbered(T) /\ todo' \in Seq(T)
    BY <2>4
  <2>6. LeftOK'
    BY <2>1, <2>3, <2>5 DEF CampTypeInv, LeftOK, Numbered
  <2> QED BY <1>1, <2>1, <2>2, <2>6 DEF CampTypeInv, ReportsOK
<1>6. CASE Analyze
  <2>1. UNCHANGED <<script, todo, ended, written, disk>> /\ csv'.kind = "rows"
    BY <1>6 DEF Analyze
  <2>2. md'.kind \in {"absent", "own", "generated"}
    <3> DEFINE data == csv'.rows
    <3>1. PICK report \in Judgements(data) : write_markdown(report)
      BY <1>6 DEF Analyze
    <3>2. PICK excluding : report = Judge(data, excluding)
      <4> HIDE DEF data
      <4> QED BY DEF Judgements
    <3>3. report.kind = "generated"
      BY <3>2 DEF Judge
    <3> HIDE DEF data
    <3> QED BY <3>1, <3>3 DEF write_markdown, CampTypeInv, ReportsOK
  <2>3. LeftOK' /\ DiskOK'
    BY <2>1 DEF CampTypeInv, LeftOK, DiskOK, FileOK, Numbered
  <2> QED BY <1>1, <2>1, <2>2, <2>3 DEF CampTypeInv, ReportsOK
<1> QED BY <1>2, <1>3, <1>4, <1>5, <1>6 DEF Next

THEOREM CampTypeInvHolds == Spec => []CampTypeInv
  BY CampTypeInit, CampTypeStep, PTL DEF Spec

(* A session is under way exactly while it has runs left, and the files it *)
(* counts as written are on the disk, whatever is interrupted, fails or is *)
(* written over; the tree is what workload.py makes of it.                 *)
THEOREM CampaignTypeCorrect == Spec => []TypeOK
<1>1. WTypeOK /\ CampTypeInv => TypeOK
  BY DEF TypeOK, CampTypeInv, LeftOK, DiskOK, ReportsOK
<1> QED BY <1>1, CampTypeInvHolds, CampaignRunsWorkload, WorkloadTypeCorrect, PTL

-----------------------------------------------------------------------------
(* The report                                                              *)

(* The records of the experiment e among the files d.                      *)
RecordsIn(d, e) == {d[n] : n \in {n \in DOMAIN d : n[1] = e}}
Kept == [n \in Readable |-> disk[n]]

LEMMA KeptOK ==
    ASSUME DiskOK, NEW e
    PROVE  RecordsOK(RecordsIn(Kept, e)) /\ RowsOf(e) = RowsFrom(RecordsIn(Kept, e))
<1> DEFINE own == {n \in Readable : n[1] = e}
           rs == RecordsIn(Kept, e)
           f == [n \in own |-> disk[n]]
<1>1. DOMAIN Kept = Readable /\ Readable \subseteq DOMAIN disk
  BY DEF Kept, Readable
<1>2. \A n \in own : Kept[n] = disk[n] /\ FileOK(n, disk[n]) /\ n[1] = e
  BY DEF Kept, Readable, DiskOK
<1>3. rs = {disk[n] : n \in own}
  BY <1>1, <1>2 DEF RecordsIn
<1>4. RowsOf(e) = RowsFrom(rs)
  BY <1>3 DEF RowsOf, RowsFrom
<1>5. IsFiniteSet(rs)
  <2>1. IsFiniteSet(own)
    <3>1. own \subseteq DOMAIN disk
      BY <1>1
    <3> QED BY <3>1, FS_Subset DEF DiskOK
  <2>2. f = [n \in own |-> f[n]] /\ DOMAIN f = own /\ rs = {f[n] : n \in own}
    BY <1>3
  <2> HIDE DEF f, own, rs
  <2> QED BY ONLY <2>1, <2>2, ImageIs
<1>6. ASSUME NEW r \in rs PROVE r.rep \in Nat /\ DOMAIN r.energy.epp = DOMAIN r.energy.bzy
  BY <1>2, <1>3 DEF FileOK
<1>7. ASSUME NEW r \in rs, NEW s \in rs, r.arm = s.arm, r.rep = s.rep PROVE r = s
  <2>1. PICK n \in own : r = disk[n]
    BY <1>3
  <2>2. PICK o \in own : s = disk[o]
    BY <1>3
  <2>3. n = <<e, r.arm, r.rep>> /\ o = <<e, s.arm, s.rep>>
    BY <1>2, <2>1, <2>2 DEF FileOK
  <2> QED BY <1>7, <2>1, <2>2, <2>3
<1> HIDE DEF rs
<1>8. RecordsOK(rs)
  BY <1>5, <1>6, <1>7 DEF RecordsOK
<1> QED BY <1>4, <1>8 DEF rs

(* The experiments with a win.                                             *)
LEMMA WinPassed ==
    ASSUME NEW data, NEW excluding, NEW w \in overall_headline(data, excluding).wins
    PROVE  w[1] \in DOMAIN data /\ ~Bad(data[w[1]])
<1> DEFINE bad == {e \in DOMAIN data : Bad(data[e])}
<1>1. overall_headline(data, excluding).wins = Tags(data, excluding, DOMAIN data \ bad, "lower")
  BY DEF overall_headline, Bad
<1>2. PICK e \in DOMAIN data \ bad : \E a \in Arms(data[e]) :
          w = <<e, a>> /\ Line(data[e], excluding[e], a, "lower")
  BY <1>1, TagsAre
<1>3. w[1] = e
  BY <1>2
<1> QED BY <1>2, <1>3

(* "The verdict text refuses to claim a win when a gate failed": in every  *)
(* report that analyze.py writes, for every machine, plan and outcome, and *)
(* whatever was interrupted, failed or written over, an experiment with a  *)
(* win has records of successful runs only, all on the same power supply,  *)
(* as many of each arm, none near throttling, and no arm whose CPUs were   *)
(* to have two clocks and had one in all of its runs.                      *)
THEOREM WinsAreAdmissible == Spec => []WinIsAdmissible
<1> DEFINE V == md.kind = "generated" =>
                  \A win \in md.headline.wins : Sound(RecordsIn(md.of, win[1]))
<1>1. V => WinIsAdmissible
  <2>1. \A e, a : ArmRuns(e, a) = OfArm(RunsOf(e), a)
    BY DEF ArmRuns, OfArm
  <2>2. \A e : RunsOf(e) = RecordsIn(md.of, e)
    BY DEF RunsOf, RecordsIn
  <2> QED BY <2>1, <2>2 DEF WinIsAdmissible, Judged, Sound
<1>2. Init => V
  <2>1. ASSUME md = Absent \/ md = Own PROVE md.kind # "generated"
    BY <2>1 DEF Absent, Own
  <2> QED BY <2>1, ScriptAssumption DEF Init
<1>3. CampTypeInv /\ V /\ [Next]_vars => V'
  <2> SUFFICES ASSUME CampTypeInv, V, [Next]_vars PROVE V'
    OBVIOUS
  <2>1. ASSUME UNCHANGED md PROVE V'
    BY <2>1
  <2>2. ASSUME Analyze PROVE V'
    <3> DEFINE data == csv'.rows
    <3>1. PICK report \in Judgements(data) : write_markdown(report)
      BY <2>2 DEF Analyze
    <3>2. PICK excluding : report = Judge(data, excluding)
      <4> HIDE DEF data
      <4> QED BY DEF Judgements
    <3>3. \A e \in DOMAIN data : data[e] = RowsOf(e)
      BY <2>2 DEF Analyze
    <3> HIDE DEF data
    <3>4. report.of = Kept /\ report.headline = overall_headline(data, excluding)
      BY <3>2 DEF Judge, Kept
    <3>5. ASSUME NEW win \in report.headline.wins PROVE Sound(RecordsIn(report.of, win[1]))
      <4>1. win[1] \in DOMAIN data /\ ~Bad(data[win[1]])
        BY <3>4, <3>5, WinPassed
      <4>2. /\ RecordsOK(RecordsIn(Kept, win[1]))
            /\ data[win[1]] = RowsFrom(RecordsIn(Kept, win[1]))
        BY <3>3, <4>1, KeptOK DEF CampTypeInv
      <4> QED BY <3>4, <4>1, <4>2, PassedIsSound
    <3>6. CASE UNCHANGED md
      BY <2>1, <3>6
    <3>7. CASE md' = report
      BY <3>5, <3>7
    <3> QED BY <3>1, <3>6, <3>7 DEF write_markdown
  <2>3. CASE Next
    <3>1. Next => Analyze \/ UNCHANGED md
      BY DEF Next, CallWorkload, GenerateWorkload, KillWorkload, StartSession,
             MeasureUsual, MeasureUnusual, Measure, Interrupt
    <3> QED BY <2>1, <2>2, <2>3, <3>1
  <2>4. CASE UNCHANGED vars
    BY <2>1, <2>4 DEF vars
  <2> QED BY <2>3, <2>4
<1> QED BY <1>1, <1>2, <1>3, CampTypeInvHolds, PTL DEF Spec

-----------------------------------------------------------------------------
(* The partition, and what analyze.py reads back                           *)

LEMMA SortedRange ==
    ASSUME NEW Q \in SUBSET Int, IsFiniteSet(Q)
    PROVE  Range(Sorted(Q)) = Q
<1> DEFINE n == Cardinality(Q)
<1>1. /\ Sorted(Q) \in [1 .. n -> Q]
      /\ \A x \in Q : \E i \in 1 .. n : Sorted(Q)[i] = x
  BY SortedIs
<1> HIDE DEF n
<1> QED BY <1>1 DEF Range

(* A machine that analyze.py knows.                                        *)
MachineOK(topo) ==
    /\ DOMAIN topo \subseteq Cpu /\ DOMAIN topo # {}
    /\ topo \in [DOMAIN topo -> Nat]

LEMMA CpuSets ==
    ASSUME NEW topo, MachineOK(topo), NEW Q \in SUBSET DOMAIN topo
    PROVE  IsFiniteSet(Q) /\ Q \in SUBSET Int /\ Q \in SUBSET Nat
<1>1. N_CPUS \in Nat /\ Cpu = 0 .. N_CPUS - 1
  BY CpusAssumption DEF Cpu
<1>2. IsFiniteSet(Cpu) /\ Cpu \in SUBSET Nat
  BY <1>1, FS_Interval
<1>3. Q \in SUBSET Cpu
  BY DEF MachineOK
<1>4. IsFiniteSet(Q)
  BY <1>2, <1>3, FS_Subset
<1>5. Q \in SUBSET Nat
  BY <1>2, <1>3
<1>6. Q \in SUBSET Int
  BY <1>5
<1> QED BY <1>4, <1>5, <1>6

(* The two domains.                                                        *)
IsPartition(topo, p) ==
    /\ Range(p.big) \cup Range(p.little) = DOMAIN topo
    /\ Range(p.big) \cap Range(p.little) = {} /\ Range(p.big) # {}

LEMMA ChosenIs ==
    ASSUME NEW topo, MachineOK(topo), NEW big, big # <<>>,
           Range(parse_cpulist(big)) \subseteq DOMAIN topo, Range(parse_cpulist(big)) # {}
    PROVE  IsPartition(topo, Partition(topo, big))
<1> DEFINE p == Partition(topo, big)
           chosen == Range(parse_cpulist(big))
<1>1. p.big = parse_cpulist(big) /\ p.little = Sorted(DOMAIN topo \ chosen)
  BY DEF Partition
<1>2. Range(p.little) = DOMAIN topo \ chosen
  <2>1. IsFiniteSet(DOMAIN topo \ chosen) /\ DOMAIN topo \ chosen \in SUBSET Int
    BY CpuSets
  <2> HIDE DEF chosen
  <2> QED BY <1>1, <2>1, SortedRange
<1>3. Range(p.big) = chosen
  BY <1>1
<1> HIDE DEF p, chosen
<1>4. chosen \subseteq DOMAIN topo /\ chosen # {}
  BY DEF chosen
<1>5. IsPartition(topo, p)
  BY <1>2, <1>3, <1>4 DEF IsPartition
<1> QED BY <1>5 DEF p

(* Without --big a core is in one domain with all of its CPUs.             *)
LEMMA DefaultIs ==
    ASSUME NEW topo, MachineOK(topo)
    PROVE  LET p == default_partition(topo) IN
           /\ IsPartition(topo, p)
           /\ \A c \in Range(p.big), d \in Range(p.little) : topo[c] # topo[d]
<1> DEFINE p == default_partition(topo)
           cores == Sorted(Range(topo))
           half == Max({1, Len(cores) \div 2})
           big_cores == {cores[i] : i \in 1 .. half}
           B == {c \in DOMAIN topo : topo[c] \in big_cores}
           L == {c \in DOMAIN topo : topo[c] \notin big_cores}
<1>1. p.big = Sorted(B) /\ p.little = Sorted(L)
  BY DEF default_partition
<1>2. B \in SUBSET DOMAIN topo /\ L \in SUBSET DOMAIN topo
  OBVIOUS
<1>3. Range(p.big) = B /\ Range(p.little) = L
  <2> HIDE DEF B, L
  <2>1. IsFiniteSet(B) /\ B \in SUBSET Int /\ IsFiniteSet(L) /\ L \in SUBSET Int
    BY <1>2, CpuSets
  <2> QED BY <1>1, <2>1, SortedRange
<1>4. B # {}
  <2> DEFINE n == Cardinality(Range(topo))
  <2>1. IsFiniteSet(Range(topo)) /\ Range(topo) \in SUBSET Int /\ Range(topo) # {}
    <3>1. IsFiniteSet(DOMAIN topo)
      BY CpuSets
    <3>2. topo = [c \in DOMAIN topo |-> topo[c]] /\ Range(topo) = {topo[c] : c \in DOMAIN topo}
      BY DEF MachineOK, Range
    <3>3. IsFiniteSet(Range(topo))
      BY ONLY <3>1, <3>2, ImageIs
    <3> QED BY <3>3 DEF MachineOK, Range
  <2>2. n \in Nat /\ n # 0 /\ cores \in [1 .. n -> Range(topo)]
    <3>1. n \in Nat /\ n # 0
      BY <2>1, FS_CardinalityType, FS_EmptySet
    <3> QED BY <2>1, <3>1, SortedIs
  <2> HIDE DEF cores
  <2>3. Len(cores) = n
    <3> HIDE DEF n
    <3> QED BY <2>2
  <2>4. half >= 1 /\ half \in Nat
    <3> DEFINE T == {1, n \div 2}
    <3>1. n \div 2 \in Nat /\ n \div 2 <= n
      <4> HIDE DEF n
      <4> QED BY <2>2
    <3>2. T \in SUBSET Nat /\ T # {} /\ 1 \in T /\ \A x \in T : x <= n
      <4> HIDE DEF n
      <4> QED BY <2>2, <3>1
    <3>3. half = Max(T)
      BY <2>3
    <3> HIDE DEF T, n, half
    <3>4. Max(T) \in T /\ \A x \in T : x <= Max(T)
      BY <2>2, <3>2, MaxNat
    <3> QED BY <3>2, <3>3, <3>4
  <2>5. cores[1] \in Range(topo) /\ cores[1] \in big_cores
    <3> HIDE DEF half, n
    <3> QED BY <2>2, <2>4
  <2> HIDE DEF big_cores
  <2> QED BY <2>5 DEF Range
<1>5. IsPartition(topo, p)
  <2>1. B \cup L = DOMAIN topo /\ B \cap L = {}
    OBVIOUS
  <2> HIDE DEF B, L, p
  <2> QED BY <1>3, <1>4, <2>1 DEF IsPartition
<1>6. \A c \in Range(p.big), d \in Range(p.little) : topo[c] # topo[d]
  <2>1. \A c \in B, d \in L : topo[c] # topo[d]
    <3> HIDE DEF big_cores
    <3> QED OBVIOUS
  <2> HIDE DEF B, L, p
  <2> QED BY <1>3, <2>1
<1> QED BY <1>5, <1>6

(* What apply_epp() writes, as analyze.py reads it.                        *)
LEMMA EppIs ==
    ASSUME NEW topo, MachineOK(topo), NEW p, IsPartition(topo, p)
    PROVE  LET epp == arr(Partitioned(topo, p)) IN
           \A c \in Cpu : /\ (epp[c] # Missing) = (c \in DOMAIN topo)
                          /\ c \in Range(p.big) => epp[c] = 0
                          /\ c \in Range(p.little) => epp[c] = 255
<1> DEFINE a == Partitioned(topo, p)
<1>1. /\ DOMAIN a = DOMAIN topo
      /\ \A c \in DOMAIN topo : a[c] = IF c \in Range(p.little) THEN 255 ELSE 0
  BY DEF Partitioned, EPP_LITTLE, EPP_BIG
<1> HIDE DEF a
<1>2. \A c \in Cpu : arr(a)[c] = IF c \in DOMAIN topo THEN a[c] ELSE Missing
  BY <1>1 DEF arr
<1>3. 0 # Missing /\ 255 # Missing
  BY MissingAssumption
<1>4. \A c \in Range(p.big) : c \in DOMAIN topo /\ c \notin Range(p.little)
  BY DEF IsPartition
<1>5. \A c \in Range(p.little) : c \in DOMAIN topo
  BY DEF IsPartition
<1>6. \A c \in DOMAIN topo : a[c] # Missing
  BY <1>1, <1>3
<1>7. ASSUME NEW c \in Cpu
      PROVE  /\ (arr(a)[c] # Missing) = (c \in DOMAIN topo)
             /\ c \in Range(p.big) => arr(a)[c] = 0
             /\ c \in Range(p.little) => arr(a)[c] = 255
  BY <1>1, <1>2, <1>4, <1>5, <1>6
<1> QED BY <1>7 DEF a

LEMMA DomainsReadBack ==
    ASSUME NEW topo, MachineOK(topo), NEW p, IsPartition(topo, p)
    PROVE  LET d == split_domains(arr(Partitioned(topo, p))) IN
           d.big = Range(p.big) /\ d.little = Range(p.little)
<1> DEFINE epp == arr(Partitioned(topo, p))
           known == {c \in Cpu : epp[c] # Missing}
           vals == {epp[c] : c \in known}
           B == Range(p.big)
           L == Range(p.little)
<1>1. \A c \in Cpu : /\ (epp[c] # Missing) = (c \in DOMAIN topo)
                     /\ c \in B => epp[c] = 0
                     /\ c \in L => epp[c] = 255
  BY EppIs
<1>2. B \cup L = DOMAIN topo /\ B \cap L = {} /\ B # {} /\ DOMAIN topo \subseteq Cpu
  BY DEF IsPartition, MachineOK
<1> DEFINE partitioned == Cardinality(vals) > 1
<1>3. /\ split_domains(epp).big = IF known = {} THEN Cpu
                                  ELSE {c \in known : ~partitioned \/ epp[c] < 128}
      /\ split_domains(epp).little = {c \in known : partitioned /\ epp[c] >= 128}
  BY DEF split_domains, EPP_BIG_MAX
<1> HIDE DEF epp, B, L
<1>4. known = B \cup L
  BY <1>1, <1>2
<1>5. \A c \in B : epp[c] = 0
  BY <1>1, <1>2
<1>6. \A c \in L : epp[c] = 255
  BY <1>1, <1>2
<1> HIDE DEF known
<1>7. partitioned <=> L # {}
  <2>1. CASE L = {}
    <3>1. vals = {0}
      BY <1>2, <1>4, <1>5, <2>1
    <3>2. Cardinality(vals) = 1
      BY <3>1, FS_Singleton
    <3> QED BY <2>1, <3>2
  <2>2. CASE L # {}
    <3>1. vals = {0, 255}
      BY <1>2, <1>4, <1>5, <1>6, <2>2
    <3>2. Cardinality({0, 255}) = 2
      <4>1. IsFiniteSet({0}) /\ Cardinality({0}) = 1
        BY FS_Singleton
      <4>2. 255 \notin {0} /\ {0, 255} = {0} \cup {255}
        OBVIOUS
      <4>3. Cardinality({0} \cup {255}) = Cardinality({0}) + 1
        BY <4>1, <4>2, FS_AddElement
      <4> QED BY <4>1, <4>2, <4>3
    <3> QED BY <2>2, <3>1, <3>2
  <2> QED BY <2>1, <2>2
<1> HIDE DEF partitioned
<1>8. known # {} /\ \A c \in known : c \in B <=> c \notin L
  BY <1>2, <1>4
<1>9. ASSUME NEW c \in known
      PROVE  /\ (~partitioned \/ epp[c] < 128) <=> c \in B
             /\ (partitioned /\ epp[c] >= 128) <=> c \in L
  <2>1. CASE c \in B
    BY <1>5, <1>8, <2>1
  <2>2. CASE c \in L
    <3>1. L # {} /\ epp[c] = 255 /\ c \notin B
      BY <1>6, <1>8, <2>2
    <3>2. partitioned /\ epp[c] >= 128 /\ ~(epp[c] < 128)
      BY <1>7, <3>1
    <3> QED BY <2>2, <3>1, <3>2
  <2> QED BY <1>4, <2>1, <2>2
<1>10. split_domains(epp).big = B /\ split_domains(epp).little = L
  <2>1. {c \in known : ~partitioned \/ epp[c] < 128} = B
    BY <1>4, <1>9
  <2>2. {c \in known : partitioned /\ epp[c] >= 128} = L
    BY <1>4, <1>9
  <2> QED BY <1>3, <1>8, <2>1, <2>2
<1> QED BY <1>10 DEF epp, B, L

(* Siblings SMT_STRIDE apart, below 2 * SMT_STRIDE.                        *)
LEMMA Siblings ==
    ASSUME NEW s \in Nat, NEW b \in 0 .. 2 * s - 1, NEW l \in 0 .. 2 * s - 1, b % s = l % s
    PROVE  b = l \/ (b < s /\ l = b + s) \/ (l < s /\ b = l + s)
<1>1. s > 0
  OBVIOUS
<1>2. ASSUME NEW x \in 0 .. 2 * s - 1 PROVE x % s = IF x < s THEN x ELSE x - s
  <2> DEFINE q == x \div s
             m == x % s
  <2>1. q \in Int /\ m \in 0 .. s - 1 /\ x = s * q + m
    BY <1>1
  <2> HIDE DEF q, m
  <2>2. q = 0 \/ q = 1
    <3>1. ~(q < 0)
      <4>1. SUFFICES ASSUME q <= -1 PROVE FALSE
        BY <2>1
      <4>2. s * q <= s * (-1)
        BY <1>1, <2>1, <4>1
      <4> QED BY <1>1, <2>1, <4>2
    <3>2. ~(q > 1)
      <4>1. SUFFICES ASSUME q >= 2 PROVE FALSE
        BY <2>1
      <4>2. s * q >= s * 2
        BY <1>1, <2>1, <4>1
      <4> QED BY <1>1, <2>1, <4>2
    <3> QED BY <2>1, <3>1, <3>2
  <2>3. m = IF x < s THEN x ELSE x - s
    <3>1. CASE q = 0
      BY <2>1, <3>1
    <3>2. CASE q = 1
      BY <2>1, <3>2
    <3> QED BY <2>2, <3>1, <3>2
  <2> QED BY <2>3 DEF m
<1>3. /\ b % s = IF b < s THEN b ELSE b - s
      /\ l % s = IF l < s THEN l ELSE l - s
  BY <1>2
<1> QED BY <1>1, <1>3

(* The number of split cores that the report counts is the number of cores *)
(* in both domains.                                                        *)
LEMMA SplitsCounted ==
    ASSUME NEW topo, MachineOK(topo), NEW p, IsPartition(topo, p),
           \A c, d \in DOMAIN topo : topo[c] = topo[d] <=> c % SMT_STRIDE = d % SMT_STRIDE
    PROVE  smt_pairs_split(arr(Partitioned(topo, p))) =
             Cardinality({topo[c] : c \in Range(p.big)} \cap {topo[c] : c \in Range(p.little)})
<1> DEFINE s == SMT_STRIDE
           epp == arr(Partitioned(topo, p))
           B == Range(p.big)
           L == Range(p.little)
           low == 0 .. s - 1
           pairs == {c \in low : /\ epp[c] # Missing /\ epp[c + s] # Missing
                                 /\ (epp[c] < 128) # (epp[c + s] < 128)}
           split == {topo[c] : c \in B} \cap {topo[c] : c \in L}
           f == [c \in pairs |-> topo[c]]
<1>1. smt_pairs_split(epp) = Cardinality(pairs)
  BY DEF smt_pairs_split, EPP_BIG_MAX
<1>2. s \in Nat /\ Cpu = 0 .. 2 * s - 1
  BY StrideAssumption DEF Cpu
<1>3. \A c \in Cpu : /\ (epp[c] # Missing) = (c \in DOMAIN topo)
                     /\ c \in B => epp[c] = 0
                     /\ c \in L => epp[c] = 255
  BY EppIs
<1>4. B \cup L = DOMAIN topo /\ B \cap L = {} /\ DOMAIN topo \subseteq Cpu
  BY DEF IsPartition, MachineOK
<1>5. \A c, d \in DOMAIN topo : topo[c] = topo[d] <=> c % s = d % s
  OBVIOUS
<1> HIDE DEF epp, B, L, s
<1>6. ASSUME NEW c \in low PROVE c \in Cpu /\ c + s \in Cpu
  BY <1>2
<1>7. ASSUME NEW c \in pairs
      PROVE  /\ c \in DOMAIN topo /\ c + s \in DOMAIN topo
             /\ (c \in B /\ c + s \in L) \/ (c \in L /\ c + s \in B)
  <2>1. c \in Cpu /\ c + s \in Cpu /\ c \in DOMAIN topo /\ c + s \in DOMAIN topo
    BY <1>3, <1>6
  <2>2. (epp[c] < 128) # (epp[c + s] < 128)
    OBVIOUS
  <2> HIDE DEF pairs
  <2>3. ASSUME NEW x \in {c, c + s}
        PROVE  (x \in B /\ epp[x] = 0) \/ (x \in L /\ epp[x] = 255)
    <3>1. x \in Cpu /\ (x \in B \/ x \in L)
      BY <1>4, <2>1
    <3>2. (x \in B => epp[x] = 0) /\ (x \in L => epp[x] = 255)
      BY <1>3, <3>1
    <3> QED BY <3>1, <3>2
  <2>4. ~(c \in B /\ c + s \in B) /\ ~(c \in L /\ c + s \in L)
    BY <1>3, <2>1, <2>2
  <2> QED BY <2>1, <2>3, <2>4
<1>8. ASSUME NEW c \in pairs PROVE topo[c] = topo[c + s] /\ c \in low
  <2>1. c \in DOMAIN topo /\ c + s \in DOMAIN topo /\ c \in low
    BY <1>7
  <2>2. c % s = (c + s) % s
    <3> HIDE DEF pairs
    <3> QED BY <1>2, <2>1
  <2> QED BY <1>5, <2>1, <2>2
<1>9. \A c, d \in pairs : f[c] = f[d] => c = d
  <2> SUFFICES ASSUME NEW c \in pairs, NEW d \in pairs, f[c] = f[d] PROVE c = d
    OBVIOUS
  <2>1. c \in low /\ d \in low /\ c \in DOMAIN topo /\ d \in DOMAIN topo /\ topo[c] = topo[d]
    BY <1>7
  <2> HIDE DEF pairs, f
  <2>2. c % s = d % s
    BY <1>5, <2>1
  <2>3. c \in 0 .. 2 * s - 1 /\ d \in 0 .. 2 * s - 1
    BY <1>2, <2>1
  <2>4. c = d \/ (c < s /\ d = c + s) \/ (d < s /\ c = d + s)
    BY <1>2, <2>2, <2>3, Siblings
  <2> QED BY <1>2, <2>1, <2>4
<1>10. split = {f[c] : c \in pairs}
  <2>1. ASSUME NEW c \in pairs PROVE f[c] \in split
    <3>1. f[c] = topo[c]
      OBVIOUS
    <3> HIDE DEF pairs, f
    <3> QED BY <1>7, <1>8, <3>1
  <2>2. ASSUME NEW k \in split PROVE k \in {f[c] : c \in pairs}
    <3>1. PICK b \in B, l \in L : k = topo[b] /\ k = topo[l]
      OBVIOUS
    <3>2. b \in DOMAIN topo /\ l \in DOMAIN topo /\ b # l /\ b \in Cpu /\ l \in Cpu
      BY <1>4
    <3>3. b % s = l % s
      BY <1>5, <3>1, <3>2
    <3>4. (b < s /\ l = b + s) \/ (l < s /\ b = l + s)
      BY <1>2, <3>2, <3>3, Siblings
    <3>5. /\ epp[b] = 0 /\ epp[l] = 255 /\ epp[b] # Missing /\ epp[l] # Missing
          /\ (epp[b] < 128) # (epp[l] < 128) /\ (epp[l] < 128) # (epp[b] < 128)
      <4>1. epp[b] = 0 /\ epp[l] = 255 /\ epp[b] # Missing /\ epp[l] # Missing
        BY <1>3, <3>2
      <4> QED BY <4>1
    <3>6. PICK m \in {b, l} : m \in low /\ epp[m] # Missing /\ epp[m + s] # Missing
                              /\ (epp[m] < 128) # (epp[m + s] < 128)
      <4>1. CASE b < s /\ l = b + s
        <5>1. b \in low
          BY <1>2, <3>2, <4>1
        <5> QED BY <3>5, <4>1, <5>1
      <4>2. CASE l < s /\ b = l + s
        <5>1. l \in low
          BY <1>2, <3>2, <4>2
        <5> QED BY <3>5, <4>2, <5>1
      <4> QED BY <3>4, <4>1, <4>2
    <3>7. m \in pairs /\ topo[m] = k
      BY <3>1, <3>6
    <3>8. f[m] = k
      BY <3>7
    <3> HIDE DEF pairs, f
    <3> QED BY <3>7, <3>8
  <2> HIDE DEF split, f, pairs
  <2> QED BY <2>1, <2>2
<1>11. IsFiniteSet(pairs)
  <2>1. pairs \in SUBSET low
    OBVIOUS
  <2>2. IsFiniteSet(low)
    BY <1>2, FS_Interval
  <2> HIDE DEF pairs, low
  <2> QED BY <2>1, <2>2, FS_Subset
<1>12. DOMAIN f = pairs /\ f = [c \in pairs |-> f[c]]
  OBVIOUS
<1> HIDE DEF f, pairs, split
<1>13. Cardinality(split) = Cardinality(pairs)
  BY ONLY <1>9, <1>10, <1>11, <1>12, ImageIs
<1> QED BY <1>1, <1>13 DEF split, epp, B, L

(* A session that ran was in the script.                                   *)
SessionKnown == ended \in {"running", "returned"} => session \in Sessions

LEMMA SessionKnownStep ==
    ASSUME CampTypeInv, SessionKnown, [Next]_vars
    PROVE  SessionKnown'
<1>1. CASE StartSession
  <2>1. Head(script.sessions) \in Sessions
    BY <1>1 DEF StartSession, CampTypeInv, LeftOK
  <2> QED BY <1>1, <2>1 DEF StartSession, SessionKnown
<1>2. CASE MeasureUsual \/ MeasureUnusual
  BY <1>2 DEF MeasureUsual, MeasureUnusual, Measure, SessionKnown
<1>3. CASE Interrupt
  BY <1>3 DEF Interrupt, SessionKnown
<1>4. CASE CallWorkload \/ GenerateWorkload \/ KillWorkload \/ Analyze \/ UNCHANGED vars
  BY <1>4 DEF CallWorkload, GenerateWorkload, KillWorkload, Analyze, vars, SessionKnown
<1> QED BY <1>1, <1>2, <1>3, <1>4 DEF Next

(* The domains that analyze.py reads back from the EPPs of a partitioned   *)
(* arm are those of the driver, on every machine of N_CPUS CPUs or fewer   *)
(* and with every --big that names CPUs of it; without --big no core is    *)
(* split, and where siblings are SMT_STRIDE apart the report's number of   *)
(* split cores is theirs.                                                  *)
THEOREM PartitionIsReadBack == Spec => []PartitionReadBack
<1>1. ASSUME SessionKnown PROVE PartitionReadBack
  <2> SUFFICES ASSUME ended = "running" PROVE PartitionReadBack
    BY DEF PartitionReadBack
  <2> DEFINE topo == session.topo
             p == PartitionOf(session)
             epp == arr(Partitioned(topo, p))
             big == {topo[c] : c \in Range(p.big)}
             little == {topo[c] : c \in Range(p.little)}
  <2>1. /\ MachineOK(topo)
        /\ session.big # <<>> => /\ Range(parse_cpulist(session.big)) \subseteq DOMAIN topo
                                 /\ Range(parse_cpulist(session.big)) # {}
    BY <1>1, TopologyAssumption DEF SessionKnown, MachineOK
  <2>2. /\ IsPartition(topo, p)
        /\ session.big = <<>> =>
             \A c \in Range(p.big), d \in Range(p.little) : topo[c] # topo[d]
    <3> HIDE DEF topo
    <3>1. p = Partition(topo, session.big)
      BY DEF PartitionOf, topo
    <3> HIDE DEF p
    <3>2. CASE session.big = <<>>
      BY <2>1, <3>1, <3>2, DefaultIs DEF Partition
    <3>3. CASE session.big # <<>>
      BY <2>1, <3>1, <3>3, ChosenIs
    <3> QED BY <3>2, <3>3
  <2> HIDE DEF topo, p
  <2>3. split_domains(epp).big = Range(p.big) /\ split_domains(epp).little = Range(p.little)
    BY <2>1, <2>2, DomainsReadBack
  <2>4. session.big = <<>> => big \cap little = {}
    BY <2>2
  <2>5. (\A c, d \in DOMAIN topo : topo[c] = topo[d] <=> c % SMT_STRIDE = d % SMT_STRIDE)
           => smt_pairs_split(epp) = Cardinality(big \cap little)
    BY <2>1, <2>2, SplitsCounted
  <2> HIDE DEF epp
  <2> QED BY <2>3, <2>4, <2>5 DEF PartitionReadBack, topo, p, epp
<1>2. Init => SessionKnown
  BY DEF Init, SessionKnown
<1> QED BY <1>1, <1>2, SessionKnownStep, CampTypeInvHolds, PTL DEF Spec

-----------------------------------------------------------------------------
(* The plan, and the files that a session leaves                           *)

NamesIn(q) == UNION {{NameOf(run) : run \in group} : group \in Range(q)}

LEMMA NamesConcat ==
    ASSUME NEW T, NEW q \in Seq(T), NEW r \in Seq(T)
    PROVE  NamesIn(q \o r) = NamesIn(q) \cup NamesIn(r)
<1>1. Range(q \o r) = Range(q) \cup Range(r)
  BY ConcatRange
<1> QED BY <1>1 DEF NamesIn

LEMMA NamesEmpty == NamesIn(<<>>) = {}
<1>1. Range(<<>>) = {}
  BY DEF Range
<1> QED BY <1>1 DEF NamesIn

(* The files of reps repetitions of the experiment e with arms of these    *)
(* names.                                                                  *)
FilesOf(e, names, reps) == {<<e, a, r - 1>> : a \in names, r \in 1 .. reps}
ArmNames(arms) == {a.arm : a \in Range(arms)}
ArmsOf(arms, e) ==
    \A a \in Range(arms) : {"experiment", "arm"} \subseteq DOMAIN a /\ a.experiment = e

LEMMA RepeatedName ==
    ASSUME NEW a, {"experiment", "arm"} \subseteq DOMAIN a, NEW r
    PROVE  NameOf(Repeated(a, r)) = <<a.experiment, a.arm, r>>
  BY DEF NameOf, Repeated

LEMMA FilesCount ==
    ASSUME NEW e, NEW names, IsFiniteSet(names), NEW reps \in Nat
    PROVE  /\ IsFiniteSet(FilesOf(e, names, reps))
           /\ Cardinality(FilesOf(e, names, reps)) = Cardinality(names) * reps
<1> DEFINE Q == names \X (1 .. reps)
           f == [x \in Q |-> <<e, x[1], x[2] - 1>>]
           T == FilesOf(e, names, reps)
<1>1. IsFiniteSet(1 .. reps) /\ Cardinality(1 .. reps) = reps
  BY FS_Interval
<1>2. IsFiniteSet(Q) /\ Cardinality(Q) = Cardinality(names) * reps
  BY <1>1, FS_Product
<1>3. T = {f[x] : x \in Q}
  <2>1. ASSUME NEW a \in names, NEW r \in 1 .. reps
        PROVE  <<a, r>> \in Q /\ f[<<a, r>>] = <<e, a, r - 1>>
    OBVIOUS
  <2>2. ASSUME NEW x \in Q
        PROVE  x[1] \in names /\ x[2] \in 1 .. reps /\ f[x] = <<e, x[1], x[2] - 1>>
    OBVIOUS
  <2> HIDE DEF f, Q
  <2>3. ASSUME NEW n \in T PROVE n \in {f[x] : x \in Q}
    <3>1. PICK a \in names, r \in 1 .. reps : n = <<e, a, r - 1>>
      BY <2>3 DEF FilesOf
    <3> QED BY <2>1, <3>1
  <2>4. ASSUME NEW x \in Q PROVE f[x] \in T
    <3>1. \E a \in names, r \in 1 .. reps : f[x] = <<e, a, r - 1>>
      BY <2>2
    <3> QED BY <3>1 DEF FilesOf
  <2> HIDE DEF T
  <2> QED BY <2>3, <2>4
<1>4. \A x, y \in Q : f[x] = f[y] => x = y
  <2> SUFFICES ASSUME NEW x \in Q, NEW y \in Q, f[x] = f[y] PROVE x = y
    OBVIOUS
  <2>1. x[1] = y[1] /\ x[2] - 1 = y[2] - 1
    OBVIOUS
  <2>2. x = <<x[1], x[2]>> /\ y = <<y[1], y[2]>> /\ x[2] \in Nat /\ y[2] \in Nat
    OBVIOUS
  <2> QED BY <2>1, <2>2
<1>5. f = [x \in Q |-> f[x]] /\ DOMAIN f = Q
  OBVIOUS
<1> HIDE DEF f, Q, T
<1>6. IsFiniteSet(T) /\ Cardinality(T) = Cardinality(Q)
  BY ONLY <1>2, <1>3, <1>4, <1>5, ImageIs
<1> QED BY <1>2, <1>6 DEF T

LEMMA InOrderNames ==
    ASSUME NEW A, NEW arms \in Seq(A), NEW reps \in Nat \ {0}, NEW e, ArmsOf(arms, e)
    PROVE  NamesIn(InOrder(arms, reps)) = FilesOf(e, ArmNames(arms), reps)
<1> DEFINE round(r) == [i \in DOMAIN arms |-> {Repeated(arms[i], r - 1)}]
           seqs == [r \in 1 .. reps |-> round(r)]
           G == UNION {Range(round(r)) : r \in 1 .. reps}
<1>1. ASSUME NEW r \in 1 .. reps PROVE round(r) \in Seq(Groups(A))
  <2>1. ASSUME NEW i \in DOMAIN arms PROVE {Repeated(arms[i], r - 1)} \in Groups(A)
    <3>1. arms[i] \in A /\ r - 1 \in Nat
      OBVIOUS
    <3> QED BY <3>1 DEF Groups
  <2>2. DOMAIN arms = 1 .. Len(arms) /\ Len(arms) \in Nat
    OBVIOUS
  <2>3. round(r) \in [1 .. Len(arms) -> Groups(A)]
    BY <2>1, <2>2
  <2> HIDE DEF round
  <2> QED BY <2>2, <2>3, FunctionIsSeq
<1>2. ASSUME NEW r \in 1 .. reps
      PROVE  Range(round(r)) = {{Repeated(a, r - 1)} : a \in Range(arms)}
  BY DEF Range
<1>3. InOrder(arms, reps) = FlattenSeq(seqs)
  BY DEF InOrder
<1> HIDE DEF round
<1>4. seqs \in Seq(Seq(Groups(A))) /\ Len(seqs) = reps /\ \A r \in 1 .. reps : seqs[r] = round(r)
  <2>1. seqs \in [1 .. reps -> Seq(Groups(A))] /\ reps \in Nat
    BY <1>1
  <2> QED BY <2>1
<1> HIDE DEF seqs
<1>5. Range(InOrder(arms, reps)) = G
  <2>1. Range(FlattenSeq(seqs)) = UNION {Range(seqs[r]) : r \in 1 .. reps}
    BY <1>4, FlattenHas
  <2>2. UNION {Range(seqs[r]) : r \in 1 .. reps} = G
    BY <1>4
  <2> HIDE DEF G
  <2> QED BY <1>3, <2>1, <2>2
<1>6. ASSUME NEW group
      PROVE  group \in G <=> \E r \in 1 .. reps : \E a \in Range(arms) : group = {Repeated(a, r - 1)}
  BY <1>2
<1>7. ASSUME NEW a \in Range(arms), NEW r PROVE NameOf(Repeated(a, r)) = <<e, a.arm, r>>
  BY RepeatedName DEF ArmsOf
<1> HIDE DEF G
<1>8. ASSUME NEW n \in NamesIn(InOrder(arms, reps)) PROVE n \in FilesOf(e, ArmNames(arms), reps)
  <2>1. PICK group \in G : n \in {NameOf(run) : run \in group}
    BY <1>5, <1>8 DEF NamesIn
  <2>2. PICK r \in 1 .. reps, a \in Range(arms) : group = {Repeated(a, r - 1)}
    BY <1>6, <2>1
  <2>3. n = <<e, a.arm, r - 1>>
    BY <1>7, <2>1, <2>2
  <2> QED BY <2>3 DEF FilesOf, ArmNames
<1>9. ASSUME NEW n \in FilesOf(e, ArmNames(arms), reps) PROVE n \in NamesIn(InOrder(arms, reps))
  <2>1. PICK a \in Range(arms), r \in 1 .. reps : n = <<e, a.arm, r - 1>>
    BY <1>9 DEF FilesOf, ArmNames
  <2> DEFINE group == {Repeated(a, r - 1)}
  <2>2. group \in G /\ n = NameOf(Repeated(a, r - 1))
    BY <1>6, <1>7, <2>1
  <2> QED BY <1>5, <2>2 DEF NamesIn
<1> QED BY <1>8, <1>9

LEMMA ShuffledNames ==
    ASSUME NEW arms, NEW reps \in Nat, NEW e, ArmsOf(arms, e)
    PROVE  NamesIn(Shuffled(arms, reps)) = FilesOf(e, ArmNames(arms), reps)
<1> DEFINE group(r) == {Repeated(a, r - 1) : a \in Range(arms)}
           G == {group(r) : r \in 1 .. reps}
<1>1. Range(Shuffled(arms, reps)) = G
  <2>1. ASSUME NEW r PROVE {Repeated(arms[i], r - 1) : i \in DOMAIN arms} = group(r)
    BY DEF Range
  <2>2. Shuffled(arms, reps) = [r \in 1 .. reps |-> group(r)]
    <3> HIDE DEF group
    <3> QED BY <2>1 DEF Shuffled
  <2> HIDE DEF group
  <2> QED BY <2>2 DEF Range
<1>2. ASSUME NEW a \in Range(arms), NEW r PROVE NameOf(Repeated(a, r)) = <<e, a.arm, r>>
  BY RepeatedName DEF ArmsOf
<1>3. ASSUME NEW r PROVE {NameOf(run) : run \in group(r)} = {<<e, a.arm, r - 1>> : a \in Range(arms)}
  BY <1>2
<1> HIDE DEF group
<1>4. ASSUME NEW n
      PROVE  n \in NamesIn(Shuffled(arms, reps)) <=>
               \E r \in 1 .. reps : n \in {<<e, a.arm, r - 1>> : a \in Range(arms)}
  BY <1>1, <1>3 DEF NamesIn
<1>5. ASSUME NEW n
      PROVE  n \in FilesOf(e, ArmNames(arms), reps) <=>
               \E r \in 1 .. reps : n \in {<<e, a.arm, r - 1>> : a \in Range(arms)}
  <2>1. ASSUME n \in FilesOf(e, ArmNames(arms), reps)
        PROVE  \E r \in 1 .. reps : n \in {<<e, a.arm, r - 1>> : a \in Range(arms)}
    <3>1. PICK a \in Range(arms), r \in 1 .. reps : n = <<e, a.arm, r - 1>>
      BY <2>1 DEF FilesOf, ArmNames
    <3> QED BY <3>1
  <2>2. ASSUME NEW r \in 1 .. reps, n \in {<<e, a.arm, r - 1>> : a \in Range(arms)}
        PROVE  n \in FilesOf(e, ArmNames(arms), reps)
    BY <2>2 DEF FilesOf, ArmNames
  <2> QED BY <2>1, <2>2
<1> QED BY <1>4, <1>5

LEMMA FourCount ==
    ASSUME NEW a, NEW b, NEW c, NEW d, a \notin {b, c, d}, b \notin {c, d}, c # d
    PROVE  IsFiniteSet({a, b, c, d}) /\ Cardinality({a, b, c, d}) = 4
<1> DEFINE two == {a, b}
           three == two \cup {c}
           four == three \cup {d}
<1>1. IsFiniteSet(two) /\ Cardinality(two) = 2
  BY TwoCount
<1>2. c \notin two /\ d \notin three /\ four = {a, b, c, d}
  OBVIOUS
<1> HIDE DEF two
<1>3. IsFiniteSet(three) /\ Cardinality(three) = 3
  BY ONLY <1>1, <1>2, AddOne DEF three
<1> HIDE DEF three
<1>4. IsFiniteSet(four) /\ Cardinality(four) = 4
  BY ONLY <1>2, <1>3, AddOne DEF four
<1> QED BY <1>2, <1>4

(* The arms of the experiments, and how many names they have.              *)
LEMMA E1Count ==
    ASSUME NEW topo, NEW p
    PROVE  LET arms == e1_arms(topo, p) IN
           /\ ArmsOf(arms, "e1-rail")
           /\ IsFiniteSet(ArmNames(arms)) /\ Cardinality(ArmNames(arms)) = 4
<1> DEFINE arms == e1_arms(topo, p)
           N(name) == <<name, 0, NoK>>
<1>1. /\ DOMAIN arms = {1, 2, 3, 4}
      /\ \A i \in {1, 2, 3, 4} :
            {"experiment", "arm"} \subseteq DOMAIN arms[i] /\ arms[i].experiment = "e1-rail"
      /\ arms[1].arm = N("both-performance") /\ arms[2].arm = N("both-power")
      /\ arms[3].arm = N("both-balance") /\ arms[4].arm = N("partitioned")
  BY DEF e1_arms, Arm
<1>2. /\ N("both-performance") \notin {N("both-power"), N("both-balance"), N("partitioned")}
      /\ N("both-power") \notin {N("both-balance"), N("partitioned")}
      /\ N("both-balance") # N("partitioned")
  OBVIOUS
<1> HIDE DEF arms, N
<1>3. Range(arms) = {arms[1], arms[2], arms[3], arms[4]}
  BY <1>1 DEF Range
<1>4. ArmsOf(arms, "e1-rail")
  BY <1>1, <1>3 DEF ArmsOf
<1>5. ArmNames(arms) = {N("both-performance"), N("both-power"), N("both-balance"), N("partitioned")}
  BY <1>1, <1>3 DEF ArmNames
<1>6. LET four == {N("both-performance"), N("both-power"), N("both-balance"), N("partitioned")} IN
      IsFiniteSet(four) /\ Cardinality(four) = 4
  BY <1>2, FourCount
<1> QED BY <1>4, <1>5, <1>6 DEF arms

LEMMA E1bCount ==
    ASSUME NEW topo, NEW p
    PROVE  LET arms == e1b_arms(topo, p) IN
           /\ ArmsOf(arms, "e1b-poison")
           /\ IsFiniteSet(ArmNames(arms)) /\ Cardinality(ArmNames(arms)) = 4
<1> DEFINE arms == e1b_arms(topo, p)
           N(name) == <<name, 0, NoK>>
<1>1. /\ DOMAIN arms = {1, 2, 3, 4}
      /\ \A i \in {1, 2, 3, 4} :
            {"experiment", "arm"} \subseteq DOMAIN arms[i] /\ arms[i].experiment = "e1b-poison"
      /\ arms[1].arm = N("others-power") /\ arms[2].arm = N("others-balance")
      /\ arms[3].arm = N("others-performance") /\ arms[4].arm = N("others-balance-power")
  BY DEF e1b_arms, Arm
<1>2. /\ N("others-power") \notin {N("others-balance"), N("others-performance"), N("others-balance-power")}
      /\ N("others-balance") \notin {N("others-performance"), N("others-balance-power")}
      /\ N("others-performance") # N("others-balance-power")
  OBVIOUS
<1> HIDE DEF arms, N
<1>3. Range(arms) = {arms[1], arms[2], arms[3], arms[4]}
  BY <1>1 DEF Range
<1>4. ArmsOf(arms, "e1b-poison")
  BY <1>1, <1>3 DEF ArmsOf
<1>5. ArmNames(arms) = {N("others-power"), N("others-balance"),
                        N("others-performance"), N("others-balance-power")}
  BY <1>1, <1>3 DEF ArmNames
<1>6. LET four == {N("others-power"), N("others-balance"),
                    N("others-performance"), N("others-balance-power")} IN
      IsFiniteSet(four) /\ Cardinality(four) = 4
  BY <1>2, FourCount
<1> QED BY <1>4, <1>5, <1>6 DEF arms

LEMMA E3Count ==
    ASSUME NEW topo, NEW p
    PROVE  LET arms == e3_arms(topo, p) IN
           /\ ArmsOf(arms, "e3-ab") /\ Len(E3_ARMS) = 5
           /\ IsFiniteSet(ArmNames(arms)) /\ Cardinality(ArmNames(arms)) = 5
<1> DEFINE arms == e3_arms(topo, p)
           N(name) == <<name, 0, NoK>>
           four == {N("eevdf-flat"), N("eevdf-partitioned"), N("scx-flat"), N("scx-partitioned")}
           last == N("scx-partitioned-strict")
<1>1. /\ DOMAIN E3_ARMS = {1, 2, 3, 4, 5} /\ Len(E3_ARMS) = 5
      /\ E3_ARMS[1][1] = "eevdf-flat" /\ E3_ARMS[2][1] = "eevdf-partitioned"
      /\ E3_ARMS[3][1] = "scx-flat" /\ E3_ARMS[4][1] = "scx-partitioned"
      /\ E3_ARMS[5][1] = "scx-partitioned-strict"
  BY DEF E3_ARMS
<1>2. /\ DOMAIN arms = {1, 2, 3, 4, 5}
      /\ \A i \in {1, 2, 3, 4, 5} :
            /\ {"experiment", "arm"} \subseteq DOMAIN arms[i] /\ arms[i].experiment = "e3-ab"
            /\ arms[i].arm = N(E3_ARMS[i][1])
  BY <1>1 DEF e3_arms, Arm
<1>3. /\ N("eevdf-flat") \notin {N("eevdf-partitioned"), N("scx-flat"), N("scx-partitioned")}
      /\ N("eevdf-partitioned") \notin {N("scx-flat"), N("scx-partitioned")}
      /\ N("scx-flat") # N("scx-partitioned") /\ last \notin four
  OBVIOUS
<1> HIDE DEF arms, N
<1>4. IsFiniteSet(four) /\ Cardinality(four) = 4
  BY <1>3, FourCount
<1>5. Range(arms) = {arms[1], arms[2], arms[3], arms[4], arms[5]}
  BY <1>2 DEF Range
<1>6. ArmsOf(arms, "e3-ab")
  BY <1>2, <1>5 DEF ArmsOf
<1>7. ArmNames(arms) = four \cup {last}
  <2>1. ArmNames(arms) = {arms[1].arm, arms[2].arm, arms[3].arm, arms[4].arm, arms[5].arm}
    BY <1>5 DEF ArmNames
  <2> QED BY <1>1, <1>2, <2>1
<1> HIDE DEF four, last
<1>8. IsFiniteSet(four \cup {last}) /\ Cardinality(four \cup {last}) = 5
  BY <1>3, <1>4, FS_AddElement
<1> QED BY <1>1, <1>6, <1>7, <1>8 DEF arms

(* How many little CPUs an e2 condition loads.                             *)
LittleLoads(p) == {k \in {1, 2, Len(p.little)} : k <= Len(p.little)}

(* Every condition of e2 is another one.                                   *)
LEMMA ConditionsAre ==
    ASSUME NEW p, Len(p.little) \in Nat
    PROVE  LET conds == e2_conditions(p) IN
           /\ IsFiniteSet(Range(conds)) /\ Cardinality(Range(conds)) = Len(conds)
           /\ Len(conds) \in Nat /\ \E C : conds \in Seq(C)
           /\ \A c \in Range(conds) : c = <<c[1], c[2]>>
           /\ Range(conds) = {0, 1} \X (LittleLoads(p) \cup {NoK})
<1> DEFINE some == {k \in {1, 2, Len(p.little)} : k <= Len(p.little)}
           n == Cardinality(some)
           ks == Sorted(some)
           K == some \cup {NoK}
           C == {0, 1} \X K
           seqs == [i \in DOMAIN ks |-> << <<0, ks[i]>>, <<1, ks[i]>> >>]
           x == << <<0, NoK>> >>
           y == FlattenSeq(seqs)
           z == << <<1, NoK>> >>
<1>1. some \in SUBSET Nat /\ Len(p.little) \in some
  OBVIOUS
<1>2. IsFiniteSet(some) /\ n \in Nat /\ n # 0
  <2> DEFINE L == Len(p.little)
  <2> HIDE DEF L
  <2>1. L \in Nat
    BY DEF L
  <2>2. IsFiniteSet(0 .. L)
    BY <2>1, FS_Interval
  <2>3. some \in SUBSET (0 .. L)
    BY <1>1, <2>1 DEF L
  <2> HIDE DEF some
  <2>4. IsFiniteSet(some)
    BY <2>2, <2>3, FS_Subset
  <2> QED BY <1>1, <2>4, FS_CardinalityType, FS_EmptySet
<1>3. NoK \notin some
  BY <1>1 DEF NoK
<1>4. e2_conditions(p) = x \o y \o z
  BY DEF e2_conditions
<1> HIDE DEF some
<1>5. ks \in [1 .. n -> some] /\ \A k \in some : \E i \in 1 .. n : ks[i] = k
  <2>1. some \in SUBSET Int
    BY <1>1
  <2> QED BY <1>2, <2>1, SortedIs
<1> HIDE DEF ks, n
<1>6. ASSUME NEW k \in K PROVE <<0, k>> \in C /\ <<1, k>> \in C
  OBVIOUS
<1> HIDE DEF C
<1>7. ASSUME NEW i \in 1 .. n
      PROVE  LET pair == << <<0, ks[i]>>, <<1, ks[i]>> >> IN
             pair \in Seq(C) /\ Len(pair) = 2 /\ Range(pair) = {<<0, ks[i]>>, <<1, ks[i]>>}
  <2>1. <<0, ks[i]>> \in C /\ <<1, ks[i]>> \in C
    BY <1>5, <1>6
  <2> DEFINE a == <<0, ks[i]>>
             b == <<1, ks[i]>>
  <2> HIDE DEF a, b
  <2>2. a \in C /\ b \in C
    BY <2>1 DEF a, b
  <2>3. <<a, b>> \in Seq(C) /\ Len(<<a, b>>) = 2
    BY <2>2
  <2>4. Range(<<a, b>>) = {a, b}
    <3>1. DOMAIN <<a, b>> = {1, 2} /\ <<a, b>>[1] = a /\ <<a, b>>[2] = b
      OBVIOUS
    <3> QED BY <3>1 DEF Range
  <2> QED BY <2>3, <2>4 DEF a, b
<1>8. /\ seqs \in Seq(Seq(C)) /\ Len(seqs) = n
      /\ \A i \in 1 .. n : seqs[i] = << <<0, ks[i]>>, <<1, ks[i]>> >>
  <2> DEFINE pair(i) == << <<0, ks[i]>>, <<1, ks[i]>> >>
  <2>1. \A i \in 1 .. n : pair(i) \in Seq(C)
    BY <1>7
  <2>2. seqs = [i \in 1 .. n |-> pair(i)]
    BY <1>5
  <2> HIDE DEF pair, seqs
  <2>3. seqs \in [1 .. n -> Seq(C)] /\ \A i \in 1 .. n : seqs[i] = pair(i)
    BY <2>1, <2>2
  <2>4. seqs \in Seq(Seq(C)) /\ Len(seqs) = n
    BY <1>2, <2>3, FunctionIsSeq
  <2> QED BY <2>3, <2>4 DEF pair
<1> HIDE DEF seqs
<1>9. y \in Seq(C) /\ Len(y) = 2 * n /\ Range(y) = UNION {Range(seqs[i]) : i \in 1 .. n}
  <2>1. \A i \in 1 .. Len(seqs) : Len(seqs[i]) = 2
    BY <1>7, <1>8
  <2>2. y \in Seq(C)
    BY <1>8, FlattenIs
  <2>3. Len(y) = 2 * Len(seqs) /\ Range(y) = UNION {Range(seqs[i]) : i \in 1 .. Len(seqs)}
    BY <1>2, <1>8, <2>1, FlattenHas
  <2> QED BY <1>8, <2>2, <2>3
<1>10. /\ x \in Seq(C) /\ Len(x) = 1 /\ Range(x) = {<<0, NoK>>}
       /\ z \in Seq(C) /\ Len(z) = 1 /\ Range(z) = {<<1, NoK>>}
  <2>1. ASSUME NEW a \in C PROVE <<a>> \in Seq(C) /\ Len(<<a>>) = 1 /\ Range(<<a>>) = {a}
    <3>1. DOMAIN <<a>> = {1} /\ <<a>>[1] = a
      OBVIOUS
    <3> QED BY <3>1 DEF Range
  <2>2. <<0, NoK>> \in C /\ <<1, NoK>> \in C
    BY <1>6
  <2> QED BY <2>1, <2>2
<1> HIDE DEF x, y, z
<1> DEFINE conds == x \o y \o z
<1>11. /\ conds \in Seq(C) /\ Len(conds) = 2 * n + 2
       /\ Range(conds) = Range(x) \cup Range(y) \cup Range(z)
  <2>1. x \in Seq(C) /\ y \in Seq(C) /\ z \in Seq(C)
    BY <1>9, <1>10
  <2> DEFINE w == x \o y
  <2>2. w \in Seq(C) /\ Len(w) = Len(x) + Len(y)
    BY <2>1, ConcatLen
  <2>3. Range(w) = Range(x) \cup Range(y)
    BY <2>1, ConcatRange
  <2> HIDE DEF w
  <2>4. w \o z \in Seq(C) /\ Len(w \o z) = Len(w) + Len(z)
    BY <2>1, <2>2, ConcatLen
  <2>5. Range(w \o z) = Range(w) \cup Range(z)
    BY <2>1, <2>2, ConcatRange
  <2>6. conds = w \o z
    BY DEF w
  <2> HIDE DEF conds
  <2>7. Len(conds) = 2 * n + 2
    BY <1>2, <1>9, <1>10, <2>2, <2>4, <2>6
  <2> QED BY <2>3, <2>4, <2>5, <2>6, <2>7
<1>12. Range(conds) = C
  <2>1. ASSUME NEW c \in C PROVE c \in Range(conds)
    <3>1. PICK b \in {0, 1}, k \in K : c = <<b, k>>
      BY <2>1 DEF C
    <3>2. CASE k = NoK
      BY <1>10, <1>11, <3>1, <3>2
    <3>3. CASE k \in some
      <4>1. PICK i \in 1 .. n : ks[i] = k
        BY <1>5, <3>3
      <4>2. c \in Range(seqs[i])
        BY <1>7, <1>8, <3>1, <4>1
      <4> QED BY <1>9, <1>11, <4>2
    <3> QED BY <3>2, <3>3
  <2>2. ASSUME NEW c \in Range(conds) PROVE c \in C
    <3>1. DOMAIN conds = 1 .. Len(conds) /\ \A i \in DOMAIN conds : conds[i] \in C
      BY <1>11
    <3> HIDE DEF conds
    <3> QED BY <2>2, <3>1 DEF Range
  <2> HIDE DEF conds
  <2> QED BY <2>1, <2>2
<1>13. IsFiniteSet(C) /\ Cardinality(C) = 2 * n + 2
  <2>1. IsFiniteSet(K) /\ Cardinality(K) = n + 1
    BY <1>2, <1>3, FS_AddElement DEF n
  <2>2. IsFiniteSet({0, 1}) /\ Cardinality({0, 1}) = 2
    <3>1. 0 # 1
      OBVIOUS
    <3> QED BY ONLY <3>1, TwoCount
  <2> HIDE DEF K
  <2>3. IsFiniteSet(C) /\ Cardinality(C) = 2 * (n + 1)
    BY <2>1, <2>2, FS_Product DEF C
  <2> QED BY <1>2, <2>3
<1>14. \A c \in C : c = <<c[1], c[2]>>
  BY DEF C
<1> HIDE DEF conds
<1>15. e2_conditions(p) = conds
  BY <1>4 DEF conds
<1>16. Len(conds) \in Nat /\ \E D : conds \in Seq(D)
  BY <1>11
<1>17. C = {0, 1} \X (LittleLoads(p) \cup {NoK})
  BY DEF C, some, LittleLoads
<1> QED BY <1>11, <1>12, <1>13, <1>14, <1>15, <1>16, <1>17

LEMMA ConditionsCount ==
    ASSUME NEW p, Len(p.little) \in Nat
    PROVE  LET conds == e2_conditions(p) IN
           /\ IsFiniteSet(Range(conds)) /\ Cardinality(Range(conds)) = Len(conds)
           /\ Len(conds) \in Nat /\ \E C : conds \in Seq(C)
           /\ \A c \in Range(conds) : c = <<c[1], c[2]>>
  BY ConditionsAre

LEMMA E2Count ==
    ASSUME NEW topo, NEW p, Len(p.little) \in Nat
    PROVE  LET arms == e2_arms(topo, p) IN
           /\ ArmsOf(arms, "e2-coupling")
           /\ Len(e2_conditions(p)) \in Nat
           /\ IsFiniteSet(ArmNames(arms))
           /\ Cardinality(ArmNames(arms)) = 2 * Len(e2_conditions(p))
<1> DEFINE conds == e2_conditions(p)
           R == Range(conds)
           arm(name, epp, c) == Arm("e2-coupling", <<name, c[1], c[2]>>, epp, NoFactor, name, NoFactor)
           pe == Partitioned(topo, p)
           fe == Everywhere(topo, EPP_FLAT)
           f == [i \in DOMAIN conds |-> arm("partitioned", pe, conds[i])]
           g == [i \in DOMAIN conds |-> arm("flat", fe, conds[i])]
           A == {arm("partitioned", pe, c) : c \in R} \cup {arm("flat", fe, c) : c \in R}
           arms == e2_arms(topo, p)
           Q == {"partitioned", "flat"} \X R
           h == [x \in Q |-> <<x[1], x[2][1], x[2][2]>>]
<1>1. /\ IsFiniteSet(R) /\ Cardinality(R) = Len(conds) /\ Len(conds) \in Nat
      /\ \A c \in R : c = <<c[1], c[2]>>
  BY ConditionsCount
<1>2. DOMAIN conds = 1 .. Len(conds)
  <2>1. PICK C : conds \in Seq(C)
    BY ConditionsCount
  <2> HIDE DEF conds
  <2> QED BY <2>1
<1>3. arms = f \o g
  BY DEF e2_arms
<1>4. ASSUME NEW name, NEW epp, NEW c
      PROVE  /\ {"experiment", "arm"} \subseteq DOMAIN arm(name, epp, c)
             /\ arm(name, epp, c).experiment = "e2-coupling"
             /\ arm(name, epp, c).arm = <<name, c[1], c[2]>>
  BY DEF Arm
<1> HIDE DEF conds, arm, pe, fe, arms
<1>5. /\ f \in [1 .. Len(conds) -> A] /\ Range(f) = {arm("partitioned", pe, c) : c \in R}
      /\ g \in [1 .. Len(conds) -> A] /\ Range(g) = {arm("flat", fe, c) : c \in R}
  BY <1>2 DEF Range
<1> HIDE DEF f, g
<1>6. f \in Seq(A) /\ g \in Seq(A)
  <2> HIDE DEF A
  <2> QED BY <1>1, <1>5, FunctionIsSeq
<1>7. Range(arms) = A
  <2>1. Range(f \o g) = Range(f) \cup Range(g)
    <3> HIDE DEF A
    <3> QED BY <1>6, ConcatRange
  <2> QED BY <1>3, <1>5, <2>1
<1>8. ArmsOf(arms, "e2-coupling")
  BY <1>4, <1>7 DEF ArmsOf
<1>9. ArmNames(arms) = {<<"partitioned", c[1], c[2]>> : c \in R} \cup {<<"flat", c[1], c[2]>> : c \in R}
  <2>1. ASSUME NEW m \in ArmNames(arms)
        PROVE  m \in {<<"partitioned", c[1], c[2]>> : c \in R} \cup {<<"flat", c[1], c[2]>> : c \in R}
    <3>1. PICK a \in A : m = a.arm
      BY <1>7, <2>1 DEF ArmNames
    <3>2. PICK c \in R : a = arm("partitioned", pe, c) \/ a = arm("flat", fe, c)
      BY <3>1
    <3>3. m = <<"partitioned", c[1], c[2]>> \/ m = <<"flat", c[1], c[2]>>
      BY <1>4, <3>1, <3>2
    <3> HIDE DEF R, A
    <3> QED BY <3>3
  <2>2. ASSUME NEW c \in R
        PROVE  <<"partitioned", c[1], c[2]>> \in ArmNames(arms) /\ <<"flat", c[1], c[2]>> \in ArmNames(arms)
    <3>1. arm("partitioned", pe, c) \in A /\ arm("flat", fe, c) \in A
      OBVIOUS
    <3> HIDE DEF A
    <3>2. arm("partitioned", pe, c).arm \in ArmNames(arms) /\ arm("flat", fe, c).arm \in ArmNames(arms)
      BY <1>7, <3>1 DEF ArmNames
    <3> QED BY <1>4, <3>2
  <2> QED BY <2>1, <2>2
<1> HIDE DEF R, A
<1>10. ArmNames(arms) = {h[x] : x \in Q}
  <2>1. ASSUME NEW name \in {"partitioned", "flat"}, NEW c \in R
        PROVE  <<name, c>> \in Q /\ h[<<name, c>>] = <<name, c[1], c[2]>>
    OBVIOUS
  <2>2. ASSUME NEW x \in Q
        PROVE  x[1] \in {"partitioned", "flat"} /\ x[2] \in R /\ h[x] = <<x[1], x[2][1], x[2][2]>>
    OBVIOUS
  <2> HIDE DEF h, Q
  <2>3. ASSUME NEW m \in ArmNames(arms) PROVE m \in {h[x] : x \in Q}
    <3>1. PICK name \in {"partitioned", "flat"}, c \in R : m = <<name, c[1], c[2]>>
      BY <1>9, <2>3
    <3> QED BY <2>1, <3>1
  <2>4. ASSUME NEW x \in Q PROVE h[x] \in ArmNames(arms)
    BY <1>9, <2>2
  <2> QED BY <2>3, <2>4
<1>11. \A x, y \in Q : h[x] = h[y] => x = y
  <2> SUFFICES ASSUME NEW x \in Q, NEW y \in Q, h[x] = h[y] PROVE x = y
    OBVIOUS
  <2>1. x[1] = y[1] /\ x[2][1] = y[2][1] /\ x[2][2] = y[2][2]
    OBVIOUS
  <2>2. x = <<x[1], x[2]>> /\ y = <<y[1], y[2]>> /\ x[2] \in R /\ y[2] \in R
    OBVIOUS
  <2>3. x[2] = <<x[2][1], x[2][2]>> /\ y[2] = <<y[2][1], y[2][2]>>
    BY <1>1, <2>2
  <2> QED BY ONLY <2>1, <2>2, <2>3
<1>12. IsFiniteSet(Q) /\ Cardinality(Q) = 2 * Len(conds)
  <2> DEFINE P == {"partitioned", "flat"}
  <2>1. IsFiniteSet(P) /\ Cardinality(P) = 2
    BY TwoCount
  <2>2. Q = P \X R
    OBVIOUS
  <2> HIDE DEF P, Q
  <2>3. IsFiniteSet(P \X R) /\ Cardinality(P \X R) = Cardinality(P) * Cardinality(R)
    BY <1>1, <2>1, FS_Product
  <2> QED BY <1>1, <2>1, <2>2, <2>3
<1>13. h = [x \in Q |-> h[x]] /\ DOMAIN h = Q
  OBVIOUS
<1> HIDE DEF h, Q
<1>14. IsFiniteSet(ArmNames(arms)) /\ Cardinality(ArmNames(arms)) = Cardinality(Q)
  BY ONLY <1>10, <1>11, <1>12, <1>13, ImageIs
<1> QED BY <1>1, <1>8, <1>12, <1>14 DEF arms, conds

(* The files of reps repetitions of the experiment e with k arms.          *)
FilesOfArms(files, e, k, reps) ==
    \E B : files = FilesOf(e, B, reps) /\ IsFiniteSet(B) /\ Cardinality(B) = k

(* Every experiment has as many arms as plan() says.                       *)
LEMMA PartCount ==
    ASSUME NEW reps \in Nat \ {0}, NEW topo, NEW p, Len(p.little) \in Nat
    PROVE  LET n == Len(e2_conditions(p)) IN
           /\ n \in Nat
           /\ FilesOfArms(NamesIn(InOrder(e1_arms(topo, p), reps)), "e1-rail", 4, reps)
           /\ FilesOfArms(NamesIn(InOrder(e1b_arms(topo, p), reps)), "e1b-poison", 4, reps)
           /\ FilesOfArms(NamesIn(InOrder(e2_arms(topo, p), reps)), "e2-coupling", 2 * n, reps)
           /\ FilesOfArms(NamesIn(Shuffled(e3_arms(topo, p), reps)), "e3-ab", 5, reps)
           /\ Len(E3_ARMS) = 5
<1> DEFINE a1 == e1_arms(topo, p)
           a2 == e1b_arms(topo, p)
           a3 == e2_arms(topo, p)
           a4 == e3_arms(topo, p)
           n == Len(e2_conditions(p))
<1>1. /\ \E A : a1 \in Seq(A)
      /\ \E A : a2 \in Seq(A)
      /\ \E A : a3 \in Seq(A)
  BY E1Arms, E1bArms, E2Arms
<1>2. /\ ArmsOf(a1, "e1-rail") /\ IsFiniteSet(ArmNames(a1)) /\ Cardinality(ArmNames(a1)) = 4
  BY E1Count
<1>3. /\ ArmsOf(a2, "e1b-poison") /\ IsFiniteSet(ArmNames(a2)) /\ Cardinality(ArmNames(a2)) = 4
  BY E1bCount
<1>4. /\ ArmsOf(a3, "e2-coupling") /\ IsFiniteSet(ArmNames(a3)) /\ n \in Nat
      /\ Cardinality(ArmNames(a3)) = 2 * n
  BY E2Count
<1>5. /\ ArmsOf(a4, "e3-ab") /\ IsFiniteSet(ArmNames(a4)) /\ Cardinality(ArmNames(a4)) = 5
      /\ Len(E3_ARMS) = 5
  BY E3Count
<1> HIDE DEF a1, a2, a3, a4, n
<1>6. NamesIn(InOrder(a1, reps)) = FilesOf("e1-rail", ArmNames(a1), reps)
  BY <1>1, <1>2, InOrderNames
<1>7. NamesIn(InOrder(a2, reps)) = FilesOf("e1b-poison", ArmNames(a2), reps)
  BY <1>1, <1>3, InOrderNames
<1>8. NamesIn(InOrder(a3, reps)) = FilesOf("e2-coupling", ArmNames(a3), reps)
  BY <1>1, <1>4, InOrderNames
<1>9. NamesIn(Shuffled(a4, reps)) = FilesOf("e3-ab", ArmNames(a4), reps)
  BY <1>5, ShuffledNames
<1>10. /\ FilesOfArms(NamesIn(InOrder(a1, reps)), "e1-rail", 4, reps)
       /\ FilesOfArms(NamesIn(InOrder(a2, reps)), "e1b-poison", 4, reps)
  BY <1>2, <1>3, <1>6, <1>7 DEF FilesOfArms
<1>11. /\ FilesOfArms(NamesIn(InOrder(a3, reps)), "e2-coupling", 2 * n, reps)
       /\ FilesOfArms(NamesIn(Shuffled(a4, reps)), "e3-ab", 5, reps)
  BY <1>4, <1>5, <1>8, <1>9 DEF FilesOfArms
<1> QED BY <1>4, <1>5, <1>10, <1>11 DEF a1, a2, a3, a4, n

(* Two sets of files of different experiments.                             *)
LEMMA FilesApart ==
    ASSUME NEW d, NEW e, d # e, NEW B, NEW C, NEW reps
    PROVE  FilesOf(d, B, reps) \cap FilesOf(e, C, reps) = {}
<1> SUFFICES ASSUME NEW n \in FilesOf(d, B, reps), n \in FilesOf(e, C, reps) PROVE FALSE
  OBVIOUS
<1>1. n[1] = d
  BY DEF FilesOf
<1>2. n[1] = e
  BY DEF FilesOf
<1> QED BY <1>1, <1>2

LEMMA ApartCount ==
    ASSUME NEW Q, NEW T, IsFiniteSet(Q), IsFiniteSet(T), Q \cap T = {}
    PROVE  IsFiniteSet(Q \cup T) /\ Cardinality(Q \cup T) = Cardinality(Q) + Cardinality(T)
<1>1. IsFiniteSet(Q \cup T)
  BY FS_Union
<1>2. Cardinality(Q \cup T) = Cardinality(Q) + Cardinality(T) - Cardinality(Q \cap T)
  BY FS_Union
<1>3. Cardinality(Q \cap T) = 0 /\ Cardinality(Q) \in Nat /\ Cardinality(T) \in Nat
  BY FS_EmptySet, FS_CardinalityType
<1> QED BY <1>1, <1>2, <1>3

LEMMA FourApart ==
    ASSUME NEW Q, NEW T, NEW U, NEW V,
           IsFiniteSet(Q), IsFiniteSet(T), IsFiniteSet(U), IsFiniteSet(V),
           Q \cap T = {}, Q \cap U = {}, T \cap U = {}, Q \cap V = {}, T \cap V = {}, U \cap V = {}
    PROVE  Cardinality(Q \cup T \cup U \cup V) =
             Cardinality(Q) + Cardinality(T) + Cardinality(U) + Cardinality(V)
<1> DEFINE QT == Q \cup T
           QTU == QT \cup U
<1>1. IsFiniteSet(QT) /\ Cardinality(QT) = Cardinality(Q) + Cardinality(T)
  BY ApartCount
<1>2. QT \cap U = {} /\ QTU \cap V = {}
  OBVIOUS
<1>3. QTU \cup V = Q \cup T \cup U \cup V
  OBVIOUS
<1> HIDE DEF QT
<1>4. IsFiniteSet(QTU) /\ Cardinality(QTU) = Cardinality(QT) + Cardinality(U)
  BY <1>1, <1>2, ApartCount
<1> HIDE DEF QTU
<1>5. Cardinality(QTU \cup V) = Cardinality(QTU) + Cardinality(V)
  BY <1>2, <1>4, ApartCount
<1> QED BY <1>1, <1>3, <1>4, <1>5

(* The files of a session are those of the experiments that it wants.      *)
LEMMA FilesOfSession ==
    ASSUME NEW e, NEW reps \in Nat \ {0}, NEW topo, NEW p
    PROVE  LET some(x, names) == IF Wants(e, x) THEN names ELSE {} IN
           NamesIn(Runs(e, reps, topo, p)) =
               some("e1-rail", NamesIn(InOrder(e1_arms(topo, p), reps)))
                 \cup some("e1b-poison", NamesIn(InOrder(e1b_arms(topo, p), reps)))
                 \cup some("e2-coupling", NamesIn(InOrder(e2_arms(topo, p), reps)))
                 \cup some("e3-ab", NamesIn(Shuffled(e3_arms(topo, p), reps)))
<1>1. PICK A1 : e1_arms(topo, p) \in Seq(A1) /\ e1_arms(topo, p) # <<>>
  BY E1Arms
<1>2. PICK A2 : e1b_arms(topo, p) \in Seq(A2) /\ e1b_arms(topo, p) # <<>>
  BY E1bArms
<1>3. PICK A3 : e2_arms(topo, p) \in Seq(A3) /\ e2_arms(topo, p) # <<>>
  BY E2Arms
<1>4. PICK A4 : e3_arms(topo, p) \in Seq(A4) /\ e3_arms(topo, p) # <<>>
  BY E3Arms
<1> DEFINE T == Groups(A1) \cup Groups(A2) \cup Groups(A3) \cup Groups(A4)
           g1 == InOrder(e1_arms(topo, p), reps)
           g2 == InOrder(e1b_arms(topo, p), reps)
           g3 == InOrder(e2_arms(topo, p), reps)
           g4 == Shuffled(e3_arms(topo, p), reps)
           p1 == IF Wants(e, "e1-rail") THEN g1 ELSE <<>>
           p2 == IF Wants(e, "e1b-poison") THEN g2 ELSE <<>>
           p3 == IF Wants(e, "e2-coupling") THEN g3 ELSE <<>>
           p4 == IF Wants(e, "e3-ab") THEN g4 ELSE <<>>
<1>5. /\ g1 \in Seq(Groups(A1)) /\ g2 \in Seq(Groups(A2))
      /\ g3 \in Seq(Groups(A3)) /\ g4 \in Seq(Groups(A4))
  BY <1>1, <1>2, <1>3, <1>4, InOrderIs, ShuffledIs
<1>6. Runs(e, reps, topo, p) = p1 \o p2 \o p3 \o p4
  BY DEF Runs
<1> HIDE DEF g1, g2, g3, g4
<1>7. g1 \in Seq(T) /\ g2 \in Seq(T) /\ g3 \in Seq(T) /\ g4 \in Seq(T)
  BY <1>5
<1> HIDE DEF T
<1>8. p1 \in Seq(T) /\ p2 \in Seq(T) /\ p3 \in Seq(T) /\ p4 \in Seq(T)
  BY <1>7
<1>9. /\ NamesIn(p1) = IF Wants(e, "e1-rail") THEN NamesIn(g1) ELSE {}
      /\ NamesIn(p2) = IF Wants(e, "e1b-poison") THEN NamesIn(g2) ELSE {}
      /\ NamesIn(p3) = IF Wants(e, "e2-coupling") THEN NamesIn(g3) ELSE {}
      /\ NamesIn(p4) = IF Wants(e, "e3-ab") THEN NamesIn(g4) ELSE {}
  BY NamesEmpty
<1> HIDE DEF p1, p2, p3, p4
<1> DEFINE q == p1 \o p2
           r == q \o p3
<1>10. q \in Seq(T) /\ r \in Seq(T)
  BY <1>8, ConcatLen
<1>11. NamesIn(q) = NamesIn(p1) \cup NamesIn(p2)
  BY <1>8, NamesConcat
<1>12. r = q \o p3 /\ Runs(e, reps, topo, p) = r \o p4
  BY <1>6
<1> HIDE DEF q, r
<1>13. NamesIn(q \o p3) = NamesIn(q) \cup NamesIn(p3)
  BY <1>8, <1>10, NamesConcat
<1>14. NamesIn(r \o p4) = NamesIn(r) \cup NamesIn(p4)
  BY <1>8, <1>10, NamesConcat
<1> QED BY <1>9, <1>11, <1>12, <1>13, <1>14 DEF g1, g2, g3, g4

(* print_plan() announces as many runs as the session has files.           *)
LEMMA Announced ==
    ASSUME NEW e, e \in {"e1-rail", "e1b-poison", "e2-coupling", "e3-ab", "all"},
           NEW reps \in Nat \ {0}, NEW topo, NEW p, Len(p.little) \in Nat
    PROVE  Cardinality(NamesIn(Runs(e, reps, topo, p))) = TotalRuns(e, reps, p)
<1> DEFINE F == NamesIn(Runs(e, reps, topo, p))
           n == Len(e2_conditions(p))
           x == 4 * reps
           y == 2 * n * reps
           z == 5 * reps
           M1 == NamesIn(InOrder(e1_arms(topo, p), reps))
           M2 == NamesIn(InOrder(e1b_arms(topo, p), reps))
           M3 == NamesIn(InOrder(e2_arms(topo, p), reps))
           M4 == NamesIn(Shuffled(e3_arms(topo, p), reps))
           D == {d \in {"e1-rail", "e1b-poison", "e2-coupling", "e3-ab"} : Wants(e, d)}
           runs == [d \in D |-> IF d = "e2-coupling" THEN y ELSE IF d = "e3-ab" THEN z ELSE x]
<1>1. F = (IF Wants(e, "e1-rail") THEN M1 ELSE {}) \cup (IF Wants(e, "e1b-poison") THEN M2 ELSE {})
          \cup (IF Wants(e, "e2-coupling") THEN M3 ELSE {}) \cup (IF Wants(e, "e3-ab") THEN M4 ELSE {})
  BY FilesOfSession
<1>2. /\ n \in Nat /\ Len(E3_ARMS) = 5
      /\ FilesOfArms(M1, "e1-rail", 4, reps) /\ FilesOfArms(M2, "e1b-poison", 4, reps)
      /\ FilesOfArms(M3, "e2-coupling", 2 * n, reps) /\ FilesOfArms(M4, "e3-ab", 5, reps)
  BY PartCount
<1>3. TotalRuns(e, reps, p) = SumFunction(runs)
  <2> DEFINE arms == plan(e, p)
  <2>1. /\ DOMAIN arms = D
        /\ \A d \in D : arms[d] = IF d = "e2-coupling" THEN 2 * n ELSE IF d = "e3-ab" THEN 5 ELSE 4
    BY <1>2 DEF plan
  <2>2. TotalRuns(e, reps, p) = SumFunction([d \in DOMAIN arms |-> arms[d] * reps])
    BY DEF TotalRuns
  <2> HIDE DEF arms
  <2>3. [d \in DOMAIN arms |-> arms[d] * reps] = runs
    BY <2>1
  <2> QED BY <2>2, <2>3
<1> HIDE DEF M1, M2, M3, M4, n, F
<1>4. x \in Nat /\ y \in Nat /\ z \in Nat
  BY <1>2
<1>5. /\ IsFiniteSet(M1) /\ Cardinality(M1) = x /\ IsFiniteSet(M2) /\ Cardinality(M2) = x
      /\ IsFiniteSet(M3) /\ Cardinality(M3) = y /\ IsFiniteSet(M4) /\ Cardinality(M4) = z
  <2>1. PICK B : M1 = FilesOf("e1-rail", B, reps) /\ IsFiniteSet(B) /\ Cardinality(B) = 4
    BY <1>2 DEF FilesOfArms
  <2>2. PICK C : M2 = FilesOf("e1b-poison", C, reps) /\ IsFiniteSet(C) /\ Cardinality(C) = 4
    BY <1>2 DEF FilesOfArms
  <2>3. PICK G : M3 = FilesOf("e2-coupling", G, reps) /\ IsFiniteSet(G) /\ Cardinality(G) = 2 * n
    BY <1>2 DEF FilesOfArms
  <2>4. PICK H : M4 = FilesOf("e3-ab", H, reps) /\ IsFiniteSet(H) /\ Cardinality(H) = 5
    BY <1>2 DEF FilesOfArms
  <2>5. IsFiniteSet(M1) /\ Cardinality(M1) = x /\ IsFiniteSet(M2) /\ Cardinality(M2) = x
    BY <2>1, <2>2, FilesCount
  <2>6. IsFiniteSet(M3) /\ Cardinality(M3) = y
    BY <2>3, FilesCount
  <2>7. IsFiniteSet(M4) /\ Cardinality(M4) = z
    BY <2>4, FilesCount
  <2> QED BY <2>5, <2>6, <2>7
<1> HIDE DEF x, y, z
<1>6. CASE e \in {"e1-rail", "e1b-poison"}
  <2>1. D = {e} /\ Cardinality(F) = x
    BY <1>1, <1>5, <1>6 DEF Wants
  <2>2. runs \in [{e} -> Nat] /\ runs[e] = x
    BY <1>4, <1>6, <2>1
  <2> HIDE DEF runs, D
  <2> QED BY <1>3, <2>1, <2>2, SumOne DEF F
<1>7. CASE e = "e2-coupling"
  <2>1. D = {e} /\ Cardinality(F) = y
    BY <1>1, <1>5, <1>7 DEF Wants
  <2>2. runs \in [{e} -> Nat] /\ runs[e] = y
    BY <1>4, <1>7, <2>1
  <2> HIDE DEF runs, D
  <2> QED BY <1>3, <2>1, <2>2, SumOne DEF F
<1>8. CASE e = "e3-ab"
  <2>1. D = {e} /\ Cardinality(F) = z
    BY <1>1, <1>5, <1>8 DEF Wants
  <2>2. runs \in [{e} -> Nat] /\ runs[e] = z
    BY <1>4, <1>8, <2>1
  <2> HIDE DEF runs, D
  <2> QED BY <1>3, <2>1, <2>2, SumOne DEF F
<1>9. CASE e = "all"
  <2>1. D = {"e1-rail", "e1b-poison", "e2-coupling", "e3-ab"} /\ F = M1 \cup M2 \cup M3 \cup M4
    BY <1>1, <1>9 DEF Wants
  <2>2. /\ runs \in [{"e1-rail", "e1b-poison", "e2-coupling", "e3-ab"} -> Nat]
        /\ runs["e1-rail"] = x /\ runs["e1b-poison"] = x
        /\ runs["e2-coupling"] = y /\ runs["e3-ab"] = z
    BY <1>4, <2>1
  <2> HIDE DEF runs, D
  <2>3. SumFunction(runs) = x + x + y + z
    <3>1. runs \in [D -> Nat] /\ AreFour(D, "e1-rail", "e1b-poison", "e2-coupling", "e3-ab")
      BY <2>1, <2>2 DEF AreFour
    <3>2. SumFunction(runs) = runs["e1-rail"] + runs["e1b-poison"] + runs["e2-coupling"] + runs["e3-ab"]
      BY ONLY <3>1, SumFour
    <3> QED BY <2>2, <3>2
  <2>4. /\ M1 \cap M2 = {} /\ M1 \cap M3 = {} /\ M2 \cap M3 = {}
        /\ M1 \cap M4 = {} /\ M2 \cap M4 = {} /\ M3 \cap M4 = {}
    BY <1>2, FilesApart DEF FilesOfArms
  <2>5. Cardinality(M1 \cup M2 \cup M3 \cup M4) = x + x + y + z
    <3>1. IsFiniteSet(M1) /\ IsFiniteSet(M2) /\ IsFiniteSet(M3) /\ IsFiniteSet(M4)
      BY ONLY <1>5
    <3>2. Cardinality(M1 \cup M2 \cup M3 \cup M4) =
            Cardinality(M1) + Cardinality(M2) + Cardinality(M3) + Cardinality(M4)
      BY ONLY <3>1, <2>4, FourApart
    <3> QED BY ONLY <1>4, <1>5, <3>2
  <2> QED BY <1>3, <2>1, <2>3, <2>5 DEF F
<1> QED BY <1>6, <1>7, <1>8, <1>9

(* The little CPUs of a partition are a sequence.                          *)
LEMMA LittleLength ==
    ASSUME NEW topo, MachineOK(topo), NEW big
    PROVE  Len(Partition(topo, big).little) \in Nat
<1>1. PICK Q \in SUBSET DOMAIN topo : Partition(topo, big).little = Sorted(Q)
  <2>1. CASE big = <<>>
    <3> DEFINE cores == Sorted(Range(topo))
               big_cores == {cores[i] : i \in 1 .. Max({1, Len(cores) \div 2})}
               L == {c \in DOMAIN topo : topo[c] \notin big_cores}
    <3>1. Partition(topo, big).little = Sorted(L)
      BY <2>1 DEF Partition, default_partition
    <3>2. L \in SUBSET DOMAIN topo
      OBVIOUS
    <3> HIDE DEF L
    <3> QED BY <3>1, <3>2
  <2>2. CASE big # <<>>
    <3> DEFINE L == DOMAIN topo \ Range(parse_cpulist(big))
    <3>1. Partition(topo, big).little = Sorted(L)
      BY <2>2 DEF Partition
    <3>2. L \in SUBSET DOMAIN topo
      OBVIOUS
    <3> HIDE DEF L
    <3> QED BY <3>1, <3>2
  <2> QED BY <2>1, <2>2
<1>2. IsFiniteSet(Q) /\ Q \in SUBSET Int
  BY CpuSets
<1> DEFINE n == Cardinality(Q)
<1>3. n \in Nat /\ Sorted(Q) \in [1 .. n -> Q]
  BY <1>2, SortedIs, FS_CardinalityType
<1> HIDE DEF n
<1>4. Len(Sorted(Q)) = n
  BY <1>3, FunctionIsSeq
<1> QED BY <1>1, <1>3, <1>4

(* What is written and what is still to be done are the session's files.   *)
PlanKept ==
    ended \in {"running", "returned"} =>
        written \cup NamesIn(todo) =
            NamesIn(Runs(session.experiment, session.reps, session.topo, PartitionOf(session)))

LEMMA AfterNames ==
    ASSUME NEW T, todo \in Seq(T), todo # <<>>, NEW run \in Head(todo)
    PROVE  {NameOf(run)} \cup NamesIn(After(run)) = NamesIn(todo)
<1> DEFINE rest == Tail(todo)
           group == Head(todo)
           left == group \ {run}
<1>1. group \in T /\ rest \in Seq(T) /\ <<group>> \in Seq(T) /\ todo = <<group>> \o rest
  OBVIOUS
<1>2. ASSUME NEW x PROVE NamesIn(<<x>>) = {NameOf(r) : r \in x}
  <2>1. DOMAIN <<x>> = {1} /\ <<x>>[1] = x
    OBVIOUS
  <2>2. Range(<<x>>) = {x}
    BY <2>1 DEF Range
  <2> QED BY <2>2 DEF NamesIn
<1> HIDE DEF rest, group
<1>3. NamesIn(todo) = {NameOf(r) : r \in group} \cup NamesIn(rest)
  <2> DEFINE one == <<group>>
  <2>1. one \in Seq(T) /\ rest \in Seq(T) /\ todo = one \o rest
    BY <1>1
  <2>2. NamesIn(one) = {NameOf(r) : r \in group}
    BY <1>2
  <2> HIDE DEF one
  <2>3. NamesIn(one \o rest) = NamesIn(one) \cup NamesIn(rest)
    BY ONLY <2>1, NamesConcat
  <2> QED BY ONLY <2>1, <2>2, <2>3
<1>4. run \in group /\ After(run) = IF group = {run} THEN rest ELSE <<left>> \o rest
  BY DEF After, group, rest
<1>5. CASE group = {run}
  BY <1>3, <1>4, <1>5
<1>6. CASE group # {run}
  <2> DEFINE U == T \cup {left}
  <2>1. left \in U /\ rest \in Seq(U)
    BY <1>1
  <2>2. {NameOf(run)} \cup {NameOf(r) : r \in left} = {NameOf(r) : r \in group}
    BY <1>4
  <2> HIDE DEF left, U
  <2> DEFINE one == <<left>>
  <2>3. one \in Seq(U)
    BY <2>1
  <2>4. NamesIn(one) = {NameOf(r) : r \in left}
    BY <1>2
  <2>5. After(run) = one \o rest
    BY <1>4, <1>6
  <2> HIDE DEF one
  <2>6. NamesIn(one \o rest) = NamesIn(one) \cup NamesIn(rest)
    BY ONLY <2>1, <2>3, NamesConcat
  <2> QED BY ONLY <1>3, <2>2, <2>4, <2>5, <2>6
<1> QED BY <1>5, <1>6

LEMMA PlanKeptStep ==
    ASSUME CampTypeInv, PlanKept, [Next]_vars
    PROVE  PlanKept'
<1>1. CASE StartSession
  <2>1. /\ written' = {} /\ session' = Head(script.sessions)
        /\ \/ ended' \in {"refused", "raised"}
           \/ todo' = Runs(session'.experiment, session'.reps, session'.topo, PartitionOf(session'))
    BY <1>1 DEF StartSession
  <2> QED BY <2>1 DEF PlanKept, NamesIn, PartitionOf
<1>2. ASSUME ended = "running", NEW run \in Head(todo), NEW m, NEW built, Measure(run, m, built)
      PROVE  PlanKept'
  <2>1. PICK T : todo \in Seq(T)
    BY DEF CampTypeInv, LeftOK
  <2>2. todo # <<>>
    BY <1>2 DEF CampTypeInv, LeftOK
  <2>3. {NameOf(run)} \cup NamesIn(After(run)) = NamesIn(todo)
    BY <2>1, <2>2, AfterNames
  <2>4. written' = written \cup {NameOf(run)} /\ todo' = After(run) /\ session' = session
    BY <1>2 DEF Measure
  <2>5. NamesIn(todo)' = NamesIn(After(run))
    BY <2>4 DEF NamesIn
  <2>6. written' \cup NamesIn(todo)' = written \cup NamesIn(todo)
    BY <2>3, <2>4, <2>5
  <2> QED BY <1>2, <2>4, <2>6 DEF PlanKept, PartitionOf
<1>3. CASE MeasureUsual \/ MeasureUnusual
  BY <1>2, <1>3 DEF MeasureUsual, MeasureUnusual
<1>4. CASE Interrupt
  BY <1>4 DEF Interrupt, PlanKept
<1>5. CASE CallWorkload \/ GenerateWorkload \/ KillWorkload \/ Analyze \/ UNCHANGED vars
  <2>1. UNCHANGED svars
    BY <1>5 DEF CallWorkload, GenerateWorkload, KillWorkload, Analyze, vars
  <2> QED BY <2>1 DEF svars, PlanKept, NamesIn, PartitionOf
<1> QED BY <1>1, <1>3, <1>4, <1>5 DEF Next

(* A session that returned has written as many files as print_plan() had   *)
(* announced before it: no two runs of a session have the same name, and   *)
(* the count that plan() makes of the arms is the one of go().             *)
THEOREM PlanIsKept == Spec => []PlanIsRun
<1>1. ASSUME CampTypeInv, SessionKnown, PlanKept PROVE PlanIsRun
  <2> SUFFICES ASSUME ended = "returned"
               PROVE  Cardinality(written) =
                        TotalRuns(session.experiment, session.reps, PartitionOf(session))
    BY DEF PlanIsRun
  <2>1. session \in Sessions
    BY <1>1 DEF SessionKnown
  <2>2. todo = <<>>
    BY <1>1 DEF CampTypeInv, LeftOK
  <2>3. written = NamesIn(Runs(session.experiment, session.reps, session.topo, PartitionOf(session)))
    BY <1>1, <2>2, NamesEmpty DEF PlanKept
  <2>4. MachineOK(session.topo)
    BY <2>1, TopologyAssumption DEF MachineOK
  <2>5. Len(PartitionOf(session).little) \in Nat
    BY <2>4, LittleLength DEF PartitionOf
  <2>6. /\ session.experiment \in {"e1-rail", "e1b-poison", "e2-coupling", "e3-ab", "all"}
        /\ session.reps \in Nat \ {0}
    BY <2>1, SessionAssumption
  <2> QED BY <2>3, <2>5, <2>6, Announced
<1>2. Init => PlanKept /\ SessionKnown
  BY DEF Init, PlanKept, SessionKnown
<1> QED BY <1>1, <1>2, PlanKeptStep, SessionKnownStep, CampTypeInvHolds, PTL DEF Spec

-----------------------------------------------------------------------------
(* The rounds of e3-ab                                                     *)

Named(i) == <<E3_ARMS[i][1], 0, NoK>>

(* The file of an arm's first repetition.                                  *)
Zero(i) == <<"e3-ab", Named(i), 0>>

(* A run, or its record, with the factors of its arm.                      *)
OfE3(r) == \E i \in DOMAIN E3_ARMS :
    r.arm = Named(i) /\ r.sched = E3_ARMS[i][2] /\ r.epp_mode = E3_ARMS[i][3]

(* There is a file of the first repetition of every arm, or one of the     *)
(* first k groups of q makes it.                                           *)
ZerosBy(q, k, files) ==
    \A i \in DOMAIN E3_ARMS :
        Zero(i) \in files \/ \E j \in DOMAIN q : j <= k /\ Zero(i) \in {NameOf(x) : x \in q[j]}

(* The runs of e3-ab in q are of its arms, and all first repetitions come  *)
(* before any other.                                                       *)
RoundsOK(q, files) ==
    \A k \in DOMAIN q : \A run \in q[k] : run.experiment = "e3-ab" =>
        OfE3(run) /\ (run.rep # 0 => ZerosBy(q, k - 1, files))

(* No other repetition has a file before every first one has.              *)
DiskRounds ==
    \A n \in DOMAIN disk : n[1] = "e3-ab" =>
        /\ disk[n] # Damaged => OfE3(disk[n])
        /\ n[3] # 0 => \A i \in DOMAIN E3_ARMS : Zero(i) \in DOMAIN disk

RoundsInv == RoundsOK(todo, DOMAIN disk) /\ DiskRounds

(* A run of the first group is taken away, and its file is there.          *)
LEMMA RoundsAfter ==
    ASSUME NEW T, todo \in Seq(T), todo # <<>>, NEW run \in Head(todo), NEW files,
           RoundsOK(todo, files)
    PROVE  RoundsOK(After(run), files \cup {NameOf(run)})
<1> DEFINE q == After(run)
           left == Head(todo) \ {run}
           n == Len(todo)
           more == files \cup {NameOf(run)}
<1>1. n \in Nat /\ n > 0 /\ DOMAIN todo = 1 .. n /\ Head(todo) = todo[1]
  OBVIOUS
<1>2. CASE Head(todo) = {run}
  <2>1. DOMAIN q = 1 .. n - 1 /\ \A k \in 1 .. n - 1 : q[k] = todo[k + 1]
    BY <1>2 DEF After
  <2> SUFFICES ASSUME NEW k \in 1 .. n - 1, NEW other \in q[k], other.experiment = "e3-ab"
               PROVE  OfE3(other) /\ (other.rep # 0 => ZerosBy(q, k - 1, more))
    BY <2>1 DEF RoundsOK
  <2> HIDE DEF q
  <2>2. k + 1 \in DOMAIN todo /\ other \in todo[k + 1]
    BY <1>1, <2>1
  <2>3. OfE3(other) /\ (other.rep # 0 => ZerosBy(todo, k + 1 - 1, files))
    BY <2>2 DEF RoundsOK
  <2>4. ASSUME ZerosBy(todo, k + 1 - 1, files), NEW i \in DOMAIN E3_ARMS, Zero(i) \notin more
        PROVE  \E j \in DOMAIN q : j <= k - 1 /\ Zero(i) \in {NameOf(x) : x \in q[j]}
    <3>1. PICK j \in DOMAIN todo : j <= k /\ Zero(i) \in {NameOf(x) : x \in todo[j]}
      BY <2>4 DEF ZerosBy
    <3>2. j # 1
      BY <1>1, <1>2, <2>4, <3>1
    <3>3. j - 1 \in DOMAIN q /\ j - 1 <= k - 1 /\ q[j - 1] = todo[j]
      BY <1>1, <2>1, <3>1, <3>2
    <3> QED BY <3>1, <3>3
  <2> QED BY <2>3, <2>4 DEF ZerosBy
<1>3. CASE Head(todo) # {run}
  <2>1. DOMAIN q = 1 .. n /\ q[1] = left /\ \A k \in 2 .. n : q[k] = todo[k]
    <3>1. q = <<left>> \o Tail(todo)
      BY <1>3 DEF After
    <3>2. Len(<<left>>) = 1 /\ <<left>>[1] = left /\ Tail(todo) \in Seq(T) /\ Len(Tail(todo)) = n - 1
      OBVIOUS
    <3>3. <<left>> \in Seq(T \cup {left}) /\ Tail(todo) \in Seq(T \cup {left})
      OBVIOUS
    <3>4. \A k \in 2 .. n : Tail(todo)[k - 1] = todo[k]
      OBVIOUS
    <3> HIDE DEF left
    <3> QED BY <1>1, <3>1, <3>2, <3>3, <3>4
  <2> HIDE DEF q
  <2>2. \A k \in DOMAIN q : k \in DOMAIN todo /\ q[k] \subseteq todo[k]
    BY <1>1, <2>1
  <2>3. \A k \in DOMAIN todo : k \in DOMAIN q /\ todo[k] \subseteq q[k] \cup {run}
    BY <1>1, <2>1
  <2> SUFFICES ASSUME NEW k \in DOMAIN q, NEW other \in q[k], other.experiment = "e3-ab"
               PROVE  OfE3(other) /\ (other.rep # 0 => ZerosBy(q, k - 1, more))
    BY DEF RoundsOK, q
  <2>4. OfE3(other) /\ (other.rep # 0 => ZerosBy(todo, k - 1, files))
    BY <2>2 DEF RoundsOK
  <2>5. ASSUME ZerosBy(todo, k - 1, files), NEW i \in DOMAIN E3_ARMS, Zero(i) \notin more
        PROVE  \E j \in DOMAIN q : j <= k - 1 /\ Zero(i) \in {NameOf(x) : x \in q[j]}
    <3>1. PICK j \in DOMAIN todo : j <= k - 1 /\ Zero(i) \in {NameOf(x) : x \in todo[j]}
      BY <2>5 DEF ZerosBy
    <3>2. PICK x \in todo[j] : Zero(i) = NameOf(x)
      BY <3>1
    <3>3. x # run
      BY <2>5, <3>2
    <3> QED BY <2>3, <3>1, <3>2, <3>3
  <2> QED BY <2>4, <2>5 DEF ZerosBy
<1> QED BY <1>2, <1>3

(* The arms of e3-ab.                                                      *)
LEMMA E3Is ==
    ASSUME NEW topo, NEW p
    PROVE  LET arms == e3_arms(topo, p) IN
           /\ DOMAIN arms = DOMAIN E3_ARMS
           /\ \A i \in DOMAIN E3_ARMS :
                /\ {"experiment", "arm", "sched", "epp_mode"} \subseteq DOMAIN arms[i]
                /\ arms[i].experiment = "e3-ab" /\ arms[i].arm = Named(i)
                /\ arms[i].sched = E3_ARMS[i][2] /\ arms[i].epp_mode = E3_ARMS[i][3]
  BY DEF e3_arms, Arm, Named

(* The first round of a session has all first repetitions.                 *)
LEMMA RoundsShuffled ==
    ASSUME NEW topo, NEW p, NEW reps \in Nat \ {0}
    PROVE  LET g == Shuffled(e3_arms(topo, p), reps) IN
           /\ DOMAIN g = 1 .. reps
           /\ \A i \in DOMAIN E3_ARMS : Zero(i) \in {NameOf(x) : x \in g[1]}
           /\ \A k \in DOMAIN g : \A run \in g[k] : OfE3(run) /\ run.rep = k - 1
<1> DEFINE arms == e3_arms(topo, p)
           g == Shuffled(arms, reps)
<1>1. /\ DOMAIN arms = DOMAIN E3_ARMS
      /\ \A i \in DOMAIN E3_ARMS :
           /\ {"experiment", "arm", "sched", "epp_mode"} \subseteq DOMAIN arms[i]
           /\ arms[i].experiment = "e3-ab" /\ arms[i].arm = Named(i)
           /\ arms[i].sched = E3_ARMS[i][2] /\ arms[i].epp_mode = E3_ARMS[i][3]
  BY E3Is
<1> HIDE DEF arms
<1>2. DOMAIN g = 1 .. reps /\ \A k \in 1 .. reps : g[k] = {Repeated(arms[i], k - 1) : i \in DOMAIN E3_ARMS}
  BY <1>1 DEF Shuffled
<1> HIDE DEF g
<1>3. ASSUME NEW i \in DOMAIN E3_ARMS PROVE Zero(i) \in {NameOf(x) : x \in g[1]}
  <2>1. Repeated(arms[i], 0) \in g[1]
    BY <1>2
  <2>2. NameOf(Repeated(arms[i], 0)) = Zero(i)
    BY <1>1, RepeatedName DEF Zero
  <2> QED BY <2>1, <2>2
<1>4. ASSUME NEW k \in DOMAIN g, NEW run \in g[k] PROVE OfE3(run) /\ run.rep = k - 1
  <2>1. PICK i \in DOMAIN E3_ARMS : run = Repeated(arms[i], k - 1)
    BY <1>2
  <2>2. run.arm = arms[i].arm /\ run.sched = arms[i].sched /\ run.epp_mode = arms[i].epp_mode
    BY <1>1, <2>1 DEF Repeated
  <2> QED BY <1>1, <2>1, <2>2, RepeatedIs DEF OfE3
<1> QED BY <1>2, <1>3, <1>4 DEF g, arms

(* What comes before the rounds of e3-ab changes nothing for them.         *)
LEMMA RoundsConcat ==
    ASSUME NEW T, NEW h \in Seq(T), NEW g \in Seq(T), NEW files,
           \A group \in Range(h) : \A run \in group : run.experiment # "e3-ab",
           RoundsOK(g, files)
    PROVE  RoundsOK(h \o g, files)
<1> DEFINE q == h \o g
           m == Len(h)
           n == Len(g)
<1>1. /\ m \in Nat /\ n \in Nat /\ DOMAIN h = 1 .. m /\ DOMAIN g = 1 .. n
      /\ DOMAIN q = 1 .. m + n
      /\ \A k \in 1 .. m : q[k] = h[k]
      /\ \A k \in m + 1 .. m + n : q[k] = g[k - m]
  OBVIOUS
<1> HIDE DEF q, m, n
<1> SUFFICES ASSUME NEW k \in DOMAIN q, NEW run \in q[k], run.experiment = "e3-ab"
             PROVE  OfE3(run) /\ (run.rep # 0 => ZerosBy(q, k - 1, files))
  BY DEF RoundsOK, q
<1>2. k \notin 1 .. m
  <2>1. ASSUME k \in 1 .. m PROVE q[k] \in Range(h)
    BY <1>1, <2>1 DEF Range
  <2> QED BY <2>1
<1>3. k - m \in DOMAIN g /\ run \in g[k - m]
  BY <1>1, <1>2
<1>4. OfE3(run) /\ (run.rep # 0 => ZerosBy(g, k - m - 1, files))
  BY <1>3 DEF RoundsOK
<1>5. ASSUME ZerosBy(g, k - m - 1, files), NEW i \in DOMAIN E3_ARMS, Zero(i) \notin files
      PROVE  \E j \in DOMAIN q : j <= k - 1 /\ Zero(i) \in {NameOf(x) : x \in q[j]}
  <2>1. PICK j \in DOMAIN g : j <= k - m - 1 /\ Zero(i) \in {NameOf(x) : x \in g[j]}
    BY <1>5 DEF ZerosBy
  <2>2. m + j \in DOMAIN q /\ m + j <= k - 1 /\ q[m + j] = g[j]
    BY <1>1, <2>1
  <2> QED BY <2>1, <2>2
<1> QED BY <1>4, <1>5 DEF ZerosBy

(* The runs of InOrder are of the experiment of their arms.                *)
LEMMA OthersInOrder ==
    ASSUME NEW A, NEW arms \in Seq(A), NEW reps \in Nat \ {0}, NEW e, ArmsOf(arms, e)
    PROVE  \A group \in Range(InOrder(arms, reps)) : \A run \in group : run.experiment = e
<1> SUFFICES ASSUME NEW group \in Range(InOrder(arms, reps)), NEW run \in group
             PROVE  run.experiment = e
  OBVIOUS
<1>1. NameOf(run) \in NamesIn(InOrder(arms, reps))
  BY DEF NamesIn
<1>2. NameOf(run) \in FilesOf(e, ArmNames(arms), reps)
  BY <1>1, InOrderNames
<1>3. NameOf(run)[1] = e
  BY <1>2 DEF FilesOf
<1> QED BY <1>3 DEF NameOf

(* The runs of a session.                                                  *)
LEMMA RoundsRuns ==
    ASSUME NEW e, NEW reps \in Nat \ {0}, NEW topo, NEW p, Len(p.little) \in Nat, NEW files
    PROVE  RoundsOK(Runs(e, reps, topo, p), files)
<1> DEFINE a1 == e1_arms(topo, p)
           a2 == e1b_arms(topo, p)
           a3 == e2_arms(topo, p)
           g1 == InOrder(a1, reps)
           g2 == InOrder(a2, reps)
           g3 == InOrder(a3, reps)
           g4 == Shuffled(e3_arms(topo, p), reps)
           p1 == IF Wants(e, "e1-rail") THEN g1 ELSE <<>>
           p2 == IF Wants(e, "e1b-poison") THEN g2 ELSE <<>>
           p3 == IF Wants(e, "e2-coupling") THEN g3 ELSE <<>>
           p4 == IF Wants(e, "e3-ab") THEN g4 ELSE <<>>
           Free(q) == \A group \in Range(q) : \A run \in group : run.experiment # "e3-ab"
<1>1. PICK A1 : a1 \in Seq(A1) /\ a1 # <<>>
  BY E1Arms
<1>2. PICK A2 : a2 \in Seq(A2) /\ a2 # <<>>
  BY E1bArms
<1>3. PICK A3 : a3 \in Seq(A3) /\ a3 # <<>>
  BY E2Arms
<1>4. PICK A4 : e3_arms(topo, p) \in Seq(A4) /\ e3_arms(topo, p) # <<>>
  BY E3Arms
<1>5. ArmsOf(a1, "e1-rail") /\ ArmsOf(a2, "e1b-poison") /\ ArmsOf(a3, "e2-coupling")
  BY E1Count, E1bCount, E2Count
<1> DEFINE T == Groups(A1) \cup Groups(A2) \cup Groups(A3) \cup Groups(A4)
<1>6. /\ g1 \in Seq(Groups(A1)) /\ g2 \in Seq(Groups(A2))
      /\ g3 \in Seq(Groups(A3)) /\ g4 \in Seq(Groups(A4))
  BY <1>1, <1>2, <1>3, <1>4, InOrderIs, ShuffledIs
<1>7. Runs(e, reps, topo, p) = p1 \o p2 \o p3 \o p4
  BY DEF Runs
<1>8. RoundsOK(g4, files)
  <2>1. /\ DOMAIN g4 = 1 .. reps
        /\ \A i \in DOMAIN E3_ARMS : Zero(i) \in {NameOf(x) : x \in g4[1]}
        /\ \A k \in DOMAIN g4 : \A run \in g4[k] : OfE3(run) /\ run.rep = k - 1
    BY RoundsShuffled
  <2> HIDE DEF g4
  <2>2. ASSUME NEW k \in DOMAIN g4, k - 1 # 0 PROVE ZerosBy(g4, k - 1, files)
    <3>1. 1 \in DOMAIN g4 /\ 1 <= k - 1
      BY <2>1, <2>2
    <3> QED BY <2>1, <3>1 DEF ZerosBy
  <2> QED BY <2>1, <2>2 DEF RoundsOK
<1> HIDE DEF a1, a2, a3
<1>9. Free(g1) /\ Free(g2) /\ Free(g3)
  <2>1. \A group \in Range(g1) : \A run \in group : run.experiment = "e1-rail"
    BY <1>1, <1>5, OthersInOrder
  <2>2. \A group \in Range(g2) : \A run \in group : run.experiment = "e1b-poison"
    BY <1>2, <1>5, OthersInOrder
  <2>3. \A group \in Range(g3) : \A run \in group : run.experiment = "e2-coupling"
    BY <1>3, <1>5, OthersInOrder
  <2> HIDE DEF g1, g2, g3
  <2> QED BY <2>1, <2>2, <2>3
<1> HIDE DEF g1, g2, g3, g4
<1>10. g1 \in Seq(T) /\ g2 \in Seq(T) /\ g3 \in Seq(T) /\ g4 \in Seq(T)
  BY <1>6
<1> HIDE DEF T
<1>11. p1 \in Seq(T) /\ p2 \in Seq(T) /\ p3 \in Seq(T) /\ p4 \in Seq(T)
  BY <1>10
<1>12. Free(p1) /\ Free(p2) /\ Free(p3)
  <2>1. Range(<<>>) = {}
    BY DEF Range
  <2> QED BY <1>9, <2>1
<1>13. RoundsOK(p4, files)
  <2>1. RoundsOK(<<>>, files)
    BY DEF RoundsOK
  <2> QED BY <1>8, <2>1
<1> HIDE DEF p1, p2, p3, p4
<1> DEFINE h == p1 \o p2 \o p3
<1>14. h \in Seq(T)
  BY <1>11
<1>15. Free(h)
  <2> DEFINE u == p1 \o p2
  <2>1. u \in Seq(T) /\ h = u \o p3
    BY <1>11
  <2>2. Range(u) = Range(p1) \cup Range(p2)
    BY <1>11, ConcatRange
  <2> HIDE DEF h, u
  <2>3. Range(h) = Range(u) \cup Range(p3)
    BY <1>11, <2>1, ConcatRange
  <2> QED BY <1>12, <2>2, <2>3
<1>16. Runs(e, reps, topo, p) = h \o p4
  BY <1>7
<1> HIDE DEF h
<1> QED BY <1>11, <1>13, <1>14, <1>15, <1>16, RoundsConcat

(* A run of the first group leaves a file.                                 *)
LEMMA RoundsWritten ==
    ASSUME RoundsInv, todo # <<>>, NEW T, todo \in Seq(T), NEW run \in Head(todo), NEW contents,
           disk' = WithRecord(run, contents),
           contents = Damaged \/ \E m, built : contents = Record(run, m, built)
    PROVE  DiskRounds'
<1> DEFINE name == NameOf(run)
<1>1. DOMAIN disk' = DOMAIN disk \cup {name}
  BY DEF WithRecord
<1>2. 1 \in DOMAIN todo /\ run \in todo[1]
  OBVIOUS
<1>3. ASSUME run.experiment = "e3-ab"
      PROVE  /\ OfE3(run)
             /\ run.rep # 0 => \A i \in DOMAIN E3_ARMS : Zero(i) \in DOMAIN disk
  <2>1. OfE3(run) /\ (run.rep # 0 => ZerosBy(todo, 1 - 1, DOMAIN disk))
    BY <1>2, <1>3 DEF RoundsInv, RoundsOK
  <2>2. \A j \in DOMAIN todo : ~(j <= 1 - 1)
    OBVIOUS
  <2> QED BY <2>1, <2>2 DEF ZerosBy
<1>4. ASSUME NEW m, NEW built, OfE3(run) PROVE OfE3(Record(run, m, built))
  <2>1. LET r == Record(run, m, built) IN
        r.arm = run.arm /\ r.sched = run.sched /\ r.epp_mode = run.epp_mode
    BY DEF Record
  <2> QED BY <1>4, <2>1 DEF OfE3
<1>5. ASSUME NEW n \in DOMAIN disk', n[1] = "e3-ab"
      PROVE  /\ disk'[n] # Damaged => OfE3(disk'[n])
             /\ n[3] # 0 => \A i \in DOMAIN E3_ARMS : Zero(i) \in DOMAIN disk'
  <2>1. disk'[n] = IF n = name THEN contents ELSE disk[n]
    BY <1>1 DEF WithRecord
  <2>2. CASE n = name
    <3>1. n[1] = run.experiment /\ n[3] = run.rep
      BY <2>2 DEF NameOf
    <3> HIDE DEF name
    <3> QED BY <1>1, <1>3, <1>4, <1>5, <2>1, <2>2, <3>1
  <2>3. CASE n # name
    <3> HIDE DEF name
    <3>1. n \in DOMAIN disk /\ disk'[n] = disk[n]
      BY <1>1, <2>1, <2>3
    <3> QED BY <1>1, <1>5, <3>1 DEF RoundsInv, DiskRounds
  <2> QED BY <2>2, <2>3
<1> QED BY <1>5 DEF DiskRounds, OfE3, Zero, Named

LEMMA RoundsStep ==
    ASSUME CampTypeInv, RoundsInv, [Next]_vars
    PROVE  RoundsInv'
<1>1. CASE StartSession
  <2> DEFINE s == Head(script.sessions)
             p == PartitionOf(s)
  <2>1. /\ script.sessions # <<>> /\ disk' = disk
        /\ todo' = <<>> \/ todo' = Runs(s.experiment, s.reps, s.topo, p)
    BY <1>1 DEF StartSession
  <2>2. s \in Sessions
    BY <2>1 DEF CampTypeInv, LeftOK
  <2>3. MachineOK(s.topo) /\ s.reps \in Nat \ {0}
    BY <2>2, TopologyAssumption, SessionAssumption DEF MachineOK
  <2>4. Len(p.little) \in Nat
    BY <2>3, LittleLength DEF PartitionOf
  <2>5. RoundsOK(<<>>, DOMAIN disk)
    BY DEF RoundsOK
  <2> HIDE DEF s, p
  <2>6. RoundsOK(Runs(s.experiment, s.reps, s.topo, p), DOMAIN disk)
    BY <2>3, <2>4, RoundsRuns
  <2>7. RoundsOK(todo', DOMAIN disk)
    BY <2>1, <2>5, <2>6
  <2> QED BY <2>1, <2>7 DEF RoundsInv, DiskRounds, RoundsOK, ZerosBy, OfE3, Zero, Named, NameOf
<1>2. ASSUME ended = "running", NEW run \in Head(todo), NEW m, NEW built, Measure(run, m, built)
      PROVE  RoundsInv'
  <2>1. PICK T : todo \in Seq(T)
    BY DEF CampTypeInv, LeftOK
  <2>2. todo # <<>>
    BY <1>2 DEF CampTypeInv, LeftOK
  <2>3. disk' = WithRecord(run, Record(run, m, built)) /\ todo' = After(run)
    BY <1>2 DEF Measure
  <2>4. DiskRounds'
    BY <2>1, <2>2, <2>3, RoundsWritten
  <2>5. RoundsOK(After(run), DOMAIN disk \cup {NameOf(run)})
    BY <2>1, <2>2, RoundsAfter DEF RoundsInv
  <2>6. DOMAIN disk' = DOMAIN disk \cup {NameOf(run)}
    BY <2>3 DEF WithRecord
  <2>7. RoundsOK(todo', DOMAIN disk')
    BY <2>3, <2>5, <2>6
  <2> QED BY <2>4, <2>7 DEF RoundsInv, RoundsOK, ZerosBy, OfE3, Zero, Named, NameOf
<1>3. CASE MeasureUsual \/ MeasureUnusual
  BY <1>2, <1>3 DEF MeasureUsual, MeasureUnusual
<1>4. CASE Interrupt
  <2>1. /\ ended = "running" /\ todo' = <<>>
        /\ disk' = disk \/ \E run \in Head(todo) : disk' = WithRecord(run, Damaged)
    BY <1>4 DEF Interrupt
  <2>2. PICK T : todo \in Seq(T)
    BY DEF CampTypeInv, LeftOK
  <2>3. todo # <<>>
    BY <2>1 DEF CampTypeInv, LeftOK
  <2>4. DiskRounds'
    <3>1. CASE disk' = disk
      BY <3>1 DEF RoundsInv, DiskRounds, OfE3, Zero, Named
    <3>2. CASE \E run \in Head(todo) : disk' = WithRecord(run, Damaged)
      BY <2>2, <2>3, <3>2, RoundsWritten
    <3> QED BY <2>1, <3>1, <3>2
  <2>5. RoundsOK(todo', DOMAIN disk')
    BY <2>1 DEF RoundsOK
  <2> QED BY <2>4, <2>5 DEF RoundsInv, RoundsOK, ZerosBy, OfE3, Zero, Named, NameOf
<1>5. CASE CallWorkload \/ GenerateWorkload \/ KillWorkload \/ Analyze \/ UNCHANGED vars
  <2>1. UNCHANGED <<svars, disk>>
    BY <1>5 DEF CallWorkload, GenerateWorkload, KillWorkload, Analyze, vars
  <2> QED BY <2>1 DEF svars, RoundsInv, DiskRounds, RoundsOK, ZerosBy, OfE3, Zero, Named, NameOf
<1> QED BY <1>1, <1>3, <1>4, <1>5 DEF Next

(* Whatever was interrupted or written over, no arm of e3-ab has a second  *)
(* repetition on the disk unless every arm has a file of its first.        *)
THEOREM RoundsInOrder == Spec => []RoundsInv
<1>1. Init => RoundsInv
  BY DEF Init, RoundsInv, RoundsOK, DiskRounds
<1> QED BY <1>1, RoundsStep, CampTypeInvHolds, PTL DEF Spec

-----------------------------------------------------------------------------
(* The control                                                             *)

LEMMA CleanShorter ==
    ASSUME NEW n \in Nat, NEW xs, DOMAIN xs = 1 .. n
    PROVE  Len(clean(xs)) \in Nat /\ Len(clean(xs)) <= n
<1> DEFINE there == {i \in DOMAIN xs : xs[i] # Missing}
           m == Cardinality(there)
           kept == Sorted(there)
           ys == [k \in DOMAIN kept |-> xs[kept[k]]]
<1>1. there \in SUBSET (1 .. n) /\ there \in SUBSET Int
  OBVIOUS
<1>2. IsFiniteSet(1 .. n) /\ Cardinality(1 .. n) = n
  BY FS_Interval
<1> HIDE DEF there
<1>3. IsFiniteSet(there) /\ m \in Nat /\ m <= n
  <2>1. IsFiniteSet(there) /\ Cardinality(there) <= Cardinality(1 .. n)
    BY ONLY <1>1, <1>2, FS_Subset
  <2>2. m \in Nat
    BY <2>1, FS_CardinalityType
  <2> QED BY <1>2, <2>1, <2>2
<1>4. kept \in [1 .. m -> there]
  BY <1>1, <1>3, SortedIs
<1> HIDE DEF kept, m
<1>5. DOMAIN ys = 1 .. m /\ clean(xs) = ys
  BY <1>4 DEF clean, kept, there
<1> HIDE DEF ys
<1>6. Len(ys) = m
  BY <1>3, <1>5
<1> QED BY <1>3, <1>5, <1>6

(* A win is computed from two records of its arm or more.                  *)
LEMMA WinHasTwo ==
    ASSUME NEW data, NEW excluding, NEW w \in overall_headline(data, excluding).wins
    PROVE  \E a : Len(Energies(data[w[1]], a)) >= 2
<1> DEFINE bad == {e \in DOMAIN data : Bad(data[e])}
<1>1. overall_headline(data, excluding).wins = Tags(data, excluding, DOMAIN data \ bad, "lower")
  BY DEF overall_headline, Bad
<1>2. PICK e \in DOMAIN data \ bad : \E a \in Arms(data[e]) :
          w = <<e, a>> /\ Line(data[e], excluding[e], a, "lower")
  BY <1>1, TagsAre
<1>3. PICK a : w = <<e, a>> /\ <<a, "lower">> \in contrasts(data[e], excluding[e])
  BY <1>2 DEF Line
<1>4. PICK b \in Compared(data[e]) : <<a, "lower">> = <<b, contrast(data[e], b, excluding[e])>>
  BY <1>3 DEF contrasts
<1>5. contrast(data[e], b, excluding[e]) = "lower" /\ w[1] = e
  BY <1>3, <1>4
<1>6. Computed(data[e], b)
  BY <1>5 DEF contrast
<1> QED BY <1>5, <1>6 DEF Computed

(* Of two records of an arm one is not that of the first repetition.       *)
LEMMA TwoHaveLater ==
    ASSUME NEW rs, RecordsOK(rs), NEW a, Len(Energies(RowsFrom(rs), a)) >= 2
    PROVE  Cardinality(OfArm(rs, a)) >= 2 /\ \E r \in OfArm(rs, a) : r.rep # 0
<1> DEFINE of == Of(RowsFrom(rs), a)
           n == Cardinality(OfArm(rs, a))
           xs == [i \in DOMAIN of |-> of[i][HEADLINE_METRIC]]
<1>1. n \in Nat /\ DOMAIN of = 1 .. n
  BY OfCounts
<1>2. Energies(RowsFrom(rs), a) = clean(xs)
  BY DEF Energies, values
<1>3. DOMAIN xs = 1 .. n
  BY <1>1
<1> HIDE DEF of, xs, n
<1>4. Len(clean(xs)) \in Nat /\ Len(clean(xs)) <= n
  BY <1>1, <1>3, CleanShorter
<1>5. n >= 2
  BY <1>1, <1>2, <1>4
<1>6. ASSUME \A r \in OfArm(rs, a) : r.rep = 0 PROVE FALSE
  <2>1. \A r, s \in OfArm(rs, a) : r = s
    BY <1>6 DEF OfArm, RecordsOK
  <2>2. OfArm(rs, a) # {}
    BY <1>5, FS_EmptySet DEF n
  <2>3. PICK r : OfArm(rs, a) = {r}
    BY <2>1, <2>2
  <2>4. n = 1
    BY <2>3, FS_Singleton DEF n
  <2> QED BY <1>5, <2>4
<1> QED BY <1>5, <1>6 DEF n

(* eevdf-flat is the only arm of e3-ab with its factors.                   *)
LEMMA OneFlat ==
    ASSUME NEW i \in DOMAIN E3_ARMS, E3_ARMS[i][2] = "eevdf", E3_ARMS[i][3] = "flat"
    PROVE  i = 1
  BY DEF E3_ARMS

LEMMA FlatIs ==
    /\ 1 \in DOMAIN E3_ARMS /\ E3_ARMS[1][2] = "eevdf" /\ E3_ARMS[1][3] = "flat"
    /\ \A i \in DOMAIN E3_ARMS : Named(i) = Named(1) => i = 1
  BY DEF E3_ARMS, Named

(* The control of e3-ab is eevdf-flat if it has a record.                  *)
LEMMA ControlIsFlat ==
    ASSUME NEW rs, RecordsOK(rs), \A r \in rs : OfE3(r), OfArm(rs, Named(1)) # {}
    PROVE  pick_control(RowsFrom(rs)) = Named(1)
<1> DEFINE rows == RowsFrom(rs)
           flat == {a \in Arms(rows) : IsFlatEevdf(Of(rows, a)[1])}
<1>1. \A r : /\ flatten_run(r).arm = r.arm /\ flatten_run(r).sched = r.sched
             /\ flatten_run(r).epp_mode = r.epp_mode
  BY DEF flatten_run
<1>2. Arms(rows) = {r.arm : r \in rs}
  BY <1>1 DEF Arms, RowsFrom
<1>3. ASSUME NEW a \in Arms(rows)
      PROVE  \E r \in OfArm(rs, a) : Of(rows, a)[1] = flatten_run(r)
  <2>1. PICK r \in rs : r.arm = a
    BY <1>2
  <2>2. OfArm(rs, a) # {} /\ IsFiniteSet(OfArm(rs, a))
    <3>1. r \in OfArm(rs, a)
      BY <2>1 DEF OfArm
    <3>2. IsFiniteSet(OfArm(rs, a))
      BY OfArmIs
    <3> QED BY <3>1, <3>2
  <2>3. Cardinality(OfArm(rs, a)) \in Nat /\ Cardinality(OfArm(rs, a)) # 0
    BY <2>2, FS_EmptySet, FS_CardinalityType
  <2>4. Of(rows, a)[1] \in OfArm(rows, a)
    BY <2>3, OfCounts
  <2>5. OfArm(rows, a) = RowsFrom(OfArm(rs, a))
    BY OfArmIs
  <2> QED BY <2>4, <2>5 DEF RowsFrom
<1> HIDE DEF rows
<1>4. ASSUME NEW a \in Arms(rows) PROVE IsFlatEevdf(Of(rows, a)[1]) <=> a = Named(1)
  <2>1. PICK r \in OfArm(rs, a) : Of(rows, a)[1] = flatten_run(r)
    BY <1>3
  <2>2. IsFlatEevdf(Of(rows, a)[1]) <=> r.sched = "eevdf" /\ r.epp_mode = "flat"
    BY <1>1, <2>1 DEF IsFlatEevdf
  <2>3. r \in rs /\ r.arm = a
    BY DEF OfArm
  <2>4. PICK i \in DOMAIN E3_ARMS :
          r.arm = Named(i) /\ r.sched = E3_ARMS[i][2] /\ r.epp_mode = E3_ARMS[i][3]
    BY <2>3 DEF OfE3
  <2> QED BY <2>2, <2>3, <2>4, OneFlat, FlatIs
<1>5. Named(1) \in Arms(rows)
  BY <1>2 DEF OfArm
<1>6. flat = {Named(1)}
  BY <1>4, <1>5
<1>7. pick_control(rows) = FirstOf({Named(1)})
  BY <1>6 DEF pick_control
<1>8. FirstOf({Named(1)}) = Named(1)
  BY DEF FirstOf
<1> QED BY <1>7, <1>8 DEF rows

(* What WinIsAgainstFlat says of the records of, of which d are the files. *)
HiddenIn(of, d, a) == OfArm(RecordsIn(of, "e3-ab"), a) = {} /\ <<"e3-ab", a, 0>> \in d \ DOMAIN of
AgainstFlat(of, d, control) ==
    /\ control = Named(1) \/ HiddenIn(of, d, Named(1))
    /\ \A i \in DOMAIN E3_ARMS :
        Cardinality(OfArm(RecordsIn(of, "e3-ab"), Named(i))) >= 2 \/ HiddenIn(of, d, Named(i))

(* A win of e3-ab, found in what is on the disk.                           *)
LEMMA WinAgainst ==
    ASSUME DiskOK, DiskRounds, NEW rs, rs = RecordsIn(Kept, "e3-ab"),
           ~Bad(RowsFrom(rs)), NEW a, Len(Energies(RowsFrom(rs), a)) >= 2
    PROVE  AgainstFlat(Kept, DOMAIN disk, pick_control(RowsFrom(rs)))
<1>1. RecordsOK(rs)
  BY KeptOK
<1>2. Sound(rs)
  BY <1>1, PassedIsSound
<1>3. ASSUME NEW r \in rs
      PROVE  /\ <<"e3-ab", r.arm, r.rep>> \in DOMAIN disk
             /\ disk[<<"e3-ab", r.arm, r.rep>>] = r /\ r # Damaged
  <2>1. PICK n \in DOMAIN Kept : n[1] = "e3-ab" /\ r = Kept[n]
    BY DEF RecordsIn
  <2>2. n \in DOMAIN disk /\ disk[n] # Damaged /\ r = disk[n]
    BY <2>1 DEF Kept, Readable
  <2>3. n = <<n[1], r.arm, r.rep>>
    BY <2>2 DEF DiskOK, FileOK
  <2> QED BY <2>1, <2>2, <2>3
<1>4. \A r \in rs : OfE3(r)
  <2> TAKE r \in rs
  <2> DEFINE n == <<"e3-ab", r.arm, r.rep>>
  <2>1. n \in DOMAIN disk /\ disk[n] = r /\ r # Damaged /\ n[1] = "e3-ab"
    BY <1>3
  <2> HIDE DEF n
  <2> QED BY <2>1 DEF DiskRounds
<1>5. Cardinality(OfArm(rs, a)) >= 2
  BY <1>1, TwoHaveLater
<1>6. PICK later \in OfArm(rs, a) : later.rep # 0
  BY <1>1, TwoHaveLater
<1>7. later \in rs /\ later.arm = a
  BY DEF OfArm
<1>8. \A i \in DOMAIN E3_ARMS : Zero(i) \in DOMAIN disk
  <2> DEFINE n == <<"e3-ab", later.arm, later.rep>>
  <2>1. n \in DOMAIN disk /\ n[1] = "e3-ab" /\ n[3] # 0
    BY <1>3, <1>6, <1>7
  <2> HIDE DEF n
  <2> QED BY <2>1 DEF DiskRounds
<1>9. ASSUME NEW i \in DOMAIN E3_ARMS, OfArm(rs, Named(i)) = {}
      PROVE  HiddenIn(Kept, DOMAIN disk, Named(i))
  <2>1. ASSUME Zero(i) \in DOMAIN Kept PROVE FALSE
    <3>1. Zero(i) \in DOMAIN disk /\ disk[Zero(i)] # Damaged /\ Kept[Zero(i)] = disk[Zero(i)]
      BY <2>1 DEF Kept, Readable
    <3>2. Zero(i)[1] = "e3-ab" /\ Zero(i)[2] = Named(i)
      BY DEF Zero
    <3>3. disk[Zero(i)] \in rs
      BY <2>1, <3>1, <3>2 DEF RecordsIn
    <3>4. Zero(i) = <<Zero(i)[1], disk[Zero(i)].arm, disk[Zero(i)].rep>>
      BY <3>1 DEF DiskOK, FileOK
    <3>5. disk[Zero(i)].arm = Named(i)
      BY <3>2, <3>4
    <3> QED BY <1>9, <3>3, <3>5 DEF OfArm
  <2> QED BY <1>8, <1>9, <2>1 DEF HiddenIn, Zero
<1>10. ASSUME NEW i \in DOMAIN E3_ARMS, OfArm(rs, Named(i)) # {}
       PROVE  Cardinality(OfArm(rs, Named(i))) >= 2
  <2>1. PICK r \in rs : r.arm = Named(i)
    BY <1>10 DEF OfArm
  <2>2. Cardinality(OfArm(rs, r.arm)) = Cardinality(OfArm(rs, later.arm))
    BY <1>2, <1>7 DEF Sound
  <2> QED BY <1>5, <1>7, <2>1, <2>2
<1>11. OfArm(rs, Named(1)) # {} => pick_control(RowsFrom(rs)) = Named(1)
  BY <1>1, <1>4, ControlIsFlat
<1>12. 1 \in DOMAIN E3_ARMS
  BY FlatIs
<1> QED BY <1>9, <1>10, <1>11, <1>12 DEF AgainstFlat

(* "Deterministic so the report does not silently re-baseline": however    *)
(* many sessions were interrupted, failed or written over, a win of e3-ab  *)
(* is a win over eevdf-flat, and every arm of e3-ab has two records or     *)
(* more; the only exception is an arm whose first file was damaged and     *)
(* that has no other.                                                      *)
THEOREM WinsAreAgainstFlat == Spec => []WinIsAgainstFlat
<1> DEFINE V == md.kind = "generated" =>
                  \A win \in md.headline.wins : win[1] = "e3-ab" =>
                      AgainstFlat(md.of, DOMAIN disk, md.control["e3-ab"])
<1>1. V => WinIsAgainstFlat
  <2>1. \A a : ArmRuns("e3-ab", a) = OfArm(RecordsIn(md.of, "e3-ab"), a)
    BY DEF ArmRuns, OfArm, RunsOf, RecordsIn
  <2>2. \A a : Hidden(a) <=> HiddenIn(md.of, DOMAIN disk, a)
    BY <2>1 DEF Hidden, HiddenIn
  <2> QED BY <2>1, <2>2 DEF WinIsAgainstFlat, Judged, AgainstFlat, Named
<1>2. Init => V
  <2>1. ASSUME md = Absent \/ md = Own PROVE md.kind # "generated"
    BY <2>1 DEF Absent, Own
  <2> QED BY <2>1, ScriptAssumption DEF Init
<1>3. CampTypeInv /\ RoundsInv /\ V /\ [Next]_vars => V'
  <2> SUFFICES ASSUME CampTypeInv, RoundsInv, V, [Next]_vars PROVE V'
    OBVIOUS
  <2>1. ASSUME UNCHANGED md, DOMAIN disk \subseteq DOMAIN disk' PROVE V'
    <3>1. ASSUME NEW of, NEW control, AgainstFlat(of, DOMAIN disk, control)
          PROVE  AgainstFlat(of, DOMAIN disk', control)
      BY <2>1, <3>1 DEF AgainstFlat, HiddenIn
    <3> QED BY <2>1, <3>1
  <2>2. ASSUME Analyze PROVE V'
    <3> DEFINE data == csv'.rows
    <3>1. PICK report \in Judgements(data) : write_markdown(report)
      BY <2>2 DEF Analyze
    <3>2. PICK excluding : report = Judge(data, excluding)
      <4> HIDE DEF data
      <4> QED BY DEF Judgements
    <3>3. disk' = disk /\ \A e \in DOMAIN data : data[e] = RowsOf(e)
      BY <2>2 DEF Analyze
    <3> HIDE DEF data
    <3>4. /\ report.of = Kept /\ report.headline = overall_headline(data, excluding)
          /\ report.control = [e \in DOMAIN data |-> pick_control(data[e])]
      BY <3>2 DEF Judge, Kept
    <3>5. ASSUME NEW win \in report.headline.wins, win[1] = "e3-ab"
          PROVE  AgainstFlat(report.of, DOMAIN disk, report.control["e3-ab"])
      <4> DEFINE rs == RecordsIn(Kept, "e3-ab")
      <4>1. win[1] \in DOMAIN data /\ ~Bad(data[win[1]])
        BY <3>4, <3>5, WinPassed
      <4>2. data["e3-ab"] = RowsFrom(rs)
        BY <3>3, <3>5, <4>1, KeptOK DEF CampTypeInv
      <4>3. PICK a : Len(Energies(data[win[1]], a)) >= 2
        BY <3>4, <3>5, WinHasTwo
      <4>4. DiskOK /\ DiskRounds
        BY DEF CampTypeInv, RoundsInv
      <4> HIDE DEF rs
      <4>5. ~Bad(RowsFrom(rs)) /\ Len(Energies(RowsFrom(rs), a)) >= 2
        BY <3>5, <4>1, <4>2, <4>3
      <4>6. AgainstFlat(Kept, DOMAIN disk, pick_control(RowsFrom(rs)))
        BY <4>4, <4>5, WinAgainst DEF rs
      <4> QED BY <3>4, <3>5, <4>1, <4>2, <4>6
    <3>6. CASE UNCHANGED md
      BY <2>1, <3>3, <3>6
    <3>7. CASE md' = report
      BY <3>3, <3>5, <3>7
    <3> QED BY <3>1, <3>6, <3>7 DEF write_markdown
  <2>3. CASE Next
    <3>1. Next => Analyze \/ UNCHANGED <<md, disk>>
                    \/ (UNCHANGED md /\ \E run, contents : disk' = WithRecord(run, contents))
      BY DEF Next, CallWorkload, GenerateWorkload, KillWorkload, StartSession,
             MeasureUsual, MeasureUnusual, Measure, Interrupt
    <3>2. ASSUME NEW run, NEW contents, disk' = WithRecord(run, contents)
          PROVE  DOMAIN disk \subseteq DOMAIN disk'
      BY <3>2 DEF WithRecord
    <3> QED BY <2>1, <2>2, <2>3, <3>1, <3>2
  <2>4. CASE UNCHANGED vars
    BY <2>1, <2>4 DEF vars
  <2> QED BY <2>3, <2>4
<1> QED BY <1>1, <1>2, <1>3, CampTypeInvHolds, RoundsInOrder, PTL DEF Spec

-----------------------------------------------------------------------------
(* Ranks                                                                   *)

(* rankdata() of the drift gate gives average ranks to any list of         *)
(* numbers: its sort is stable, and the block of ties that its inner loop  *)
(* finds around a value is the set of the values equal to it.              *)
THEOREM RanksOf ==
    ASSUME NEW n, NEW xs, Ints(xs, n)
    PROVE  rankdata(xs) = [k \in 1 .. n |-> RankOf(xs, k)]
<1> DEFINE order == Argsort(xs)
           first == CHOOSE f : IsFirst(f, xs, order, n)
           last == CHOOSE f : IsLast(f, xs, order, n)
           place(k) == CHOOSE j \in 1 .. n : order[j] = k
<1>1. n \in Nat /\ Len(xs) = n /\ DOMAIN xs = 1 .. n
  <2>1. xs \in Seq(Int)
    BY DEF Ints
  <2> QED BY <2>1 DEF Ints
<1>2. InOrderBy(order, xs, n)
  BY ArgsortIs
<1>3. rankdata(xs) = [k \in 1 .. n |-> first[place(k)] + last[place(k)]]
  BY <1>1 DEF rankdata, IsFirst, IsLast, TiedBefore, TiedAfter
<1> HIDE DEF order
<1>4. \A i \in 1 .. n : first[i] = StartsAt(xs, order[i])
  <2>1. IsFirst(first, xs, order, n)
    BY <1>2, FirstIs
  <2> HIDE DEF first
  <2> QED BY <1>2, <2>1, FirstIs
<1>5. \A i \in 1 .. n : last[i] = Cardinality(Smaller(xs, order[i]) \cup Equals(xs, order[i]))
  <2>1. IsLast(last, xs, order, n)
    BY <1>2, LastIs
  <2> HIDE DEF last
  <2> QED BY <1>2, <2>1, LastIs
<1> HIDE DEF first, last
<1>6. ASSUME NEW k \in 1 .. n PROVE first[place(k)] + last[place(k)] = RankOf(xs, k)
  <2> DEFINE i == place(k)
             s == Cardinality(Smaller(xs, k))
             e == Cardinality(Equals(xs, k))
  <2>1. i \in 1 .. n /\ order[i] = k
    BY <1>2 DEF InOrderBy
  <2>2. s \in Nat /\ e \in Nat /\ Cardinality(Smaller(xs, k) \cup Equals(xs, k)) = s + e
    BY BlockCounts
  <2> HIDE DEF i
  <2>3. first[i] = s + 1
    BY <1>4, <2>1 DEF StartsAt
  <2>4. last[i] = s + e
    BY <1>5, <2>1, <2>2
  <2>5. RankOf(xs, k) = 2 * s + e + 1
    BY DEF RankOf, Smaller, Equals
  <2> HIDE DEF s, e
  <2>6. first[i] + last[i] = RankOf(xs, k)
    BY ONLY <2>2, <2>3, <2>4, <2>5
  <2> QED BY <2>6 DEF i
<1> HIDE DEF place
<1> QED BY <1>3, <1>6

(* Whatever the number of repetitions, and the values, the drift gate      *)
(* correlates average ranks.                                               *)
THEOREM RanksAreAverages == Spec => []RanksAreRanks
<1>1. RanksAreRanks
  <2> SUFFICES ASSUME NEW n \in 0 .. session.reps, NEW xs \in [1 .. n -> 1 .. n]
               PROVE  rankdata(xs) = [k \in 1 .. n |-> RankOf(xs, k)]
    BY DEF RanksAreRanks
  <2>1. Ints(xs, n)
    BY DEF Ints
  <2> QED BY <2>1, RanksOf
<1> QED BY <1>1, PTL

-----------------------------------------------------------------------------
(* CPU lists                                                               *)

Ranges == Int \X Int

(* No range is empty.                                                      *)
Filled(parts) ==
    parts \in Seq(Ranges) /\ \A i \in 1 .. Len(parts) : parts[i][1] <= parts[i][2]

Spread(parts) == [i \in DOMAIN parts |-> CpusOf(parts[i])]

LEMMA CpusOfIs ==
    ASSUME NEW part \in Ranges
    PROVE  /\ CpusOf(part) \in Seq(Int)
           /\ part[1] <= part[2] => Len(CpusOf(part)) = part[2] - part[1] + 1
           /\ \A k \in 1 .. part[2] - part[1] + 1 : CpusOf(part)[k] = part[1] + k - 1
<1> DEFINE lo == part[1]
           hi == part[2]
           n == hi - lo + 1
           f == CpusOf(part)
<1>1. lo \in Int /\ hi \in Int
  BY DEF Ranges
<1>2. f = [k \in 1 .. n |-> lo + k - 1]
  BY DEF CpusOf
<1> HIDE DEF f, lo, hi
<1>3. f \in [1 .. n -> Int] /\ \A k \in 1 .. n : f[k] = lo + k - 1
  BY <1>1, <1>2
<1>4. CASE lo <= hi
  <2>1. n \in Nat
    BY <1>1, <1>4
  <2> HIDE DEF n
  <2>2. f \in Seq(Int) /\ Len(f) = n
    BY <1>3, <2>1, FunctionIsSeq
  <2> QED BY <1>3, <2>2 DEF f, lo, hi, n
<1>5. CASE ~(lo <= hi)
  <2>1. 1 .. n = {} /\ 1 .. 0 = {}
    BY <1>1, <1>5
  <2>2. f \in [1 .. 0 -> Int]
    BY <1>3, <2>1
  <2>3. f \in Seq(Int)
    BY <2>2
  <2> QED BY <1>3, <1>5, <2>3 DEF f, lo, hi, n
<1> QED BY <1>4, <1>5

LEMMA SpreadIs ==
    ASSUME NEW parts \in Seq(Ranges)
    PROVE  Spread(parts) \in Seq(Seq(Int)) /\ FlattenSeq(Spread(parts)) \in Seq(Int)
<1> DEFINE n == Len(parts)
<1>1. n \in Nat /\ DOMAIN parts = 1 .. n /\ \A i \in 1 .. n : parts[i] \in Ranges
  OBVIOUS
<1>2. \A i \in 1 .. n : CpusOf(parts[i]) \in Seq(Int)
  BY <1>1, CpusOfIs
<1> HIDE DEF n
<1>3. Spread(parts) \in [1 .. n -> Seq(Int)]
  BY <1>1, <1>2 DEF Spread
<1>4. Spread(parts) \in Seq(Seq(Int))
  BY <1>1, <1>3, FunctionIsSeq
<1> QED BY <1>4, FlattenIs

LEMMA SpreadAppend ==
    ASSUME NEW parts \in Seq(Ranges), NEW part \in Ranges
    PROVE  FlattenSeq(Spread(Append(parts, part))) = FlattenSeq(Spread(parts)) \o CpusOf(part)
<1> DEFINE n == Len(parts)
           more == Append(parts, part)
           s == Spread(parts)
           c == CpusOf(part)
<1>1. /\ n \in Nat /\ DOMAIN parts = 1 .. n /\ DOMAIN more = 1 .. n + 1
      /\ more[n + 1] = part /\ \A i \in 1 .. n : more[i] = parts[i]
  OBVIOUS
<1>2. s \in Seq(Seq(Int)) /\ c \in Seq(Int)
  BY SpreadIs, CpusOfIs
<1>3. DOMAIN s = 1 .. n /\ \A i \in 1 .. n : s[i] = CpusOf(parts[i])
  BY <1>1 DEF Spread
<1> HIDE DEF n, more
<1>4. Spread(more) = [i \in 1 .. n + 1 |-> CpusOf(more[i])]
  BY <1>1 DEF Spread
<1>5. Len(s) = n /\ Append(s, c) = [i \in 1 .. n + 1 |-> IF i <= n THEN s[i] ELSE c]
  <2> HIDE DEF s, c
  <2>1. Len(s) = n
    BY <1>1, <1>2, <1>3
  <2>2. DOMAIN Append(s, c) = 1 .. n + 1
    BY <1>1, <1>2, <2>1
  <2>3. Append(s, c) \in Seq(Seq(Int)) /\ \A i \in 1 .. n + 1 : Append(s, c)[i] = IF i <= n THEN s[i] ELSE c
    BY <1>1, <1>2, <2>1
  <2>4. Append(s, c) = [i \in 1 .. n + 1 |-> Append(s, c)[i]]
    <3> DEFINE w == Append(s, c)
    <3> HIDE DEF w
    <3>1. w \in Seq(Seq(Int)) /\ DOMAIN w = 1 .. n + 1
      BY <2>2, <2>3 DEF w
    <3>2. w = [i \in 1 .. n + 1 |-> w[i]]
      BY <3>1
    <3> QED BY <3>2 DEF w
  <2> QED BY <2>1, <2>3, <2>4
<1>6. Spread(more) = Append(s, c)
  <2>1. ASSUME NEW i \in 1 .. n + 1 PROVE CpusOf(more[i]) = IF i <= n THEN s[i] ELSE c
    <3>1. CASE i <= n
      <4>1. i \in 1 .. n
        BY <1>1, <3>1
      <4> QED BY <1>1, <1>3, <3>1, <4>1
    <3>2. CASE ~(i <= n)
      <4>1. i = n + 1
        BY <1>1, <3>2
      <4> QED BY <1>1, <3>2, <4>1
    <3> QED BY <3>1, <3>2
  <2> HIDE DEF s, c
  <2> QED BY <1>4, <1>5, <2>1
<1> HIDE DEF s, c
<1>7. FlattenSeq(Append(s, c)) = FlattenSeq(s) \o c
  BY <1>2, FlattenAppend
<1> QED BY <1>6, <1>7 DEF s, c, more

LEMMA OneCpu ==
    ASSUME NEW cpu \in Int
    PROVE  <<cpu, cpu>> \in Ranges /\ CpusOf(<<cpu, cpu>>) = <<cpu>> /\ <<cpu>> \in Seq(Int)
<1> DEFINE part == <<cpu, cpu>>
           f == CpusOf(part)
<1>1. part \in Ranges /\ part[1] = cpu /\ part[2] = cpu
  BY DEF Ranges
<1> HIDE DEF part
<1>2. f \in Seq(Int) /\ Len(f) = cpu - cpu + 1 /\ \A k \in 1 .. cpu - cpu + 1 : f[k] = cpu + k - 1
  <2>1. part[1] <= part[2]
    BY <1>1
  <2>2. /\ f \in Seq(Int) /\ Len(f) = part[2] - part[1] + 1
        /\ \A k \in 1 .. part[2] - part[1] + 1 : f[k] = part[1] + k - 1
    BY ONLY <1>1, <2>1, CpusOfIs
  <2> HIDE DEF f
  <2> QED BY ONLY <1>1, <2>2
<1> HIDE DEF f
<1>3. f \in Seq(Int) /\ Len(f) = 1 /\ f[1] = cpu
  BY <1>2
<1>4. f = <<cpu>>
  BY <1>3
<1> QED BY <1>1, <1>4 DEF f, part

LEMMA OneMoreCpu ==
    ASSUME NEW lo \in Int, NEW hi \in Int, lo <= hi
    PROVE  CpusOf(<<lo, hi + 1>>) = CpusOf(<<lo, hi>>) \o <<hi + 1>>
<1> DEFINE old == <<lo, hi>>
           new == <<lo, hi + 1>>
           f == CpusOf(old)
           g == CpusOf(new)
           n == hi - lo + 1
           e == <<hi + 1>>
<1>1. /\ old \in Ranges /\ old[1] = lo /\ old[2] = hi
      /\ new \in Ranges /\ new[1] = lo /\ new[2] = hi + 1
  BY DEF Ranges
<1>2. n \in Nat /\ (hi + 1) - lo + 1 = n + 1 /\ lo <= hi + 1
  OBVIOUS
<1>3. e \in Seq(Int) /\ Len(e) = 1 /\ e[1] = hi + 1
  OBVIOUS
<1> HIDE DEF old, new, e
<1>4. f \in Seq(Int) /\ Len(f) = n /\ \A k \in 1 .. n : f[k] = lo + k - 1
  BY <1>1, CpusOfIs
<1>5. g \in Seq(Int) /\ Len(g) = n + 1 /\ \A k \in 1 .. n + 1 : g[k] = lo + k - 1
  <2>1. g \in Seq(Int) /\ Len(g) = (hi + 1) - lo + 1
        /\ \A k \in 1 .. (hi + 1) - lo + 1 : g[k] = lo + k - 1
    BY <1>1, <1>2, CpusOfIs
  <2> HIDE DEF g
  <2> QED BY <1>2, <2>1
<1> HIDE DEF f, g
<1>6. /\ f \o e \in Seq(Int) /\ Len(f \o e) = n + 1
      /\ \A k \in 1 .. n + 1 : (f \o e)[k] = IF k <= n THEN f[k] ELSE e[k - n]
  <2>1. /\ f \o e \in Seq(Int) /\ Len(f \o e) = Len(f) + Len(e)
        /\ \A k \in 1 .. Len(f) + Len(e) :
             (f \o e)[k] = IF k <= Len(f) THEN f[k] ELSE e[k - Len(f)]
    BY ONLY <1>3, <1>4, ConcatProperties
  <2>2. Len(f) = n /\ Len(e) = 1
    BY <1>3, <1>4
  <2> HIDE DEF n
  <2> QED BY ONLY <2>1, <2>2
<1>7. ASSUME NEW k \in 1 .. n + 1 PROVE g[k] = (f \o e)[k]
  <2>1. CASE k <= n
    <3>1. k \in 1 .. n
      BY <1>2, <2>1
    <3> QED BY <1>4, <1>5, <1>6, <2>1, <3>1
  <2>2. CASE ~(k <= n)
    <3>1. k = n + 1 /\ k - n = 1
      BY <1>2, <2>2
    <3>2. g[k] = lo + (n + 1) - 1 /\ (f \o e)[k] = e[1]
      BY <1>5, <1>6, <2>2, <3>1
    <3>3. lo + (n + 1) - 1 = hi + 1
      OBVIOUS
    <3> QED BY <1>3, <3>2, <3>3
  <2> QED BY <2>1, <2>2
<1>8. g = f \o e
  BY <1>5, <1>6, <1>7, SeqEqual
<1> QED BY <1>8 DEF f, g, e, old, new

(* A CPU more in the ranges is a CPU more at the end of the list.          *)
LEMMA WithCpuIs ==
    ASSUME NEW parts, Filled(parts), NEW cpu \in Int
    PROVE  /\ Filled(WithCpu(parts, cpu))
           /\ FlattenSeq(Spread(WithCpu(parts, cpu))) = FlattenSeq(Spread(parts)) \o <<cpu>>
<1> DEFINE n == Len(parts)
<1>1. /\ parts \in Seq(Ranges) /\ n \in Nat /\ DOMAIN parts = 1 .. n
      /\ \A i \in 1 .. n : parts[i] \in Ranges /\ parts[i][1] <= parts[i][2]
  BY DEF Filled
<1>2. ASSUME NEW q \in Seq(Ranges), \A i \in 1 .. Len(q) : q[i][1] <= q[i][2],
             NEW r \in Ranges, r[1] <= r[2]
      PROVE  Filled(Append(q, r))
  <2>1. Append(q, r) \in Seq(Ranges) /\ Len(Append(q, r)) = Len(q) + 1
    BY <1>2
  <2>2. \A i \in 1 .. Len(q) + 1 : Append(q, r)[i] = IF i <= Len(q) THEN q[i] ELSE r
    BY <1>2
  <2>3. Len(q) \in Nat
    BY <1>2
  <2> QED BY <1>2, <2>1, <2>2, <2>3 DEF Filled
<1>3. CASE ~(parts # <<>> /\ cpu = Last(parts)[2] + 1)
  <2> DEFINE r == <<cpu, cpu>>
  <2>1. r \in Ranges /\ r[1] <= r[2] /\ CpusOf(r) = <<cpu>>
    BY OneCpu
  <2>2. WithCpu(parts, cpu) = Append(parts, r)
    BY <1>3 DEF WithCpu
  <2> HIDE DEF r
  <2>3. FlattenSeq(Spread(Append(parts, r))) = FlattenSeq(Spread(parts)) \o CpusOf(r)
    BY <1>1, <2>1, SpreadAppend
  <2>4. Filled(Append(parts, r))
    BY <1>1, <1>2, <2>1
  <2> QED BY <2>1, <2>2, <2>3, <2>4
<1>4. CASE parts # <<>> /\ cpu = Last(parts)[2] + 1
  <2> DEFINE front == SubSeq(parts, 1, n - 1)
             old == parts[n]
             lo == old[1]
             hi == old[2]
             new == <<lo, cpu>>
  <2>1. n # 0 /\ n \in 1 .. n /\ n - 1 \in Nat /\ (n - 1) + 1 = n
    BY <1>1, <1>4
  <2>2. /\ old \in Ranges /\ lo \in Int /\ hi \in Int /\ lo <= hi
        /\ old = <<lo, hi>> /\ cpu = hi + 1
    BY <1>1, <1>4, <2>1 DEF Ranges, Last
  <2>3. new \in Ranges /\ new[1] = lo /\ new[2] = cpu /\ lo <= cpu
    BY <2>2 DEF Ranges
  <2>4. /\ front \in Seq(Ranges) /\ Len(front) = n - 1
        /\ \A i \in 1 .. n - 1 : front[i] = parts[i]
    <3>1. \A i \in 1 .. n - 1 : parts[i] \in Ranges
      BY <1>1
    <3> HIDE DEF n
    <3> QED BY <1>1, <2>1, <3>1, SubSeqProperties
  <2> DEFINE made == WithCpu(parts, cpu)
  <2>5. made = [i \in 1 .. n |-> IF i = n THEN new ELSE parts[i]]
    BY <1>1, <1>4 DEF WithCpu
  <2> HIDE DEF front, new, old, lo, hi, n, made
  <2>6. /\ Append(front, old) \in Seq(Ranges) /\ Len(Append(front, old)) = n
        /\ \A i \in 1 .. n : Append(front, old)[i] = parts[i]
    <3>1. Append(front, old) \in Seq(Ranges) /\ Len(Append(front, old)) = n
      BY <1>1, <2>1, <2>2, <2>4
    <3>2. \A i \in 1 .. n : Append(front, old)[i] = IF i <= n - 1 THEN front[i] ELSE old
      BY <1>1, <2>1, <2>2, <2>4
    <3>3. ASSUME NEW i \in 1 .. n PROVE Append(front, old)[i] = parts[i]
      <4>1. CASE i <= n - 1
        <5>1. i \in 1 .. n - 1
          BY <2>1, <4>1
        <5> QED BY <2>4, <3>2, <4>1, <5>1
      <4>2. CASE ~(i <= n - 1)
        <5>1. i = n
          BY <1>1, <4>2
        <5> QED BY <3>2, <4>2, <5>1 DEF old
      <4> QED BY <4>1, <4>2
    <3> QED BY <3>1, <3>3
  <2>7. parts = Append(front, old)
    <3>1. Len(parts) = n
      BY DEF n
    <3> QED BY <1>1, <2>6, <3>1, SeqEqual
  <2>8. made = Append(front, new)
    <3>1. Append(front, new) \in Seq(Ranges) /\ Len(Append(front, new)) = n
      BY <1>1, <2>1, <2>3, <2>4
    <3>2. \A i \in 1 .. n : Append(front, new)[i] = IF i <= n - 1 THEN front[i] ELSE new
      BY <1>1, <2>1, <2>3, <2>4
    <3>3. \A i \in 1 .. n : made[i] = IF i = n THEN new ELSE parts[i]
      BY <2>5
    <3>4. made \in Seq(Ranges) /\ Len(made) = n
      <4>1. \A i \in 1 .. n : made[i] \in Ranges
        BY <1>1, <2>3, <3>3
      <4>2. made \in [1 .. n -> Ranges]
        BY <2>5, <4>1
      <4> QED BY <1>1, <4>2, FunctionIsSeq
    <3>5. ASSUME NEW i \in 1 .. n PROVE made[i] = Append(front, new)[i]
      <4>1. CASE i <= n - 1
        <5>1. i \in 1 .. n - 1 /\ i # n
          BY <2>1, <4>1
        <5> QED BY <2>4, <3>2, <3>3, <4>1, <5>1
      <4>2. CASE ~(i <= n - 1)
        <5>1. i = n
          BY <1>1, <4>2
        <5> QED BY <3>2, <3>3, <4>2, <5>1
      <4> QED BY <4>1, <4>2
    <3> QED BY <3>1, <3>4, <3>5, SeqEqual
  <2>9. Filled(Append(front, new))
    <3>1. ASSUME NEW i \in 1 .. Len(front) PROVE front[i][1] <= front[i][2]
      <4>1. i \in 1 .. n - 1 /\ i \in 1 .. n
        BY <2>1, <2>4
      <4> QED BY <1>1, <2>4, <4>1
    <3> QED BY <1>2, <2>3, <2>4, <3>1
  <2>10. CpusOf(new) = CpusOf(old) \o <<cpu>>
    <3>1. CpusOf(<<lo, hi + 1>>) = CpusOf(<<lo, hi>>) \o <<hi + 1>>
      BY <2>2, OneMoreCpu
    <3> QED BY <2>2, <3>1 DEF new
  <2> DEFINE a == FlattenSeq(Spread(front))
             b == CpusOf(old)
             c == <<cpu>>
  <2>11. a \in Seq(Int) /\ b \in Seq(Int) /\ c \in Seq(Int)
    BY <2>2, <2>4, SpreadIs, CpusOfIs
  <2>12. FlattenSeq(Spread(Append(front, new))) = a \o CpusOf(new)
    BY <2>3, <2>4, SpreadAppend
  <2>13. FlattenSeq(Spread(Append(front, old))) = a \o b
    BY <2>2, <2>4, SpreadAppend
  <2> HIDE DEF a, b, c
  <2>14. (a \o b) \o c = a \o (b \o c)
    BY <2>11, ConcatAssociative
  <2>15. FlattenSeq(Spread(made)) = FlattenSeq(Spread(parts)) \o c
    BY <2>7, <2>8, <2>10, <2>12, <2>13, <2>14 DEF b, c
  <2> QED BY <2>8, <2>9, <2>15 DEF made, c
<1> QED BY <1>3, <1>4

(* What cpulist() makes as it goes through the CPUs.                       *)
IsParts(f, cpus) ==
    f = [n \in 0 .. Len(cpus) |-> IF n = 0 THEN <<>> ELSE WithCpu(f[n - 1], cpus[n])]

FilledParts == {parts \in Seq(Ranges) : Filled(parts)}

LEMMA PartsExist ==
    ASSUME NEW cpus \in Seq(Int)
    PROVE  \E f : IsParts(f, cpus)
<1> DEFINE n == Len(cpus)
           D == FilledParts
           step == [q \in (1 .. n) \X D |-> WithCpu(q[2], cpus[q[1]])]
<1>1. n \in Nat /\ \A i \in 1 .. n : cpus[i] \in Int
  OBVIOUS
<1>2. <<>> \in D
  <2>1. <<>> \in Seq(Ranges) /\ Len(<<>>) = 0 /\ \A i \in 1 .. 0 : FALSE
    OBVIOUS
  <2> QED BY <2>1 DEF FilledParts, Filled
<1> HIDE DEF n
<1>3. ASSUME NEW i \in 1 .. n, NEW parts \in D
      PROVE  WithCpu(parts, cpus[i]) \in D
  <2>1. Filled(parts) /\ cpus[i] \in Int
    BY <1>1 DEF FilledParts
  <2>2. Filled(WithCpu(parts, cpus[i]))
    BY <2>1, WithCpuIs
  <2> QED BY <2>2 DEF FilledParts, Filled
<1>4. IsStep(step, n, D)
  BY <1>3 DEF IsStep
<1>5. ASSUME NEW i \in 1 .. n, NEW parts \in D
      PROVE  step[<<i, parts>>] = WithCpu(parts, cpus[i])
  OBVIOUS
<1> HIDE DEF step, D
<1>6. PICK f \in [0 .. n -> D] : f[0] = <<>> /\ \A i \in 1 .. n : f[i] = step[<<i, f[i - 1]>>]
  <2> DEFINE z == <<>>
  <2>1. z \in D
    BY <1>2
  <2> HIDE DEF z
  <2>2. \E f : Iterates(f, step, z, n, D)
    BY ONLY <1>1, <1>4, <2>1, StepsExist
  <2> QED BY <2>2 DEF Iterates, z
<1>7. ASSUME NEW i \in 0 .. n PROVE f[i] = IF i = 0 THEN <<>> ELSE WithCpu(f[i - 1], cpus[i])
  <2>1. CASE i = 0
    BY <1>6, <2>1
  <2>2. CASE i # 0
    <3>1. i \in 1 .. n /\ i - 1 \in 0 .. n
      BY <1>1, <2>2
    <3>2. f[i - 1] \in D /\ f[i] = step[<<i, f[i - 1]>>]
      BY <1>6, <3>1
    <3> QED BY <1>5, <2>2, <3>1, <3>2
  <2> QED BY <2>1, <2>2
<1>8. f = [i \in 0 .. n |-> IF i = 0 THEN <<>> ELSE WithCpu(f[i - 1], cpus[i])]
  BY <1>6, <1>7
<1> QED BY <1>8 DEF IsParts, n

(* The ranges of cpulist() name the CPUs of any list, in its order: none   *)
(* is lost or added where a range ends.                                    *)
LEMMA CpulistIs ==
    ASSUME NEW cpus \in Seq(Int)
    PROVE  Filled(cpulist(cpus)) /\ FlattenSeq(Spread(cpulist(cpus))) = cpus
<1> DEFINE n == Len(cpus)
           f == CHOOSE h : IsParts(h, cpus)
<1>1. n \in Nat /\ \A i \in 1 .. n : cpus[i] \in Int
  OBVIOUS
<1>2. IsParts(f, cpus)
  BY PartsExist
<1>3. cpulist(cpus) = f[n]
  BY DEF cpulist, IsParts
<1> HIDE DEF f, n
<1>4. \A i \in 0 .. n : f[i] = IF i = 0 THEN <<>> ELSE WithCpu(f[i - 1], cpus[i])
  BY <1>2 DEF IsParts, n
<1> DEFINE Fine(i) == Filled(f[i]) /\ FlattenSeq(Spread(f[i])) = SubSeq(cpus, 1, i)
           Wrong == {i \in 0 .. n : ~Fine(i)}
<1>5. ASSUME Wrong # {} PROVE FALSE
  <2>1. Wrong \in SUBSET Nat
    BY <1>1
  <2>2. PICK i \in Wrong : \A j \in Wrong : i <= j
    <3> HIDE DEF Wrong
    <3> QED BY <1>5, <2>1, NatLeast
  <2>3. i \in 0 .. n /\ ~Fine(i)
    OBVIOUS
  <2>4. CASE i = 0
    <3>1. f[i] = <<>>
      BY <1>4, <2>3, <2>4
    <3>2. <<>> \in Seq(Ranges) /\ Len(<<>>) = 0 /\ \A k \in 1 .. 0 : FALSE
      OBVIOUS
    <3>3. Filled(<<>>)
      BY <3>2 DEF Filled
    <3>4. Spread(<<>>) = <<>>
      BY DEF Spread
    <3>5. FlattenSeq(<<>>) = <<>>
      BY <3>2 DEF FlattenSeq
    <3>6. SubSeq(cpus, 1, 0) = <<>>
      BY SubSeqEmpty
    <3>7. Fine(i)
      BY <2>4, <3>1, <3>3, <3>4, <3>5, <3>6
    <3> QED BY <2>3, <3>7
  <2>5. CASE i # 0
    <3> DEFINE j == i - 1
    <3>1. j \in 0 .. n /\ ~(i <= j) /\ i \in 1 .. n
      BY <1>1, <2>3, <2>5
    <3>2. j \notin Wrong
      <4> HIDE DEF Wrong, j
      <4> QED BY <2>2, <3>1
    <3>3. Fine(j)
      BY <3>1, <3>2
    <3>4. f[i] = WithCpu(f[j], cpus[i]) /\ cpus[i] \in Int
      BY <1>1, <1>4, <2>3, <2>5, <3>1
    <3>5. SubSeq(cpus, 1, i) = SubSeq(cpus, 1, j) \o <<cpus[i]>>
      <4>1. 1 \in 1 .. Len(cpus) /\ i \in 1 .. Len(cpus)
        BY <1>1, <3>1 DEF n
      <4> QED BY <4>1, SubSeqRecursiveSecond
    <3> HIDE DEF j
    <3>6. /\ Filled(WithCpu(f[j], cpus[i]))
          /\ FlattenSeq(Spread(WithCpu(f[j], cpus[i]))) = FlattenSeq(Spread(f[j])) \o <<cpus[i]>>
      BY <3>3, <3>4, WithCpuIs
    <3>7. Fine(i)
      BY <3>3, <3>4, <3>5, <3>6
    <3> QED BY <2>3, <3>7
  <2> QED BY <2>4, <2>5
<1>6. n \in 0 .. n
  BY <1>1
<1>7. Fine(n)
  BY <1>5, <1>6
<1>8. SubSeq(cpus, 1, n) = cpus
  BY SubSeqFull DEF n
<1> QED BY <1>3, <1>7, <1>8

LEMMA ListedIs == \A parts : Listed(parts) = FlattenSeq(Spread(parts))
  BY DEF Listed, Spread

(* spin reads back every list that it has threads for, whatever is missing *)
(* between the numbers, there twice or out of order.                       *)
THEOREM SpinReadsBack ==
    ASSUME NEW cpus \in Seq(Int), Len(cpus) <= MAX_THREADS
    PROVE  parse_cpus(cpulist(cpus)) = cpus
<1> DEFINE n == Len(cpus)
           T == {n, MAX_THREADS}
<1>1. Listed(cpulist(cpus)) = cpus
  BY CpulistIs, ListedIs
<1>2. n \in Nat /\ n <= MAX_THREADS /\ MAX_THREADS \in Nat
  BY DEF MAX_THREADS
<1> HIDE DEF n
<1>3. Min(T) = n
  <2>1. n \in T /\ \A y \in T : n <= y
    BY <1>2
  <2>2. \A x \in T : (\A y \in T : x <= y) => x = n
    BY <1>2
  <2> HIDE DEF T
  <2> QED BY <2>1, <2>2 DEF Min
<1>4. parse_cpus(cpulist(cpus)) = SubSeq(cpus, 1, n)
  BY <1>1, <1>3 DEF parse_cpus, n
<1> QED BY <1>4, SubSeqFull DEF n

(* bls takes a list of CPUs that it knows, and reads it back as a set.     *)
LEMMA BlsReadsBack ==
    ASSUME NEW cpus \in Seq(Int), Range(cpus) \subseteq 0 .. BLS_MAX_CPUS - 1
    PROVE  Bearable(cpulist(cpus)) /\ Range(Listed(cpulist(cpus))) = Range(cpus)
<1> DEFINE parts == cpulist(cpus)
           n == Len(parts)
           s == Spread(parts)
<1>1. Filled(parts) /\ FlattenSeq(s) = cpus
  BY CpulistIs
<1>2. Listed(parts) = cpus
  BY <1>1, ListedIs
<1>3. /\ parts \in Seq(Ranges) /\ n \in Nat /\ DOMAIN parts = 1 .. n
      /\ \A i \in 1 .. n : parts[i] \in Ranges /\ parts[i][1] <= parts[i][2]
  <2> HIDE DEF parts
  <2> QED BY <1>1 DEF Filled
<1> HIDE DEF parts, n
<1>4. s \in Seq(Seq(Int)) /\ DOMAIN s = 1 .. n /\ \A i \in 1 .. n : s[i] = CpusOf(parts[i])
  BY <1>3, SpreadIs DEF Spread
<1> HIDE DEF s
<1>5. ASSUME NEW i \in 1 .. n
      PROVE  parts[i][1] \in Range(cpus) /\ parts[i][2] \in Range(cpus)
  <2> DEFINE lo == parts[i][1]
             hi == parts[i][2]
             c == CpusOf(parts[i])
             len == hi - lo + 1
  <2>1. lo \in Int /\ hi \in Int /\ lo <= hi /\ parts[i] \in Ranges
    BY <1>3 DEF Ranges
  <2>2. c \in Seq(Int) /\ Len(c) = len /\ \A k \in 1 .. len : c[k] = lo + k - 1
    BY <2>1, CpusOfIs
  <2> HIDE DEF c, lo, hi
  <2>3. 1 \in 1 .. len /\ len \in 1 .. len /\ lo + 1 - 1 = lo /\ lo + len - 1 = hi
    BY <2>1
  <2> HIDE DEF len
  <2>4. c[1] = lo /\ c[len] = hi /\ DOMAIN c = 1 .. len
    BY <2>2, <2>3
  <2>5. lo \in Range(c) /\ hi \in Range(c)
    BY <2>3, <2>4 DEF Range
  <2>6. Len(s) = n /\ Len(s) # 0
    BY <1>3, <1>4
  <2>7. Range(FlattenSeq(s)) = UNION {Range(s[j]) : j \in 1 .. Len(s)}
    BY <1>4, <2>6, FlattenHas, 0 \in Nat
  <2>8. Range(c) \subseteq Range(cpus)
    BY <1>1, <1>4, <2>6, <2>7 DEF c
  <2> QED BY <2>5, <2>8 DEF lo, hi
<1>6. Bearable(parts)
  <2>1. BLS_MAX_CPUS \in Nat /\ \A x \in 0 .. BLS_MAX_CPUS - 1 : x >= 0 /\ x < BLS_MAX_CPUS
    BY DEF BLS_MAX_CPUS
  <2>2. \A x \in Range(cpus) : x >= 0 /\ x < BLS_MAX_CPUS
    BY <2>1
  <2> QED BY <1>3, <1>5, <2>2 DEF Bearable
<1> QED BY <1>2, <1>6 DEF parts

LEMMA SortedCounts ==
    ASSUME NEW Q \in SUBSET Int, IsFiniteSet(Q)
    PROVE  Sorted(Q) \in Seq(Int) /\ Len(Sorted(Q)) = Cardinality(Q)
<1> DEFINE n == Cardinality(Q)
           s == Sorted(Q)
<1>1. n \in Nat /\ s \in [1 .. n -> Q]
  BY SortedUpwards
<1> HIDE DEF n, s
<1>2. s \in [1 .. n -> Int]
  BY <1>1
<1> QED BY <1>1, <1>2, FunctionIsSeq DEF n, s

LEMMA SeqInts ==
    ASSUME NEW q \in Seq(Int)
    PROVE  Ints(q, Len(q))
  BY DEF Ints

LEMMA SortedListCounts ==
    ASSUME NEW q \in Seq(Int)
    PROVE  SortedList(q) \in Seq(Int) /\ Len(SortedList(q)) = Len(q)
<1> DEFINE n == Len(q)
           s == SortedList(q)
<1>1. Ints(s, n)
  BY SeqInts, ListSorted
<1> HIDE DEF n, s
<1>2. s \in Seq(Int) /\ Len(s) = n
  BY <1>1, FunctionIsSeq DEF Ints
<1> QED BY <1>2 DEF n, s

(* The two sides of a session's partition.                                 *)
LEMMA SidesAre ==
    ASSUME NEW topo, MachineOK(topo), NEW big \in Seq(Nat \X Nat)
    PROVE  LET p == Partition(topo, big) IN
           /\ p.big \in Seq(Int) /\ p.little \in Seq(Int)
           /\ Len(p.little) = Cardinality(Range(p.little))
<1> DEFINE p == Partition(topo, big)
<1>1. ASSUME NEW Q \in SUBSET DOMAIN topo
      PROVE  Sorted(Q) \in Seq(Int) /\ Len(Sorted(Q)) = Cardinality(Q) /\ Range(Sorted(Q)) = Q
  <2>1. IsFiniteSet(Q) /\ Q \in SUBSET Int
    BY <1>1, CpuSets
  <2> QED BY <2>1, SortedCounts, SortedRange
<1>2. CASE big = <<>>
  <2> DEFINE cores == Sorted(Range(topo))
             big_cores == {cores[i] : i \in 1 .. Max({1, Len(cores) \div 2})}
             B == {c \in DOMAIN topo : topo[c] \in big_cores}
             L == {c \in DOMAIN topo : topo[c] \notin big_cores}
  <2>1. p.big = Sorted(B) /\ p.little = Sorted(L)
    BY <1>2 DEF Partition, default_partition
  <2>2. B \in SUBSET DOMAIN topo /\ L \in SUBSET DOMAIN topo
    OBVIOUS
  <2> HIDE DEF B, L, p
  <2> QED BY <1>1, <2>1, <2>2 DEF p
<1>3. CASE big # <<>>
  <2> DEFINE L == DOMAIN topo \ Range(parse_cpulist(big))
  <2>1. p.big = parse_cpulist(big) /\ p.little = Sorted(L)
    BY <1>3 DEF Partition
  <2>2. L \in SUBSET DOMAIN topo
    OBVIOUS
  <2>3. big \in Seq(Ranges)
    <3>1. Nat \X Nat \subseteq Ranges
      BY DEF Ranges
    <3> QED BY <3>1, SeqMonotonic
  <2>4. parse_cpulist(big) = SortedList(FlattenSeq(Spread(big)))
    BY ListedIs DEF parse_cpulist
  <2>5. FlattenSeq(Spread(big)) \in Seq(Int)
    BY <2>3, SpreadIs
  <2>6. parse_cpulist(big) \in Seq(Int)
    BY <2>4, <2>5, SortedListCounts
  <2> HIDE DEF L, p
  <2> QED BY <1>1, <2>1, <2>2, <2>6 DEF p
<1> QED BY <1>2, <1>3

(* A placement takes a big CPU at most, and some of the little ones.       *)
LEMMA PlacedCounts ==
    ASSUME NEW p, p.big \in Seq(Int), p.big # <<>>, p.little \in Seq(Int),
           NEW cond \in Range(e2_conditions(p))
    PROVE  Placed(p, cond) \in Seq(Int) /\ Len(Placed(p, cond)) <= 1 + Len(p.little)
<1> DEFINE b == cond[1]
           k == Max({0, cond[2]})
           q == SubSeq(p.big, 1, b)
           r == SubSeq(p.little, 1, k)
<1>1. Len(p.big) \in Nat /\ Len(p.big) # 0 /\ Len(p.little) \in Nat
  OBVIOUS
<1>2. cond \in {0, 1} \X (LittleLoads(p) \cup {NoK})
  BY <1>1, ConditionsAre
<1>3. b \in {0, 1} /\ cond[2] \in Int /\ cond[2] <= Len(p.little)
  BY <1>1, <1>2 DEF LittleLoads, NoK
<1>4. k \in Nat /\ k <= Len(p.little)
  <2> DEFINE c == cond[2]
             T == {0, c}
  <2>1. c \in Int /\ (0 >= c \/ c >= 0)
    BY <1>3
  <2>2. \E x \in T : \A y \in T : x >= y
    BY <2>1
  <2>3. k \in T /\ \A y \in T : k >= y
    BY <2>2 DEF Max
  <2> HIDE DEF k
  <2> QED BY <1>1, <1>3, <2>3
<1> HIDE DEF k
<1>5. q \in Seq(Int) /\ Len(q) = b
  <2>1. b \in Nat /\ \A i \in 1 .. b : p.big[i] \in Int
    BY <1>1, <1>3
  <2> HIDE DEF b
  <2> QED BY <2>1, SubSeqProperties
<1>6. r \in Seq(Int) /\ Len(r) = k
  <2>1. k \in Nat /\ \A i \in 1 .. k : p.little[i] \in Int
    BY <1>1, <1>4
  <2> QED BY <2>1, SubSeqProperties
<1>7. Placed(p, cond) = SortedList(q \o r)
  BY DEF Placed, k
<1> HIDE DEF q, r
<1>8. q \o r \in Seq(Int) /\ Len(q \o r) = b + k
  <2>1. q \o r \in Seq(Int) /\ Len(q \o r) = Len(q) + Len(r)
    BY <1>5, <1>6, ConcatProperties
  <2> QED BY <1>5, <1>6, <2>1
<1>9. Placed(p, cond) \in Seq(Int) /\ Len(Placed(p, cond)) = b + k
  BY <1>7, <1>8, SortedListCounts
<1> HIDE DEF b
<1> QED BY <1>1, <1>3, <1>4, <1>9

(* A big CPU, and no more CPUs than analyze.py knows.                      *)
LEMMA LittleIsFew ==
    ASSUME NEW topo, MachineOK(topo), NEW p, IsPartition(topo, p)
    PROVE  1 + Cardinality(Range(p.little)) <= MAX_THREADS
<1> DEFINE L == Range(p.little)
<1>1. PICK x \in Range(p.big) : x \in DOMAIN topo /\ x \notin L
  BY DEF IsPartition
<1>2. L \in SUBSET DOMAIN topo
  BY DEF IsPartition
<1>3. IsFiniteSet(L)
  BY <1>2, CpuSets
<1>4. Cardinality(L) \in Nat /\ Cardinality(L \cup {x}) = Cardinality(L) + 1
  <2> HIDE DEF L
  <2> QED BY <1>1, <1>3, FS_AddElement, FS_CardinalityType
<1>5. N_CPUS \in Nat /\ N_CPUS <= MAX_THREADS /\ Cpu = 0 .. N_CPUS - 1
  BY CpusAssumption, BlsMaxAssumption DEF Cpu, MAX_THREADS, BLS_MAX_CPUS
<1>6. IsFiniteSet(Cpu) /\ Cardinality(Cpu) = N_CPUS
  BY <1>5, FS_Interval
<1>7. L \cup {x} \in SUBSET Cpu
  BY <1>1, <1>2 DEF MachineOK
<1> HIDE DEF L
<1>8. Cardinality(L \cup {x}) <= Cardinality(Cpu)
  BY <1>6, <1>7, FS_Subset
<1>9. MAX_THREADS \in Nat
  BY DEF MAX_THREADS
<1> QED BY <1>4, <1>5, <1>6, <1>8, <1>9 DEF L

(* On every machine and with every --big that names CPUs of it, bls gets   *)
(* the partition of the EPPs, and spin the CPUs of each placement.         *)
THEOREM ListsDoArrive == Spec => []ListsArrive
<1>1. ASSUME SessionKnown PROVE ListsArrive
  <2> DEFINE p == PartitionOf(session)
             topo == session.topo
             big == cpulist(p.big)
             little == cpulist(p.little)
             epp == Partitioned(topo, p)
  <2> SUFFICES ASSUME ended = "running"
               PROVE  /\ Bearable(big) /\ Bearable(little)
                      /\ \A c \in DOMAIN topo :
                            bls_domains(big, little)[c] = BLS_DOM_LITTLE <=> epp[c] = EPP_LITTLE
                      /\ \A cond \in Range(e2_conditions(p)) :
                            parse_cpus(cpulist(Placed(p, cond))) = Placed(p, cond)
    BY DEF ListsArrive
  <2>1. session \in Sessions
    BY <1>1 DEF SessionKnown
  <2>2. /\ MachineOK(topo) /\ session.big \in Seq(Nat \X Nat)
        /\ session.big # <<>> => /\ Range(parse_cpulist(session.big)) \subseteq DOMAIN topo
                                 /\ Range(parse_cpulist(session.big)) # {}
    BY <2>1, TopologyAssumption DEF MachineOK
  <2>3. p.big \in Seq(Int) /\ p.little \in Seq(Int) /\ Len(p.little) = Cardinality(Range(p.little))
    BY <2>2, SidesAre DEF PartitionOf
  <2>4. IsPartition(topo, p)
    <3>1. CASE session.big = <<>>
      BY <2>2, <3>1, DefaultIs DEF Partition, PartitionOf
    <3>2. CASE session.big # <<>>
      BY <2>2, <3>2, ChosenIs DEF PartitionOf
    <3> QED BY <3>1, <3>2
  <2>5. DOMAIN topo \subseteq 0 .. BLS_MAX_CPUS - 1
    <3>1. N_CPUS \in Nat /\ N_CPUS <= BLS_MAX_CPUS /\ BLS_MAX_CPUS \in Nat /\ Cpu = 0 .. N_CPUS - 1
      BY CpusAssumption, BlsMaxAssumption DEF Cpu, BLS_MAX_CPUS
    <3>2. Cpu \subseteq 0 .. BLS_MAX_CPUS - 1
      BY <3>1
    <3> QED BY <2>2, <3>2 DEF MachineOK
  <2> HIDE DEF p, topo
  <2>6. p.big # <<>> /\ Range(p.big) \subseteq DOMAIN topo /\ Range(p.little) \subseteq DOMAIN topo
    <3>1. Range(<<>>) = {}
      BY DEF Range
    <3> QED BY <2>4, <3>1 DEF IsPartition
  <2>7. Bearable(big) /\ Bearable(little) /\ Range(Listed(little)) = Range(p.little)
    BY <2>3, <2>5, <2>6, BlsReadsBack
  <2> HIDE DEF big, little
  <2>8. ASSUME NEW c \in DOMAIN topo
        PROVE  bls_domains(big, little)[c] = BLS_DOM_LITTLE <=> epp[c] = EPP_LITTLE
    <3>1. c \in 0 .. BLS_MAX_CPUS - 1
      BY <2>5
    <3>2. bls_domains(big, little)[c] = BLS_DOM_LITTLE <=> c \in Range(p.little)
      <4> HIDE DEF epp
      <4> QED BY <2>7, <3>1 DEF bls_domains, WithList, BLS_DOM_LITTLE, BLS_DOM_BIG
    <3>3. epp[c] = EPP_LITTLE <=> c \in Range(p.little)
      BY DEF Partitioned, EPP_LITTLE, EPP_BIG
    <3> HIDE DEF epp
    <3> QED BY <3>2, <3>3
  <2>9. ASSUME NEW cond \in Range(e2_conditions(p))
        PROVE  parse_cpus(cpulist(Placed(p, cond))) = Placed(p, cond)
    <3> DEFINE cpus == Placed(p, cond)
    <3>1. cpus \in Seq(Int) /\ Len(cpus) <= 1 + Len(p.little)
      BY <2>3, <2>6, PlacedCounts
    <3>2. 1 + Len(p.little) <= MAX_THREADS
      BY <2>2, <2>3, <2>4, LittleIsFew
    <3> HIDE DEF cpus
    <3>3. Len(cpus) <= MAX_THREADS
      <4>1. Len(cpus) \in Nat /\ Len(p.little) \in Nat /\ MAX_THREADS \in Nat
        BY <2>3, <3>1 DEF MAX_THREADS
      <4> QED BY <3>1, <3>2, <4>1
    <3> QED BY <3>1, <3>3, SpinReadsBack DEF cpus
  <2> QED BY <2>7, <2>8, <2>9
<1>2. Init => SessionKnown
  BY DEF Init, SessionKnown
<1> QED BY <1>1, <1>2, SessionKnownStep, CampTypeInvHolds, PTL DEF Spec
=============================================================================
