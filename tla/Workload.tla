------------------------------ MODULE Workload ------------------------------
(***************************************************************************)
(* scripts/workload.py: the generator of the C project that the builds     *)
(* compile.  It may be killed, or fail, at any moment, and be started      *)
(* again with the same or with other arguments.                            *)
(*                                                                         *)
(* A want is what the stamp file records: a number of files and a text     *)
(* that stands for the functions per file and the seed.  File i has the    *)
(* same contents in every tree with the same text.  What a build leaves in *)
(* the tree is left out.                                                   *)
(***************************************************************************)
EXTENDS Naturals, Functions

CONSTANTS
    Texts,
    Cut,         \* the contents of a file whose writer was killed
    NoFile,
    MaxFiles

VARIABLES
    want, force,     \* the arguments of the run under way
    at,              \* where the run is
    next,            \* the file to write
    mods,            \* contents of the modules that exist
    makefile,        \* its number of objects
    stamp,
    said,            \* how the last run ended
    torn             \* a removal was cut short and not yet repeated

tree == <<mods, makefile, stamp>>
wvars == <<want, force, at, next, tree, said, torn>>

ASSUME TextAssumption == Cut \notin Texts /\ MaxFiles \in Nat

Want == [files : 1 .. MaxFiles, text : Texts]
ASSUME FileAssumption == NoFile \notin Want \cup Nat /\ Cut \notin Want

WTypeOK ==
    /\ want \in Want /\ force \in BOOLEAN
    /\ at \in {"idle", "remove", "write", "makefile", "stamp"}
    /\ next \in 0 .. MaxFiles
    /\ DOMAIN mods \subseteq 0 .. MaxFiles - 1
    /\ mods \in [DOMAIN mods -> Texts \cup {Cut}]
    /\ makefile \in 0 .. MaxFiles \cup {NoFile}
    /\ stamp \in Want \cup {NoFile, Cut}
    /\ said \in {"nothing", "up to date", "generated", "killed"}
    /\ torn \in BOOLEAN

NoMods == [i \in {} |-> Cut]

WInit ==
    /\ want \in Want /\ force = FALSE
    /\ at = "idle" /\ next = 0
    /\ mods = NoMods /\ makefile = NoFile /\ stamp = NoFile
    /\ said = "nothing" /\ torn = FALSE

Exists == mods # NoMods \/ makefile # NoFile \/ stamp # NoFile

(* main() compares the stamp and generates unless it fits.                 *)
Main(w, f) ==
    /\ at = "idle"
    /\ want' = w /\ force' = f
    /\ IF ~f /\ stamp = w
       THEN said' = "up to date" /\ UNCHANGED at
       ELSE at' = "remove" /\ UNCHANGED said
    /\ UNCHANGED <<next, tree, torn>>

(* rmtree removes the entries in the order of the directory, which can be  *)
(* any.                                                                    *)
RemoveEntry ==
    /\ at = "remove" /\ Exists
    /\ \/ /\ \E i \in DOMAIN mods : mods' = Restrict(mods, DOMAIN mods \ {i})
          /\ UNCHANGED <<makefile, stamp>>
       \/ makefile # NoFile /\ makefile' = NoFile /\ UNCHANGED <<mods, stamp>>
       \/ stamp # NoFile /\ stamp' = NoFile /\ UNCHANGED <<mods, makefile>>
    /\ UNCHANGED <<want, force, at, next, said, torn>>

(* Mutant: the stamp comes first.                                          *)
Removed_stamped ==
    /\ at = "remove" /\ ~Exists
    /\ at' = "write" /\ next' = 0 /\ torn' = FALSE /\ stamp' = want
    /\ UNCHANGED <<want, force, mods, makefile, said>>

Removed ==
    /\ at = "remove" /\ ~Exists
    /\ at' = "write" /\ next' = 0 /\ torn' = FALSE
    /\ UNCHANGED <<want, force, tree, said>>

WithFile(i, contents) ==
    [j \in DOMAIN mods \cup {i} |-> IF j = i THEN contents ELSE mods[j]]

(* Mutant: the Makefile comes first.                                       *)
WriteModule_last ==
    /\ at = "write" /\ next < want.files
    /\ mods' = WithFile(next, want.text)
    /\ makefile' = want.files
    /\ next' = next + 1
    /\ at' = (IF next' = want.files THEN "makefile" ELSE "write")
    /\ UNCHANGED <<want, force, stamp, said, torn>>

WriteModule ==
    /\ at = "write" /\ next < want.files
    /\ mods' = WithFile(next, want.text)
    /\ next' = next + 1
    /\ at' = (IF next' = want.files THEN "makefile" ELSE "write")
    /\ UNCHANGED <<want, force, makefile, stamp, said, torn>>

WriteMakefile ==
    /\ at = "makefile"
    /\ makefile' = want.files
    /\ at' = "stamp"
    /\ UNCHANGED <<want, force, next, mods, stamp, said, torn>>

WriteStamp ==
    /\ at = "stamp"
    /\ stamp' = want
    /\ said' = "generated" /\ at' = "idle"
    /\ UNCHANGED <<want, force, next, mods, makefile, torn>>

(* Killed between two steps, or in the middle of writing a file: a cut     *)
(* Makefile has no objects.                                                *)
Killed ==
    /\ at # "idle"
    /\ \/ UNCHANGED tree
       \/ at = "write" /\ next < want.files /\ mods' = WithFile(next, Cut)
          /\ UNCHANGED <<makefile, stamp>>
       \/ at = "makefile" /\ makefile' = 0 /\ UNCHANGED <<mods, stamp>>
       \/ at = "stamp" /\ stamp' = Cut /\ UNCHANGED <<mods, makefile>>
    /\ at' = "idle" /\ said' = "killed"
    /\ torn' = (torn \/ at = "remove")
    /\ UNCHANGED <<want, force, next>>

Generate == RemoveEntry \/ Removed \/ WriteModule \/ WriteMakefile \/ WriteStamp

WNext == (\E w \in Want, f \in BOOLEAN : Main(w, f)) \/ Generate \/ Killed

WSpec == WInit /\ [][WNext]_wvars

-----------------------------------------------------------------------------
(* The tree is the one that was asked for, all of it.                      *)
Whole(w) ==
    /\ makefile = w.files
    /\ DOMAIN mods = 0 .. w.files - 1
    /\ \A i \in DOMAIN mods : mods[i] = w.text

(* "up to date" is said of a complete tree.  A removal that was cut short  *)
(* is the exception: rmtree may have kept the stamp and not the files.     *)
UpToDateIsComplete == said = "up to date" /\ at = "idle" /\ ~torn => Whole(want)
=============================================================================
