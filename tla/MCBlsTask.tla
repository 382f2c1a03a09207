----------------------------- MODULE MCBlsTask -----------------------------
(***************************************************************************)
(* Small instances of BlsTask on a big and a little CPU.                   *)
(***************************************************************************)
EXTENDS BlsTask, TLC

OneBigOneLittle == (0 :> BIG) @@ (1 :> LITTLE)

InStep == [c \in CPU |-> 0]
LittleAhead == (0 :> 0) @@ (1 :> 3)
=============================================================================
