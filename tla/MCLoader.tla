----------------------------- MODULE MCLoader -----------------------------
(***************************************************************************)
(* Small instances of Loader: three CPUs, the first one big.               *)
(***************************************************************************)
EXTENDS Loader

OneBigTwoLittle == [c \in CPU |-> IF c = 0 THEN BIG ELSE LITTLE]
=============================================================================
