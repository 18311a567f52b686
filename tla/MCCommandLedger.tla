--------------------------- MODULE MCCommandLedger ---------------------------
(***************************************************************************)
(* CommandLedger for TLC: three tasks, two of which present the same       *)
(* worker id.                                                              *)
(***************************************************************************)
EXTENDS CommandLedger, TLC

CONSTANTS w1, w2, t1, t2, t3

MCIdOf == t1 :> w1 @@ t2 :> w1 @@ t3 :> w2

ResultSymmetry == Permutations(Results)
=============================================================================
