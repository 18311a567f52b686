--------------------------- MODULE MCArtifactWatch ---------------------------
(***************************************************************************)
(* ArtifactWatch for TLC: two files, in directories of their own.          *)
(***************************************************************************)
EXTENDS ArtifactWatch, TLC

CONSTANTS f1, f2, d1, d2

OwnDir == (f1 :> d1) @@ (f2 :> d2)

(* "out/a.xisf" and "old/a.xisf" have one base name. *)
OneName == [f \in Files |-> "a"]

OwnName == (f1 :> "a") @@ (f2 :> "b")

Swap == (f1 :> f2) @@ (f2 :> f1) @@ (d1 :> d2) @@ (d2 :> d1)

(* The attachers are alike, and so are the files with their directories. *)
WatchSymmetry == Permutations(Attachers) \cup {Swap}
=============================================================================
