------------------------ MODULE MCProtectionCaches ------------------------
(* Small instances of ProtectionCaches. *)
EXTENDS ProtectionCaches, TLC

(* Every default starts at 1. *)
MCInitial == [k \in Keys |-> 1]

(* An override always names a level (key 1) and may name the flag (key 2). *)
MCOverrides == { r \in UNION {[D -> Values] : D \in SUBSET Keys} : 1 \in DOMAIN r }

MCSymmetry == Permutations(Tasks)
=============================================================================
