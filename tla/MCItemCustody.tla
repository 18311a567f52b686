---------------------------- MODULE MCItemCustody ---------------------------
(***************************************************************************)
(* ItemCustody for TLC: every kind of item.                                *)
(***************************************************************************)
EXTENDS ItemCustody

EveryKind == AllKinds
=============================================================================
