----------------------------- MODULE CommandOnce -----------------------------
(***************************************************************************)
(* What the command ledger promises its callers (crate                     *)
(* persistence/lifecycle, command_ledger): a command has one result, ever. *)
(* The result comes into being together with exactly one audit row and     *)
(* with the events the command announces, and every caller that is told a  *)
(* result is told that one, however many workers tried and however often   *)
(* they crashed in between.                                                *)
(***************************************************************************)
EXTENDS Naturals

CONSTANTS
  Commands,   \* command identities
  Results,    \* the terminal results a worker may compute
  NoResult    \* no result yet (none of Results)

VARIABLES
  outcome,    \* the result of each command
  audited,    \* how many audit rows each command has
  told        \* the results callers were told, per command

onceVars == <<outcome, audited, told>>

Init ==
  /\ outcome = [c \in Commands |-> NoResult]
  /\ audited = [c \in Commands |-> 0]
  /\ told = [c \in Commands |-> {}]

(* The command takes effect; the worker that did it knows the result. *)
Take(c, r) ==
  /\ outcome[c] = NoResult
  /\ outcome' = [outcome EXCEPT ![c] = r]
  /\ audited' = [audited EXCEPT ![c] = @ + 1]
  /\ told' = [told EXCEPT ![c] = @ \cup {r}]

(* Any later caller learns the recorded result. *)
Tell(c) ==
  /\ outcome[c] # NoResult
  /\ told' = [told EXCEPT ![c] = @ \cup {outcome[c]}]
  /\ UNCHANGED <<outcome, audited>>

Next ==
  \E c \in Commands : Tell(c) \/ \E r \in Results : Take(c, r)

Spec == Init /\ [][Next]_onceVars
=============================================================================
