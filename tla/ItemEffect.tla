----------------------------- MODULE ItemEffect -----------------------------
(***************************************************************************)
(* What the executor and boot reconciliation promise together of one plan  *)
(* item: its effect happens at most once and stays, and the record says    *)
(* `succeeded` only when it has happened.  The record itself may go back:  *)
(* a power loss takes the last commits with it.                            *)
(***************************************************************************)

VARIABLES
  done,     \* whether the effect is on disk
  record    \* plan_items.item_state

Records == {"pending", "applying", "succeeded", "failed"}

Init == done = FALSE /\ record = "pending"

Do == ~ done /\ done' = TRUE /\ UNCHANGED record

Note(r) == (r = "succeeded" => done) /\ record' = r /\ UNCHANGED done

Next == Do \/ \E r \in Records : Note(r)

Spec == Init /\ [][Next]_<<done, record>>
=============================================================================
