-------------------------- MODULE MCEventDelivery --------------------------
(* Instances of EventDelivery for TLC: model values for launches and tasks. *)
EXTENDS EventDelivery

CONSTANTS l1, l2, s1, s2

(* Two launches, one of them published under the replay of the other; the  *)
(* forwarder beside a restart; two sweepers that find the same launch open. *)
MCSetups ==
  {[open |-> {l1, l2}, sweepers |-> {s1}, forwarder |-> FALSE,
    others |-> 0, faults |-> 1, restarts |-> 0],
   [open |-> {l1, l2}, sweepers |-> {s1}, forwarder |-> FALSE,
    others |-> 1, faults |-> 0, restarts |-> 0],
   [open |-> {l1}, sweepers |-> {s1}, forwarder |-> TRUE,
    others |-> 1, faults |-> 1, restarts |-> 1],
   [open |-> {l1}, sweepers |-> {s1, s2}, forwarder |-> FALSE,
    others |-> 1, faults |-> 0, restarts |-> 0]}
=============================================================================
