---------------------------- MODULE PlanLifecycle ----------------------------
(***************************************************************************)
(* What a filesystem plan promises, whatever carries it out: its state     *)
(* follows the edges of the lifecycle table of domain_core, a file is      *)
(* moved only while its plan is `applying`, and it is moved once.          *)
(***************************************************************************)
CONSTANT Files        \* the files the plan's items relocate

VARIABLES state,      \* the plan's state
          moved       \* files that have reached their destination

\* lifecycle::plan::TRANSITIONS.
Transitions ==
  {<<"draft", "ready_for_review">>, <<"draft", "discarded">>,
   <<"ready_for_review", "approved">>, <<"ready_for_review", "draft">>,
   <<"ready_for_review", "discarded">>,
   <<"approved", "applying">>, <<"approved", "draft">>,
   <<"applying", "applied">>, <<"applying", "partially_applied">>,
   <<"applying", "failed">>, <<"applying", "cancelled">>,
   <<"applying", "paused">>,
   <<"paused", "applying">>, <<"paused", "cancelled">>}

Init == state \in {"draft", "approved"} /\ moved = {}

Transition == <<state, state'>> \in Transitions /\ UNCHANGED moved

Move(f) ==
  /\ state = "applying"
  /\ f \notin moved
  /\ moved' = moved \cup {f}
  /\ UNCHANGED state

Next == Transition \/ \E f \in Files : Move(f)

Spec == Init /\ [][Next]_<<state, moved>>
=============================================================================
