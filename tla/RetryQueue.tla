----------------------------- MODULE RetryQueue -----------------------------
(***************************************************************************)
(* The queue through which retry_plan_item hands a failed item back to the *)
(* live executor (fs_executor::run::RetryQueue).  It has a one-way         *)
(* open -> closed life, and an id accepted while it is open leaves it in   *)
(* only two ways: to the executor by drain_all, or to the task that closed *)
(* the run by take_orphaned.                                               *)
(*                                                                         *)
(* Every operation of the Rust type is one critical section of its mutex,  *)
(* so every operator below is one atomic step.  The orphan list is a Vec   *)
(* in the code; its order and duplicates are never looked at, so it is a   *)
(* set here.  RetryQueue::take has no caller outside the tests.            *)
(***************************************************************************)
CONSTANT Ids          \* ids of the items of the plan

VARIABLES open,       \* FALSE once the Option holding the set became None
          queued,     \* ids accepted and not yet drained
          orphaned    \* ids accepted that this run will never execute

queueVars == <<open, queued, orphaned>>

QueueTypeOK ==
  /\ open \in BOOLEAN
  /\ queued \subseteq Ids
  /\ orphaned \subseteq Ids

\* The handle of a plan that has no run: nothing can be pushed.
NoQueue == open = FALSE /\ queued = {} /\ orphaned = {}

\* RetryQueue::new, installed by the step that registers a run.
NewQueue == open' = TRUE /\ queued' = {} /\ orphaned' = {}

\* The registry entry, the executor or the process that held it is gone.
DropQueue == open' = FALSE /\ queued' = {} /\ orphaned' = {}

\* push, the branch that returns true.  Its other branch changes nothing.
Push(id) ==
  /\ open
  /\ queued' = queued \cup {id}
  /\ UNCHANGED <<open, orphaned>>

\* drain_all: the caller receives `queued`.
DrainAll == queued' = {} /\ UNCHANGED <<open, orphaned>>

\* (mutant) Closes over ids pushed since the last drain.
CloseAnyway ==
  /\ open' = FALSE
  /\ UNCHANGED <<queued, orphaned>>

\* close_if_empty, the branch that closes and returns true.
CloseIfEmpty ==
  /\ queued = {}
  /\ open' = FALSE
  /\ UNCHANGED <<queued, orphaned>>

\* orphan: drained ids handed back because nothing in this run executes them.
Orphan(ids) ==
  /\ orphaned' = orphaned \cup ids
  /\ UNCHANGED <<open, queued>>

\* (mutant) The ids still queued are dropped with the set.
OrphanAndForget(ids) ==
  /\ open' = FALSE
  /\ queued' = {}
  /\ orphaned' = orphaned \cup ids

\* orphan(ids) followed by close, the two calls of an early exit.  An id pushed
\* between them is orphaned by the close, as it is when pushed before both.
OrphanAndClose(ids) ==
  /\ open' = FALSE
  /\ queued' = {}
  /\ orphaned' = orphaned \cup ids \cup queued

\* take_orphaned: the caller receives `orphaned`.
TakeOrphaned == orphaned' = {} /\ UNCHANGED <<open, queued>>
=============================================================================
