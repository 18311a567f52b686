------------------------------ MODULE PlanApply ------------------------------
(***************************************************************************)
(* One filesystem plan from `approved` to a terminal state: the use cases  *)
(* apply, cancel, skip, retry and resume (app_core::plan_apply), the       *)
(* executor task they start (fs_executor::run), the rows they share in     *)
(* SQLite (persistence_plans), and the boot task that sweeps and           *)
(* reconciles after a crash.                                               *)
(*                                                                         *)
(* Every item relocates one file (`move`, `archive`) under an approval-    *)
(* time snapshot of its source.  A step is one SQLite transaction, one     *)
(* critical section of an in-memory lock, or one filesystem operation;     *)
(* neighbouring steps are merged only where nothing else can tell.         *)
(***************************************************************************)
EXTENDS Integers, FiniteSets

CONSTANTS
  N,             \* items of the plan, in item_index order
  Callers,       \* concurrent invocations of the commands
  Ops,           \* the commands the callers issue
  Rootless,      \* items whose path the boot task cannot resolve: no root id
                 \* (archive and cleanup plans), or its root is not registered
  FlushLimit,    \* FLUSH_ITEM_COUNT: a buffer this long is flushed
  BootRace,      \* TRUE: commands may arrive before the boot task is done
  MaxCommands,   \* bound: commands issued
  MaxCrashes,    \* bound: crashes of the process
  MaxDbFails     \* bound: database accesses that fail

ASSUME PlanApplyAssumption ==
  /\ N \in Nat
  /\ Ops \subseteq {"apply", "cancel", "skip", "retry", "resume"}
  /\ Rootless \subseteq 1..N
  /\ FlushLimit \in Nat \ {0}
  /\ BootRace \in BOOLEAN
  /\ MaxCommands \in Nat
  /\ MaxCrashes \in Nat
  /\ MaxDbFails \in Nat

Items == 1..N

VARIABLES
  \* The database.
  planState,     \* plans.state; the run row's terminal_state moves with it
  row,           \* plan_items.item_state
  cnt,           \* plans.items_applied, _failed, _skipped, _cancelled
  \* The registry entry of the plan and the handles it shares.
  reg,           \* active_runs() holds an entry for the plan
  cancelTok,     \* CancellationToken
  skipSet,       \* SkipSet
  open, queued, orphaned,              \* RetryQueue
  \* The executor task.
  pc,            \* where the task is; "off" when there is none
  ahead,         \* pending items the forward pass has not reached
  known,         \* ids in item_by_id
  cur,           \* the item in process_single_item, 0 when none
  batch,         \* ids drained (or taken as orphans) and not yet handled
  buf,           \* FlushBuffer: last state per item and counter deltas
  outcome,       \* ApplyOutcome
  seen,          \* counters read by cumulative_counts
  pausing,       \* a task that dropped its guard has pause_run still to do
  \* The commands in flight, the boot task, the files, the bounds.
  cmd,
  bootPc, bootTodo,
  disk,          \* "source": unmoved, "done": moved, "both": copied, not removed
  issued, crashes, dbFails,
  \* History: retries the current entry's queue accepted and that are not
  \* settled, a cancel answered since the last spawn, items whose skip was
  \* answered before the pass reached them.
  accepted, cancelAcked, skipAcked

RQ == INSTANCE RetryQueue WITH Ids <- Items

dbVars    == <<planState, row, cnt>>
entryVars == <<reg, cancelTok, skipSet>>
queueVars == <<open, queued, orphaned>>
passVars  == <<pc, ahead, known, cur, batch, outcome>>
execVars  == <<passVars, buf, seen, pausing>>
bootVars  == <<bootPc, bootTodo>>
boundVars == <<issued, crashes, dbFails>>
ghostVars == <<accepted, cancelAcked, skipAcked>>
vars == <<dbVars, entryVars, queueVars, execVars, cmd, bootVars, disk,
          boundVars, ghostVars>>

-----------------------------------------------------------------------------
(* Data.                                                                   *)

PlanStates == {"approved", "applying", "paused", "applied",
               "partially_applied", "failed", "cancelled"}

Terminal == {"applied", "partially_applied", "failed", "cancelled"}

RowStates == {"pending", "applying", "succeeded", "failed", "skipped",
              "cancelled"}

Counts == [applied : Nat, failed : Nat, skipped : Nat, cancelled : Nat]

ZeroCounts == [applied |-> 0, failed |-> 0, skipped |-> 0, cancelled |-> 0]

Buffers == [last : [Items -> {"none", "succeeded", "failed", "skipped"}],
            applied : Nat, failed : Nat, skipped : Nat]

EmptyBuf == [last |-> [i \in Items |-> "none"],
             applied |-> 0, failed |-> 0, skipped |-> 0]

AllPending == [i \in Items |-> "pending"]

\* A caller with no command in flight, and the fields a command carries: the
\* rows (snap) and the counters (base) it read, the item it names, and whether
\* its SkipSet handle is the registered run's.
NoCmd == [at |-> "idle", op |-> "none", item |-> 0, snap |-> AllPending,
          base |-> ZeroCounts, fresh |-> FALSE]

RowsIn(states) == {i \in Items : row[i] \in states}

\* The rows resume_plan hands to the forward pass, and the ones it adds so that
\* a retry of an item that failed before the pause can be found.
ForwardRows(rows) == {i \in Items : rows[i] = "pending"}

ResumedRows(rows) == {i \in Items : rows[i] \in {"pending", "failed"}}

\* The next of S in item_index order.
IsFirst(i, S) == i \in S /\ \A j \in S : i <= j

\* TerminalCounts::terminal_state(false): skipped and cancelled are not read.
TerminalState(c) ==
  CASE c.applied > 0 /\ c.failed = 0 -> "applied"
    [] c.applied > 0 /\ c.failed > 0 -> "partially_applied"
    [] OTHER                         -> "failed"

\* A database access that fails; unless it says so, the caller's step leaves
\* the rows alone.
DbFails == dbFails < MaxDbFails /\ dbFails' = dbFails + 1

-----------------------------------------------------------------------------
(* The repository's transactions on item rows.                             *)

\* The buffer after on_item_progress pushes item i in terminal state s.
Buffered(i, s) ==
  [last    |-> [buf.last EXCEPT ![i] = s],
   applied |-> IF s = "succeeded" THEN buf.applied + 1 ELSE buf.applied,
   failed  |-> IF s = "failed" THEN buf.failed + 1 ELSE buf.failed,
   skipped |-> IF s = "skipped" THEN buf.skipped + 1 ELSE buf.skipped]

Size(b) == b.applied + b.failed + b.skipped

\* flush: every buffered item is written by id, whatever its row holds, with
\* one counter update.  A flush that fails is not repeated by a later one.
Flush(b) ==
  /\ buf' = EmptyBuf
  /\ \/ /\ row' = [i \in Items |-> IF b.last[i] = "none" THEN row[i]
                                                         ELSE b.last[i]]
        /\ cnt' = [cnt EXCEPT !.applied = @ + b.applied,
                              !.failed  = @ + b.failed,
                              !.skipped = @ + b.skipped]
        /\ UNCHANGED dbFails
     \/ /\ Size(b) > 0
        /\ DbFails
        /\ UNCHANGED <<row, cnt>>

\* on_item_progress: push, then flush when the buffer is full or its window
\* has elapsed.
Report(i, s) ==
  LET b == Buffered(i, s) IN
    \/ Size(b) < FlushLimit /\ buf' = b /\ UNCHANGED <<row, cnt, dbFails>>
    \/ Flush(b)

\* batch_cancel_pending_items and cancel_orphaned_applying_items.
CancelRows(state) ==
  /\ row' = [i \in Items |-> IF row[i] = state THEN "cancelled" ELSE row[i]]
  /\ cnt' = [cnt EXCEPT !.cancelled = @ + Cardinality(RowsIn({state}))]

\* (mutant) The counter goes below zero.
RetryApplyingUnchecked(i) ==
  /\ row' = [row EXCEPT ![i] = IF @ = "failed" THEN "applying" ELSE @]
  /\ cnt' = [cnt EXCEPT !.failed = @ - 1]

\* item_retry_applying: the row update is guarded, the counter is not.
RetryApplying(i) ==
  /\ row' = [row EXCEPT ![i] = IF @ = "failed" THEN "applying" ELSE @]
  /\ cnt' = [cnt EXCEPT !.failed = IF @ > 0 THEN @ - 1 ELSE @]

\* item_retry_rollback_to_failed: both updates only if the row is `applying`.
RollbackToFailed(i) ==
  IF row[i] = "applying"
  THEN /\ row' = [row EXCEPT ![i] = "failed"]
       /\ cnt' = [cnt EXCEPT !.failed = @ + 1]
  ELSE UNCHANGED <<row, cnt>>

-----------------------------------------------------------------------------
(* Commands.  A caller runs one at a time; a refusal that changes nothing  *)
(* is not a step.                                                          *)

Begin(c, command) ==
  /\ cmd[c].at = "idle"
  /\ command.op \in Ops
  /\ BootRace \/ bootPc = "done"
  /\ issued < MaxCommands
  /\ issued' = issued + 1
  /\ cmd' = [cmd EXCEPT ![c] = command]
  /\ UNCHANGED <<crashes, dbFails>>

At(c, op, where) == cmd[c].op = op /\ cmd[c].at = where

Goto(c, where) == cmd' = [cmd EXCEPT ![c].at = where]

Return(c) == cmd' = [cmd EXCEPT ![c] = NoCmd]

\* (mutant) The entry stays in the registry.
DropGuardKeepsEntry ==
  UNCHANGED reg /\ cancelTok' = FALSE /\ skipSet' = {} /\ RQ!DropQueue

\* ActiveRunGuard::drop.
DropGuard == reg' = FALSE /\ cancelTok' = FALSE /\ skipSet' = {} /\ RQ!DropQueue

\* apply_plan reads the plan row and checks its state and token, resume_plan
\* the plan row, its run and whether the pause condition is gone; ...
Start(c, op, state) ==
  /\ planState = state
  /\ Begin(c, [NoCmd EXCEPT !.at = "load", !.op = op])
  /\ UNCHANGED <<dbVars, entryVars, queueVars, execVars, bootVars, disk, ghostVars>>

ApplyRead(c) == Start(c, "apply", "approved")

ResumeRead(c) == Start(c, "resume", "paused")

\* ... then both read the item rows.
Load(c) ==
  /\ cmd[c].at = "load"
  /\ cmd' = [cmd EXCEPT ![c].at = "register", ![c].snap = row]
  /\ UNCHANGED <<dbVars, entryVars, queueVars, execVars, bootVars, disk,
                 boundVars, ghostVars>>

\* check_overlap_and_register: an entry of the same plan refuses the run.  A
\* SkipSet handle cloned from an earlier entry belongs to no run from here on.
Register(c) ==
  /\ cmd[c].at = "register"
  /\ IF reg
     THEN Return(c) /\ UNCHANGED <<entryVars, queueVars, accepted>>
     ELSE /\ reg' = TRUE
          /\ accepted' = {}
          /\ cancelTok' = FALSE
          /\ skipSet' = {}
          /\ RQ!NewQueue
          /\ cmd' = [d \in Callers |->
                       IF d = c THEN [cmd[d] EXCEPT !.at = "claim"]
                                ELSE [cmd[d] EXCEPT !.fresh = FALSE]]
  /\ UNCHANGED <<dbVars, execVars, bootVars, disk, boundVars, cancelAcked,
                 skipAcked>>

\* cas_approved_to_applying and resume_run.  An error drops the guard.
Claim(c) ==
  /\ cmd[c].at = "claim"
  /\ \/ /\ planState = (IF cmd[c].op = "apply" THEN "approved" ELSE "paused")
        /\ planState' = "applying"
        /\ Goto(c, "spawn")
        /\ UNCHANGED <<entryVars, queueVars, dbFails>>
     \/ /\ \/ /\ planState # (IF cmd[c].op = "apply" THEN "approved" ELSE "paused")
              /\ UNCHANGED dbFails
           \/ DbFails
        /\ DropGuard
        /\ Return(c)
        /\ UNCHANGED planState
  /\ UNCHANGED <<row, cnt, execVars, bootVars, disk, issued, crashes, ghostVars>>

\* The tail of apply_plan and resume_plan: spawn_executor_run over the rows
\* that were read.  apply_plan hands every row over and the loop skips the
\* terminal ones, resume_plan filters out all but `pending` and `failed`.
Spawn(c) ==
  /\ cmd[c].at = "spawn"
  /\ pc' = "pass"
  /\ ahead' = ForwardRows(cmd[c].snap)
  /\ known' = IF cmd[c].op = "apply" THEN Items ELSE ResumedRows(cmd[c].snap)
  /\ buf' = EmptyBuf
  /\ Return(c)
  /\ cancelAcked' = FALSE
  /\ UNCHANGED <<dbVars, entryVars, queueVars, cur, batch, outcome, seen,
                 pausing, bootVars, disk, boundVars, accepted, skipAcked>>

\* The claim is committed, but no connection is left for its checkpoint or the
\* started or resumed event cannot be published: the error drops the guard and
\* the plan stays `applying`.
LaunchFails(c) ==
  /\ cmd[c].at = "spawn"
  /\ DbFails
  /\ DropGuard
  /\ Return(c)
  /\ UNCHANGED <<dbVars, execVars, bootVars, disk, issued, crashes, ghostVars>>

\* cancel_plan: the plan row is read...
CancelRead(c) ==
  /\ planState \in {"applying", "paused"}
  /\ Begin(c, [NoCmd EXCEPT !.at = planState, !.op = "cancel", !.base = cnt])
  /\ UNCHANGED <<dbVars, entryVars, queueVars, execVars, bootVars, disk, ghostVars>>

\* ... and the registered run, if any, is signalled.  With no run and a plan
\* that was `applying` the answer is still Ok.
CancelSignal(c) ==
  /\ cmd[c].op = "cancel" /\ cmd[c].at \in {"applying", "paused"}
  /\ IF ~reg /\ cmd[c].at = "paused"
     THEN Goto(c, "pendings") /\ UNCHANGED <<cancelTok, cancelAcked>>
     ELSE /\ cancelTok' = reg
          /\ Return(c)
          /\ cancelAcked' = TRUE
  /\ UNCHANGED <<dbVars, reg, skipSet, queueVars, execVars, bootVars, disk,
                 boundVars, accepted, skipAcked>>

\* The paused branch: pending rows, orphaned `applying` rows, then the plan
\* with the counters of the first read.  Any error is returned there and then.
CancelRowsOf(c, where, state, next) ==
  /\ At(c, "cancel", where)
  /\ \/ /\ CancelRows(state)
        /\ cmd' = [cmd EXCEPT ![c].at = next,
                              ![c].base.cancelled = @ + Cardinality(RowsIn({state}))]
        /\ UNCHANGED dbFails
     \/ DbFails /\ Return(c) /\ UNCHANGED <<row, cnt>>
  /\ UNCHANGED <<planState, entryVars, queueVars, execVars, bootVars, disk,
                 issued, crashes, ghostVars>>

CancelPendings(c) == CancelRowsOf(c, "pendings", "pending", "orphans")

CancelOrphans(c) == CancelRowsOf(c, "orphans", "applying", "finish")

CancelFinish(c) ==
  /\ At(c, "cancel", "finish")
  /\ \/ /\ planState' = "cancelled"
        /\ cnt' = cmd[c].base
        /\ cancelAcked' = TRUE
        /\ UNCHANGED dbFails
     \/ DbFails /\ UNCHANGED <<planState, cnt, cancelAcked>>
  /\ Return(c)
  /\ UNCHANGED <<row, entryVars, queueVars, execVars, bootVars, disk,
                 issued, crashes, accepted, skipAcked>>

\* skip_plan_item: state, row and registry are checked and the SkipSet handle
\* cloned; then the guarded row update; then the insert that stops the loop.
SkipCheck(c, i) ==
  /\ planState = "applying" /\ row[i] = "pending" /\ reg
  /\ Begin(c, [NoCmd EXCEPT !.at = "write", !.op = "skip", !.item = i,
                            !.fresh = TRUE])
  /\ UNCHANGED <<dbVars, entryVars, queueVars, execVars, bootVars, disk, ghostVars>>

SkipWrite(c) ==
  /\ At(c, "skip", "write")
  /\ \/ /\ row[cmd[c].item] = "pending"
        /\ row' = [row EXCEPT ![cmd[c].item] = "skipped"]
        /\ Goto(c, "mark")
        /\ UNCHANGED dbFails
     \/ /\ \/ row[cmd[c].item] # "pending" /\ UNCHANGED dbFails
           \/ DbFails
        /\ Return(c)
        /\ UNCHANGED row
  /\ UNCHANGED <<planState, cnt, entryVars, queueVars, execVars, bootVars, disk,
                 issued, crashes, ghostVars>>

SkipMark(c) ==
  LET i == cmd[c].item IN
  /\ At(c, "skip", "mark")
  /\ skipSet' = IF reg /\ cmd[c].fresh THEN skipSet \cup {i} ELSE skipSet
  /\ skipAcked' = IF i \in ahead \/ (pc = "off" /\ row[i] = "skipped")
                  THEN skipAcked \cup {i} ELSE skipAcked
  /\ Return(c)
  /\ UNCHANGED <<dbVars, reg, cancelTok, queueVars, execVars, bootVars, disk,
                 boundVars, accepted, cancelAcked>>

\* retry_plan_item: the same checks, then the row flip, then the push, which a
\* missing entry or a closed queue refuses, and then the flip is rolled back.
RetryCheck(c, i) ==
  /\ planState = "applying" /\ row[i] = "failed" /\ reg
  /\ Begin(c, [NoCmd EXCEPT !.at = "flip", !.op = "retry", !.item = i])
  /\ UNCHANGED <<dbVars, entryVars, queueVars, execVars, bootVars, disk, ghostVars>>

RetryFlip(c) ==
  /\ At(c, "retry", "flip")
  /\ \/ RetryApplying(cmd[c].item) /\ Goto(c, "push") /\ UNCHANGED dbFails
     \/ DbFails /\ Return(c) /\ UNCHANGED <<row, cnt>>
  /\ UNCHANGED <<planState, entryVars, queueVars, execVars, bootVars, disk,
                 issued, crashes, ghostVars>>

RetryPush(c) ==
  /\ At(c, "retry", "push")
  /\ IF reg /\ open
     THEN /\ RQ!Push(cmd[c].item)
          /\ accepted' = accepted \cup {cmd[c].item}
          /\ Return(c)
     ELSE Goto(c, "undo") /\ UNCHANGED <<queueVars, accepted>>
  /\ UNCHANGED <<dbVars, entryVars, execVars, bootVars, disk, boundVars,
                 cancelAcked, skipAcked>>

RetryUndo(c) ==
  /\ At(c, "retry", "undo")
  /\ \/ RollbackToFailed(cmd[c].item) /\ UNCHANGED dbFails
     \/ DbFails /\ UNCHANGED <<row, cnt>>
  /\ Return(c)
  /\ UNCHANGED <<planState, entryVars, queueVars, execVars, bootVars, disk,
                 issued, crashes, ghostVars>>

Command(c) ==
  \/ Load(c) \/ Register(c) \/ Claim(c) \/ Spawn(c) \/ LaunchFails(c)
  \/ CancelSignal(c) \/ CancelPendings(c) \/ CancelOrphans(c) \/ CancelFinish(c)
  \/ SkipWrite(c) \/ SkipMark(c)
  \/ RetryFlip(c) \/ RetryPush(c) \/ RetryUndo(c)

Issue(c) ==
  \/ ApplyRead(c) \/ ResumeRead(c) \/ CancelRead(c)
  \/ \E i \in Items : SkipCheck(c, i) \/ RetryCheck(c, i)

-----------------------------------------------------------------------------
(* The executor task: drive_plan.                                          *)

Pick(i, where) == cur' = i /\ pc' = where

\* A run over: the queue is closed, ids still in hand become orphans.
Halt(how, rest) ==
  /\ outcome' = how
  /\ pc' = "flush"
  /\ cur' = 0
  /\ batch' = {}
  /\ RQ!OrphanAndClose(rest)

\* The top of the loop: cancellation, then a user's skip, then the item.
PassCancelled ==
  /\ pc = "pass" /\ ahead # {} /\ cancelTok
  /\ Halt("cancelled", {})
  /\ UNCHANGED <<dbVars, entryVars, ahead, known, buf, seen, pausing, cmd,
                 bootVars, disk, boundVars, ghostVars>>

PassSkip ==
  /\ pc = "pass" /\ ~cancelTok
  /\ \E i \in Items :
       /\ IsFirst(i, ahead)
       /\ i \in skipSet
       /\ skipSet' = skipSet \ {i}
       /\ ahead' = ahead \ {i}
       /\ Report(i, "skipped")
  /\ UNCHANGED <<planState, reg, cancelTok, queueVars, pc, known, cur, batch,
                 outcome, seen, pausing, cmd, bootVars, disk, issued, crashes,
                 ghostVars>>

\* (mutant) The token is not read.
PassStartCancelled ==
  /\ pc = "pass"
  /\ \E i \in Items :
       /\ IsFirst(i, ahead)
       /\ i \notin skipSet
       /\ Pick(i, "work")
       /\ ahead' = ahead \ {i}
  /\ UNCHANGED <<dbVars, entryVars, queueVars, known, batch, outcome, buf, seen,
                 pausing, cmd, bootVars, disk, boundVars, ghostVars>>

\* (mutant) The SkipSet is not read.
PassStartSkipped ==
  /\ pc = "pass" /\ ~cancelTok
  /\ \E i \in Items :
       /\ IsFirst(i, ahead)
       /\ Pick(i, "work")
       /\ ahead' = ahead \ {i}
  /\ UNCHANGED <<dbVars, entryVars, queueVars, known, batch, outcome, buf, seen,
                 pausing, cmd, bootVars, disk, boundVars, ghostVars>>

PassStart ==
  /\ pc = "pass" /\ ~cancelTok
  /\ \E i \in Items :
       /\ IsFirst(i, ahead)
       /\ i \notin skipSet
       /\ Pick(i, "work")
       /\ ahead' = ahead \ {i}
  /\ UNCHANGED <<dbVars, entryVars, queueVars, known, batch, outcome, buf, seen,
                 pausing, cmd, bootVars, disk, boundVars, ghostVars>>

\* The end of the pass: close_if_empty, else another drain.
PassComplete ==
  /\ pc = "pass" /\ ahead = {}
  /\ RQ!CloseIfEmpty
  /\ outcome' = "completed"
  /\ pc' = "flush"
  /\ UNCHANGED <<dbVars, entryVars, ahead, known, cur, batch, buf, seen, pausing,
                 cmd, bootVars, disk, boundVars, ghostVars>>

\* drain_retries, after each item of the pass and at its end.
Drain ==
  /\ pc = "drain" \/ (pc = "pass" /\ ahead = {} /\ queued # {})
  /\ RQ!DrainAll
  /\ batch' = queued
  /\ pc' = IF queued = {} THEN "pass" ELSE "batch"
  /\ UNCHANGED <<dbVars, entryVars, ahead, known, cur, outcome, buf, seen,
                 pausing, cmd, bootVars, disk, boundVars, ghostVars>>

BatchCancelled ==
  /\ pc = "batch" /\ cancelTok
  /\ Halt("cancelled", batch)
  /\ UNCHANGED <<dbVars, entryVars, ahead, known, buf, seen, pausing, cmd,
                 bootVars, disk, boundVars, ghostVars>>

BatchStart ==
  /\ pc = "batch" /\ ~cancelTok
  /\ \E i \in batch \cap known : Pick(i, "rework") /\ batch' = batch \ {i}
  /\ UNCHANGED <<dbVars, entryVars, queueVars, ahead, known, outcome, buf, seen,
                 pausing, cmd, bootVars, disk, boundVars, ghostVars>>

AfterBatch(rest) == IF rest = {} THEN "pass" ELSE "batch"

BatchUnknown ==
  /\ pc = "batch" /\ ~cancelTok
  /\ \E i \in batch \ known :
       /\ RQ!Orphan({i})
       /\ batch' = batch \ {i}
       /\ pc' = AfterBatch(batch \ {i})
  /\ UNCHANGED <<dbVars, entryVars, ahead, known, cur, outcome, buf, seen,
                 pausing, cmd, bootVars, disk, boundVars, ghostVars>>

\* process_single_item.  What one item can come to: refused by a gate, stale,
\* protected or an I/O error with the file where it was; moved; or copied with
\* the source left behind.  A source already gone is `source.missing`, an
\* occupied destination a conflict.
Results(d) ==
  {<<d, "failed">>} \cup
  (IF d = "source" THEN {<<"done", "succeeded">>, <<"both", "failed">>} ELSE {})

\* The failures that pause the run leave the file where it was.
WorkPauses ==
  /\ pc \in {"work", "rework"}
  /\ Report(cur, "failed")
  /\ Halt("paused", batch)
  /\ accepted' = accepted \ {cur}
  /\ UNCHANGED <<planState, entryVars, ahead, known, seen, pausing, cmd, bootVars,
                 disk, issued, crashes, cancelAcked, skipAcked>>

WorkEnds ==
  /\ pc \in {"work", "rework"}
  /\ \E r \in Results(disk[cur]) :
       /\ disk' = [disk EXCEPT ![cur] = r[1]]
       /\ Report(cur, r[2])
  /\ cur' = 0
  /\ pc' = IF pc = "work" THEN "drain" ELSE AfterBatch(batch)
  /\ accepted' = accepted \ {cur}
  /\ UNCHANGED <<planState, entryVars, queueVars, ahead, known, batch, outcome,
                 seen, pausing, cmd, bootVars, issued, crashes, cancelAcked,
                 skipAcked>>

-----------------------------------------------------------------------------
(* The end of the task: spawn_executor_run after execute_plan returns.     *)

\* (mutant) The buffer is dropped, not written.
FinalFlushLost ==
  /\ pc = "flush"
  /\ buf' = EmptyBuf /\ UNCHANGED <<row, cnt, dbFails>>
  /\ batch' = orphaned
  /\ RQ!TakeOrphaned
  /\ pc' = "restore"
  /\ UNCHANGED <<planState, entryVars, ahead, known, cur, outcome, seen, pausing,
                 cmd, bootVars, disk, issued, crashes, ghostVars>>

\* (mutant) The orphaned retries are not given back.
FinalFlushKeepsOrphans ==
  /\ pc = "flush"
  /\ Flush(buf)
  /\ UNCHANGED <<batch, queueVars>>
  /\ pc' = "restore"
  /\ UNCHANGED <<planState, entryVars, ahead, known, cur, outcome, seen, pausing,
                 cmd, bootVars, disk, issued, crashes, ghostVars>>

FinalFlush ==
  /\ pc = "flush"
  /\ Flush(buf)
  /\ batch' = orphaned
  /\ RQ!TakeOrphaned
  /\ pc' = "restore"
  /\ UNCHANGED <<planState, entryVars, ahead, known, cur, outcome, seen, pausing,
                 cmd, bootVars, disk, issued, crashes, ghostVars>>

\* restore_unexecuted_retries, one id at a time.
Restore ==
  /\ pc = "restore"
  /\ \E i \in batch :
       /\ \/ RollbackToFailed(i) /\ UNCHANGED dbFails
          \/ DbFails /\ UNCHANGED <<row, cnt>>
       /\ batch' = batch \ {i}
       /\ accepted' = accepted \ {i}
  /\ UNCHANGED <<planState, entryVars, queueVars, pc, ahead, known, cur, outcome,
                 buf, seen, pausing, cmd, bootVars, disk, issued, crashes,
                 cancelAcked, skipAcked>>

\* The task's own state is gone with it.
TaskOver == pc' = "off" /\ ahead' = {} /\ known' = {} /\ outcome' = "none"

\* (mutant) The cancelled handler leaves the pending rows.
DispatchLeavesPending ==
  /\ pc = "restore" /\ batch = {}
  /\ IF outcome = "paused"
     THEN DropGuard /\ TaskOver /\ pausing' = TRUE
     ELSE /\ pc' = "orphans"
          /\ UNCHANGED <<entryVars, queueVars, ahead, known, outcome, pausing>>
  /\ UNCHANGED <<dbVars, cur, batch, buf, seen, cmd, bootVars, disk, boundVars,
                 ghostVars>>

\* The outcome's handler.  A paused run releases its entry before the paused
\* state is written; `pausing` is what is left of that task.
Dispatch ==
  /\ pc = "restore" /\ batch = {}
  /\ IF outcome = "paused"
     THEN DropGuard /\ TaskOver /\ pausing' = TRUE
     ELSE /\ pc' = IF outcome = "cancelled" THEN "pendings" ELSE "orphans"
          /\ UNCHANGED <<entryVars, queueVars, ahead, known, outcome, pausing>>
  /\ UNCHANGED <<dbVars, cur, batch, buf, seen, cmd, bootVars, disk, boundVars,
                 ghostVars>>

\* (mutant) The paused state is never written.
PauseRunForgotten ==
  /\ pausing
  /\ pausing' = FALSE
  /\ UNCHANGED <<planState, dbFails>>
  /\ UNCHANGED <<row, cnt, entryVars, queueVars, passVars, buf, seen, cmd,
                 bootVars, disk, issued, crashes, ghostVars>>

\* handle_paused: pause_run puts the plan to `paused` whatever its state.
PauseRun ==
  /\ pausing
  /\ pausing' = FALSE
  /\ \/ planState' = "paused" /\ UNCHANGED dbFails
     \/ DbFails /\ UNCHANGED planState
  /\ UNCHANGED <<row, cnt, entryVars, queueVars, passVars, buf, seen, cmd,
                 bootVars, disk, issued, crashes, ghostVars>>

\* cancel_pending_items, and the sweep of orphaned `applying` rows that both
\* handlers share.  A failure is logged and the handler goes on.
HandlerCancels(where, state, next) ==
  /\ pc = where
  /\ pc' = next
  /\ \/ CancelRows(state) /\ UNCHANGED dbFails
     \/ DbFails /\ UNCHANGED <<row, cnt>>
  /\ UNCHANGED <<planState, entryVars, queueVars, ahead, known, cur, batch,
                 outcome, buf, seen, pausing, cmd, bootVars, disk, issued, crashes,
                 ghostVars>>

EndPendings == HandlerCancels("pendings", "pending", "orphans")

EndOrphans == HandlerCancels("orphans", "applying", "count")

\* cumulative_counts.
EndCount ==
  /\ pc = "count"
  /\ seen' = cnt
  /\ pc' = "complete"
  /\ UNCHANGED <<dbVars, entryVars, queueVars, ahead, known, cur, batch, outcome,
                 buf, pausing, cmd, bootVars, disk, boundVars, ghostVars>>

\* complete_run writes the counters that were read, whatever they are now.
EndComplete ==
  /\ pc = "complete"
  /\ \/ /\ planState' = IF outcome = "cancelled" THEN "cancelled"
                                                 ELSE TerminalState(seen)
        /\ cnt' = seen
        /\ UNCHANGED dbFails
     \/ DbFails /\ UNCHANGED <<planState, cnt>>
  /\ seen' = ZeroCounts
  /\ pc' = "release"
  /\ UNCHANGED <<row, entryVars, queueVars, ahead, known, cur, batch, outcome, buf,
                 pausing, cmd, bootVars, disk, issued, crashes, ghostVars>>

Release ==
  /\ pc = "release"
  /\ DropGuard
  /\ TaskOver
  /\ UNCHANGED <<dbVars, cur, batch, buf, seen, pausing, cmd, bootVars, disk,
                 boundVars, ghostVars>>

Executor ==
  \/ PassCancelled \/ PassSkip \/ PassStart \/ PassComplete
  \/ Drain \/ BatchCancelled \/ BatchStart \/ BatchUnknown
  \/ WorkPauses \/ WorkEnds
  \/ FinalFlush \/ Restore \/ Dispatch \/ PauseRun
  \/ EndPendings \/ EndOrphans \/ EndCount \/ EndComplete \/ Release

-----------------------------------------------------------------------------
(* A crash, and the boot task of the next process.                         *)

\* The item being moved may be anywhere between untouched and moved.
Crash ==
  /\ crashes < MaxCrashes
  /\ crashes' = crashes + 1
  /\ disk' \in IF cur # 0 /\ disk[cur] = "source"
               THEN {[disk EXCEPT ![cur] = d] : d \in {"source", "both", "done"}}
               ELSE {disk}
  /\ DropGuard
  /\ TaskOver
  /\ cur' = 0 /\ batch' = {} /\ buf' = EmptyBuf /\ seen' = ZeroCounts
  /\ pausing' = FALSE
  /\ cmd' = [c \in Callers |-> NoCmd]
  /\ bootPc' = "sweep" /\ bootTodo' = {}
  /\ accepted' = {} /\ cancelAcked' = FALSE
  /\ UNCHANGED <<dbVars, issued, dbFails, skipAcked>>

\* (mutant) The sweep takes plans of any state.
BootSweepAnyState ==
  /\ bootPc = "sweep"
  /\ \/ planState' = "paused" /\ bootPc' = "list" /\ UNCHANGED dbFails
     \/ DbFails /\ bootPc' = "done" /\ UNCHANGED planState
  /\ UNCHANGED <<row, cnt, entryVars, queueVars, execVars, cmd, bootTodo, disk,
                 issued, crashes, ghostVars>>

\* sweep_crashed_applying_plans: only what it flips is reconciled.
BootSweep ==
  /\ bootPc = "sweep"
  /\ \/ /\ planState = "applying"
        /\ planState' = "paused"
        /\ bootPc' = "list"
        /\ UNCHANGED dbFails
     \/ /\ \/ planState # "applying" /\ UNCHANGED dbFails
           \/ DbFails
        /\ bootPc' = "done"
        /\ UNCHANGED planState
  /\ UNCHANGED <<row, cnt, entryVars, queueVars, execVars, cmd, bootTodo, disk,
                 issued, crashes, ghostVars>>

\* (mutant) Only the rows in flight are checked against the disk.
BootListApplying ==
  /\ bootPc = "list"
  /\ \/ /\ bootTodo' = RowsIn({"applying"})
        /\ bootPc' = IF RowsIn({"applying"}) = {} THEN "done" ELSE "items"
        /\ UNCHANGED dbFails
     \/ DbFails /\ bootPc' = "done" /\ UNCHANGED bootTodo
  /\ UNCHANGED <<dbVars, entryVars, queueVars, execVars, cmd, disk, issued,
                 crashes, ghostVars>>

\* list_unreconciled_items.
BootList ==
  /\ bootPc = "list"
  /\ \/ /\ bootTodo' = RowsIn({"pending", "applying"})
        /\ bootPc' = IF RowsIn({"pending", "applying"}) = {} THEN "done" ELSE "items"
        /\ UNCHANGED dbFails
     \/ DbFails /\ bootPc' = "done" /\ UNCHANGED bootTodo
  /\ UNCHANGED <<dbVars, entryVars, queueVars, execVars, cmd, disk, issued,
                 crashes, ghostVars>>

\* reconcile::classify for a relocation, and record_reconciled_outcome, which
\* writes the row by id.  An item whose path cannot be resolved is ambiguous
\* whatever the disk shows, also when it is the lookup of its root that fails:
\* the executor, which takes an absolute path without a root, may have moved it
\* or not.  Any other error ends the pass.
BootItem ==
  /\ bootPc = "items"
  /\ \/ \E i \in Items :
          /\ IsFirst(i, bootTodo)
          /\ \/ /\ disk[i] = "source" /\ i \notin Rootless
                /\ UNCHANGED <<row, cnt, dbFails>>
             \/ /\ disk[i] = "done" /\ i \notin Rootless
                /\ row' = [row EXCEPT ![i] = "succeeded"]
                /\ cnt' = [cnt EXCEPT !.applied = @ + 1]
                /\ UNCHANGED dbFails
             \/ /\ \/ (disk[i] = "both" \/ i \in Rootless) /\ UNCHANGED dbFails
                   \/ DbFails
                /\ row' = [row EXCEPT ![i] = "failed"]
                /\ cnt' = [cnt EXCEPT !.failed = @ + 1]
          /\ bootTodo' = bootTodo \ {i}
          /\ bootPc' = IF bootTodo = {i} THEN "done" ELSE "items"
     \/ /\ \E i \in Items :
             IsFirst(i, bootTodo) /\ (disk[i] # "source" \/ i \in Rootless)
        /\ DbFails
        /\ bootTodo' = {}
        /\ bootPc' = "done"
        /\ UNCHANGED <<row, cnt>>
  /\ UNCHANGED <<planState, entryVars, queueVars, execVars, cmd, disk, issued,
                 crashes, ghostVars>>

Boot == BootSweep \/ BootList \/ BootItem

-----------------------------------------------------------------------------
(* The specification.                                                      *)

Init ==
  /\ planState = "approved" /\ row = AllPending /\ cnt = ZeroCounts
  /\ reg = FALSE /\ cancelTok = FALSE /\ skipSet = {} /\ RQ!NoQueue
  /\ pc = "off" /\ ahead = {} /\ known = {} /\ cur = 0 /\ batch = {}
  /\ outcome = "none" /\ buf = EmptyBuf /\ seen = ZeroCounts /\ pausing = FALSE
  /\ cmd = [c \in Callers |-> NoCmd]
  /\ bootPc = "done" /\ bootTodo = {}
  /\ disk = [i \in Items |-> "source"]
  /\ issued = 0 /\ crashes = 0 /\ dbFails = 0
  /\ accepted = {} /\ cancelAcked = FALSE /\ skipAcked = {}

\* Nothing is under way; all that can happen next is a command or a crash.
AtRest ==
  /\ pc = "off" /\ ~pausing /\ bootPc = "done"
  /\ \A c \in Callers : cmd[c].at = "idle"

Next ==
  \/ \E c \in Callers : Issue(c) \/ Command(c)
  \/ Executor \/ Boot \/ Crash
  \/ AtRest /\ UNCHANGED vars

Spec == Init /\ [][Next]_vars

\* The runtime polls a spawned task and an awaited command until they end.
\* No caller is obliged to issue anything.
FairSpec ==
  /\ Spec
  /\ WF_vars(Executor)
  /\ WF_vars(Boot)
  /\ \A c \in Callers : WF_vars(Command(c))

-----------------------------------------------------------------------------
(* Properties.                                                             *)

Stages ==
  {"idle", "load", "register", "claim", "spawn", "applying", "paused", "pendings",
   "orphans", "finish", "write", "mark", "flip", "push", "undo"}

Commands ==
  [at : Stages,
   op : {"none", "apply", "cancel", "skip", "retry", "resume"},
   item : 0..N, snap : [Items -> RowStates], base : Counts, fresh : BOOLEAN]

\* The steps of skip and retry act on the item the command names.
ItemSteps == {"write", "mark", "flip", "push", "undo"}

\* The type of every variable: the database and the files, the entry and the
\* queue, the executor, the commands, the boot task with the bounds, history.
DbTypeOK ==
  /\ planState \in PlanStates
  /\ row \in [Items -> RowStates]
  /\ cnt \in Counts
  /\ disk \in [Items -> {"source", "both", "done"}]

EntryTypeOK ==
  /\ reg \in BOOLEAN /\ cancelTok \in BOOLEAN /\ skipSet \subseteq Items
  /\ RQ!QueueTypeOK

ExecTypeOK ==
  /\ pc \in {"off", "pass", "drain", "batch", "work", "rework", "flush",
             "restore", "pendings", "orphans", "count", "complete", "release"}
  /\ ahead \subseteq Items /\ known \subseteq Items /\ batch \subseteq Items
  /\ cur \in 0..N /\ (pc \in {"work", "rework"} => cur \in Items)
  /\ outcome \in {"none", "completed", "cancelled", "paused"}
  /\ buf \in Buffers /\ seen \in Counts /\ pausing \in BOOLEAN

CmdTypeOK ==
  /\ cmd \in [Callers -> Commands]
  /\ \A c \in Callers : cmd[c].at \in ItemSteps => cmd[c].item \in Items

BootTypeOK ==
  /\ bootPc \in {"sweep", "list", "items", "done"} /\ bootTodo \subseteq Items
  /\ issued \in Nat /\ crashes \in Nat /\ dbFails \in Nat

HistoryTypeOK ==
  accepted \subseteq Items /\ skipAcked \subseteq Items /\ cancelAcked \in BOOLEAN

TypeOK ==
  /\ DbTypeOK /\ EntryTypeOK /\ ExecTypeOK /\ CmdTypeOK /\ BootTypeOK
  /\ HistoryTypeOK

\* A command that has registered the plan and still holds the guard.
Starting(c) == cmd[c].at \in {"claim", "spawn"}

\* FR-017, scenario 2: the registry entry has exactly one holder, the command
\* that inserted it or the executor task the guard was moved into, through
\* every early return, pause, crash and publish failure.  So no entry is
\* leaked (it would refuse every later resume) and no plan has two executors.
OneOwner ==
  /\ reg <=> pc # "off" \/ \E c \in Callers : Starting(c)
  /\ \A c \in Callers : Starting(c) => pc = "off"
  /\ \A c, d \in Callers : Starting(c) /\ Starting(d) => c = d

\* astro-plan-ts1z: a retry the registered run's queue accepted is somewhere
\* until it has run or has been put back to `failed`: queued, drained, being
\* executed or orphaned.
AcceptedRetryKept ==
  reg => accepted \subseteq queued \cup batch \cup orphaned \cup {cur}

\* ... so it is never what the sweep of `applying` rows turns into a
\* cancellation.
SweepSparesAccepted == pc \in {"pendings", "orphans", "count", "complete"}
                         => accepted = {}

\* FR-010: an item whose file has reached its destination is not executed
\* again, across retries, pauses, resumes and a crash.  The exception is what a
\* boot could not resolve: it recorded the item `failed` although its file had
\* been moved, and a user who retries it has the executor look for its source.
MovedNeverReRun ==
  cur # 0 /\ disk[cur] = "done" =>
    pc = "rework" /\ cur \in Rootless /\ crashes > 0

\* Constitution II: when nothing is under way, `succeeded` is recorded only for
\* items whose file was moved, and for all of them but those a boot after a
\* crash could not resolve: it left them `failed`, and a retry that came when
\* the run was ending may have left them `cancelled`, or `applying` if a further
\* crash met it.  None of these is run again unless a user retries it.
MovedIsRecorded ==
  AtRest => \A i \in Items :
    /\ row[i] = "succeeded" => disk[i] = "done"
    /\ disk[i] = "done" =>
         \/ row[i] = "succeeded"
         \/ /\ row[i] \in {"failed", "applying", "cancelled"}
            /\ i \in Rootless /\ crashes > 0

\* FR-009, SC-002: when nothing is under way, a plan that has ended has no item
\* left to run, and whether it has ended or not the counters of its moved and
\* its cancelled items count their rows.
TerminalSettles ==
  AtRest =>
    /\ planState \in Terminal => RowsIn({"pending"}) = {}
    /\ cnt.applied = Cardinality(RowsIn({"succeeded"}))
    /\ cnt.cancelled = Cardinality(RowsIn({"cancelled"}))

\* SC-004: once a cancel has been answered, no item is started until the user
\* starts a run again.
NoStartAfterCancel == [][cancelAcked /\ cancelAcked' => cur' \in {0, cur}]_vars

\* An item whose skip was answered before the executor reached it is not
\* executed, in this run or in one resumed after a pause or a crash.
AckedSkipNeverRuns == cur \notin skipAcked

\* The plan as PlanLifecycle sees it.
Lifecycle ==
  INSTANCE PlanLifecycle WITH Files <- Items, state <- planState,
                              moved <- {i \in Items : disk[i] = "done"}

\* The plan keeps the promise of PlanLifecycle: its state moves along the
\* table's edges although complete_run and pause_run do not look at it, and
\* files move once and only under an `applying` plan.
KeepsLifecycle == Lifecycle!Spec

\* Every run ends: the plan does not stay `applying`.
RunEnds == planState = "applying" ~> planState # "applying"

\* Every accepted retry is executed or given back.
RetrySettles == \A i \in Items : i \in accepted ~> i \notin accepted

-----------------------------------------------------------------------------
(* A statement of the documentation that the code does not meet.           *)

\* Spec 025, story 4, of a retried item: "the executor re-attempts it once".
ReattemptedOnce == pc = "rework" => disk[cur] # "done"
=============================================================================
