--------------------------- MODULE PlanApplyProofs ---------------------------
(***************************************************************************)
(* Theorems of PlanApply, for every number of items and callers, every set *)
(* of commands and every bound.                                            *)
(***************************************************************************)
EXTENDS PlanApply, FiniteSetTheorems, TLAPS

-----------------------------------------------------------------------------
(* Lemmas about the helpers.                                               *)

\* A number of rows is a natural number.
LEMMA RowsCounted ==
  ASSUME NEW states
  PROVE  Cardinality(RowsIn(states)) \in Nat
<1>1. IsFiniteSet(Items)
  BY PlanApplyAssumption, FS_Interval DEF Items
<1>2. RowsIn(states) \subseteq Items
  BY DEF RowsIn
<1> QED
  BY <1>1, <1>2, FS_Subset, FS_CardinalityType

\* Pushing an item's outcome onto the buffer gives a buffer.
LEMMA BufferedType ==
  ASSUME buf \in Buffers, NEW i \in Items, NEW s \in {"succeeded", "failed", "skipped"}
  PROVE  Buffered(i, s) \in Buffers
  BY DEF Buffered, Buffers

\* The buffer a run starts with, and is left with by a flush, is a buffer.
LEMMA EmptyBufType == EmptyBuf \in Buffers
  BY DEF EmptyBuf, Buffers

\* The number that stands for no item is a legal value of `cur` and of a
\* command's item.
LEMMA NoItem == 0 \in 0..N
  BY PlanApplyAssumption

\* An item is a legal value of `cur` and of a command's item.
LEMMA ItemIsNumber == Items \subseteq 0..N
  BY PlanApplyAssumption DEF Items

\* The counters of a plan that has not run are counters.
LEMMA ZeroCountsType == ZeroCounts \in Counts
  BY DEF ZeroCounts, Counts

\* A caller with no command in flight is well typed.
LEMMA NoCmdType == NoCmd \in Commands
  BY ZeroCountsType, PlanApplyAssumption DEF NoCmd, Commands, Stages, AllPending, RowStates

\* A command that begins, moves on or returns leaves every command well typed.
LEMMA BeginType ==
  ASSUME CmdTypeOK, NEW c \in Callers, NEW command \in Commands,
         command.at \in ItemSteps => command.item \in Items, Begin(c, command)
  PROVE  CmdTypeOK'
  BY DEF CmdTypeOK, Begin

\* ... that moves on ...
LEMMA GotoType ==
  ASSUME CmdTypeOK, NEW c \in Callers, NEW where \in Stages,
         where \in ItemSteps => cmd[c].item \in Items, Goto(c, where)
  PROVE  CmdTypeOK'
<1>1. cmd' = [cmd EXCEPT ![c] = [cmd[c] EXCEPT !.at = where]]
  BY DEF Goto
<1>2. [cmd[c] EXCEPT !.at = where] \in Commands
  BY DEF CmdTypeOK, Commands
<1>3. cmd'[c].at = where /\ cmd'[c].item = cmd[c].item
  BY <1>1 DEF CmdTypeOK, Commands
<1> QED
  BY <1>1, <1>2, <1>3 DEF CmdTypeOK

\* ... and one that returns.
LEMMA ReturnType ==
  ASSUME CmdTypeOK, NEW c \in Callers, Return(c)
  PROVE  CmdTypeOK'
  BY NoCmdType DEF CmdTypeOK, Return, NoCmd, ItemSteps

\* A flush leaves rows, counters, the buffer and the failure count well typed.
LEMMA FlushType ==
  ASSUME DbTypeOK, dbFails \in Nat, NEW b \in Buffers, Flush(b)
  PROVE  /\ row' \in [Items -> RowStates]
         /\ cnt' \in Counts
         /\ buf' \in Buffers
         /\ dbFails' \in Nat
<1>1. CASE UNCHANGED <<row, cnt>> /\ DbFails
  BY <1>1, EmptyBufType DEF Flush, DbFails, DbTypeOK
<1>2. CASE /\ row' = [i \in Items |-> IF b.last[i] = "none" THEN row[i]
                                                            ELSE b.last[i]]
           /\ cnt' = [cnt EXCEPT !.applied = @ + b.applied,
                                 !.failed  = @ + b.failed,
                                 !.skipped = @ + b.skipped]
           /\ UNCHANGED dbFails
  <2>1. row' \in [Items -> RowStates]
    BY <1>2 DEF DbTypeOK, Buffers, RowStates
  <2>2. cnt' \in Counts
    <3>1. /\ cnt.applied + b.applied \in Nat
          /\ cnt.failed + b.failed \in Nat
          /\ cnt.skipped + b.skipped \in Nat
      BY DEF DbTypeOK, Buffers, Counts
    <3> QED
      BY <1>2, <3>1 DEF DbTypeOK, Counts
  <2> QED
    BY <1>2, <2>1, <2>2, EmptyBufType DEF Flush
<1> QED
  BY <1>1, <1>2 DEF Flush

\* An item's outcome, buffered or flushed at once, leaves the same well typed.
LEMMA ReportType ==
  ASSUME DbTypeOK, dbFails \in Nat, buf \in Buffers,
         NEW i \in Items, NEW s \in {"succeeded", "failed", "skipped"}, Report(i, s)
  PROVE  /\ row' \in [Items -> RowStates]
         /\ cnt' \in Counts
         /\ buf' \in Buffers
         /\ dbFails' \in Nat
<1>1. Buffered(i, s) \in Buffers
  BY BufferedType
<1>2. CASE Flush(Buffered(i, s))
  BY <1>1, <1>2, FlushType
<1>3. CASE buf' = Buffered(i, s) /\ UNCHANGED <<row, cnt, dbFails>>
  BY <1>1, <1>3 DEF DbTypeOK
<1> QED
  BY <1>2, <1>3 DEF Report

\* The bulk cancellation of rows counts what it cancels.
LEMMA CancelRowsType ==
  ASSUME DbTypeOK, NEW state, CancelRows(state)
  PROVE  row' \in [Items -> RowStates] /\ cnt' \in Counts
<1>1. row' \in [Items -> RowStates]
  BY DEF CancelRows, DbTypeOK, RowStates
<1>2. Cardinality(RowsIn({state})) \in Nat
  BY RowsCounted
<1>3. cnt' \in Counts
  BY <1>2 DEF CancelRows, DbTypeOK, Counts
<1> QED
  BY <1>1, <1>3

\* The flip of a retry keeps the counter of failures at zero or above.
LEMMA RetryApplyingType ==
  ASSUME DbTypeOK, NEW i \in Items, RetryApplying(i)
  PROVE  row' \in [Items -> RowStates] /\ cnt' \in Counts
  BY DEF RetryApplying, DbTypeOK, RowStates, Counts

\* The roll-back of a refused or orphaned retry keeps rows and counters well
\* typed.
LEMMA RollbackType ==
  ASSUME DbTypeOK, NEW i \in Items, RollbackToFailed(i)
  PROVE  row' \in [Items -> RowStates] /\ cnt' \in Counts
  BY DEF RollbackToFailed, DbTypeOK, RowStates, Counts

-----------------------------------------------------------------------------
(* Type correctness.                                                       *)

\* The boot task keeps the types.
LEMMA BootType == TypeOK /\ Boot => TypeOK'
<1> SUFFICES ASSUME TypeOK, Boot PROVE TypeOK'
  OBVIOUS
<1> USE DEF TypeOK, DbTypeOK, EntryTypeOK, ExecTypeOK, CmdTypeOK, BootTypeOK,
            HistoryTypeOK, RQ!QueueTypeOK, dbVars, entryVars, queueVars,
            execVars, passVars, ghostVars
<1>1. CASE BootSweep
  BY <1>1 DEF BootSweep, DbFails, PlanStates
<1>2. CASE BootList
  BY <1>2 DEF BootList, DbFails, RowsIn
<1>3. CASE BootItem
  <2>1. row' \in [Items -> RowStates]
    BY <1>3 DEF BootItem, RowStates
  <2>2. cnt' \in Counts
    <3>1. cnt.applied + 1 \in Nat /\ cnt.failed + 1 \in Nat
      BY DEF Counts
    <3>2. \/ UNCHANGED cnt
          \/ cnt' = [cnt EXCEPT !.applied = cnt.applied + 1]
          \/ cnt' = [cnt EXCEPT !.failed = cnt.failed + 1]
      BY <1>3 DEF BootItem
    <3> QED
      BY <3>1, <3>2 DEF Counts
  <2>3. BootTypeOK'
    <3>1. UNCHANGED dbFails \/ DbFails
      BY <1>3 DEF BootItem
    <3>2. bootTodo' \subseteq Items
      BY <1>3 DEF BootItem
    <3>3. bootPc' \in {"items", "done"}
      BY <1>3 DEF BootItem
    <3> QED
      BY <1>3, <3>1, <3>2, <3>3 DEF BootItem, DbFails
  <2>4. EntryTypeOK' /\ ExecTypeOK' /\ CmdTypeOK' /\ HistoryTypeOK'
    BY <1>3 DEF BootItem
  <2>5. DbTypeOK'
    BY <1>3, <2>1, <2>2 DEF BootItem
  <2> QED
    BY <2>3, <2>4, <2>5
<1> QED
  BY <1>1, <1>2, <1>3 DEF Boot

\* A crash keeps the types, whatever place it leaves the file in.
LEMMA CrashType == TypeOK /\ Crash => TypeOK'
<1> SUFFICES ASSUME TypeOK, Crash PROVE TypeOK'
  OBVIOUS
<1> USE DEF TypeOK, DbTypeOK, EntryTypeOK, ExecTypeOK, CmdTypeOK, BootTypeOK,
            HistoryTypeOK, RQ!QueueTypeOK, dbVars, entryVars, queueVars,
            execVars, passVars, ghostVars
<1>1. disk' \in [Items -> {"source", "both", "done"}]
  BY DEF Crash
<1>2. CmdTypeOK'
  BY NoCmdType DEF Crash, NoCmd, ItemSteps
<1>3. ExecTypeOK'
  BY EmptyBufType, ZeroCountsType, NoItem DEF Crash, TaskOver
<1>4. EntryTypeOK'
  BY DEF Crash, DropGuard, RQ!DropQueue
<1>5. BootTypeOK'
  BY DEF Crash
<1>6. HistoryTypeOK'
  BY DEF Crash
<1>7. DbTypeOK'
  BY <1>1 DEF Crash
<1> QED
  BY <1>2, <1>3, <1>4, <1>5, <1>6, <1>7

\* Every step of the executor task keeps the types.
LEMMA ExecutorType == TypeOK /\ Executor => TypeOK'
<1> SUFFICES ASSUME TypeOK, Executor PROVE TypeOK'
  OBVIOUS
<1> USE DEF TypeOK, DbTypeOK, EntryTypeOK, ExecTypeOK, CmdTypeOK, BootTypeOK,
            HistoryTypeOK, RQ!QueueTypeOK, dbVars, entryVars, queueVars,
            execVars, passVars, ghostVars, bootVars, boundVars
<1>1. CASE PassCancelled
  BY <1>1, NoItem DEF PassCancelled, Halt, RQ!OrphanAndClose
<1>2. CASE PassSkip
  BY <1>2, ReportType DEF PassSkip, RQ!queueVars
<1>3. CASE PassStart
  BY <1>3 DEF PassStart, Pick, Items
<1>4. CASE PassComplete
  BY <1>4 DEF PassComplete, RQ!CloseIfEmpty
<1>5. CASE Drain
  BY <1>5 DEF Drain, RQ!DrainAll
<1>6. CASE BatchCancelled
  BY <1>6, NoItem DEF BatchCancelled, Halt, RQ!OrphanAndClose
<1>7. CASE BatchStart
  BY <1>7 DEF BatchStart, Pick, Items
<1>8. CASE BatchUnknown
  BY <1>8 DEF BatchUnknown, RQ!Orphan, AfterBatch
<1>9. CASE WorkPauses
  BY <1>9, ReportType, NoItem DEF WorkPauses, Halt, RQ!OrphanAndClose
<1>10. CASE WorkEnds
  BY <1>10, ReportType, PlanApplyAssumption DEF WorkEnds, Results, AfterBatch
<1>11. CASE FinalFlush
  BY <1>11, FlushType DEF FinalFlush, RQ!TakeOrphaned
<1>12. CASE Restore
  BY <1>12, RollbackType DEF Restore, DbFails
<1>13. CASE Dispatch
  BY <1>13 DEF Dispatch, DropGuard, RQ!DropQueue, TaskOver
<1>14. CASE PauseRun
  <2>1. DbTypeOK' /\ BootTypeOK'
    BY <1>14 DEF PauseRun, DbFails, PlanStates
  <2>2. EntryTypeOK' /\ ExecTypeOK' /\ CmdTypeOK' /\ HistoryTypeOK'
    BY <1>14 DEF PauseRun
  <2> QED
    BY <2>1, <2>2
<1>15. CASE EndPendings
  BY <1>15, CancelRowsType DEF EndPendings, HandlerCancels, DbFails
<1>16. CASE EndOrphans
  BY <1>16, CancelRowsType DEF EndOrphans, HandlerCancels, DbFails
<1>17. CASE EndCount
  BY <1>17 DEF EndCount
<1>18. CASE EndComplete
  BY <1>18, ZeroCountsType DEF EndComplete, DbFails, TerminalState, PlanStates
<1>19. CASE Release
  BY <1>19 DEF Release, DropGuard, RQ!DropQueue, TaskOver
<1> QED
  BY <1>1, <1>2, <1>3, <1>4, <1>5, <1>6, <1>7, <1>8, <1>9, <1>10, <1>11, <1>12,
     <1>13, <1>14, <1>15, <1>16, <1>17, <1>18, <1>19 DEF Executor

\* Every command that begins keeps the types.
LEMMA IssueType ==
  ASSUME TypeOK, NEW c \in Callers, Issue(c)
  PROVE  TypeOK'
<1> USE DEF TypeOK, DbTypeOK, EntryTypeOK, ExecTypeOK, BootTypeOK,
            HistoryTypeOK, RQ!QueueTypeOK, dbVars, entryVars, queueVars,
            execVars, passVars, ghostVars, bootVars
<1>1. ASSUME NEW op \in {"apply", "resume"}, NEW state, Start(c, op, state)
      PROVE  TypeOK'
  <2>1. [NoCmd EXCEPT !.at = "load", !.op = op] \in Commands
    BY NoCmdType DEF Commands, Stages
  <2>2. [NoCmd EXCEPT !.at = "load", !.op = op].at \notin ItemSteps
    BY NoCmdType DEF Commands, ItemSteps
  <2>3. CmdTypeOK'
    BY <1>1, <2>1, <2>2, BeginType DEF Start
  <2> QED
    BY <1>1, <2>3 DEF Start, Begin
<1>2. CASE CancelRead(c)
  <2> DEFINE command == [NoCmd EXCEPT !.at = planState, !.op = "cancel",
                                      !.base = cnt]
  <2>1. command \in Commands /\ command.at = planState
    BY <1>2, NoCmdType DEF CancelRead, Commands, Stages
  <2>2. CmdTypeOK'
    BY <1>2, <2>1, BeginType DEF CancelRead, ItemSteps
  <2> QED
    BY <1>2, <2>2 DEF CancelRead, Begin
<1>3. ASSUME NEW i \in Items, SkipCheck(c, i)
      PROVE  TypeOK'
  <2> DEFINE command == [NoCmd EXCEPT !.at = "write", !.op = "skip", !.item = i,
                                      !.fresh = TRUE]
  <2>1. command \in Commands /\ command.item = i
    BY NoCmdType, ItemIsNumber DEF Commands, Stages
  <2>2. CmdTypeOK'
    BY <1>3, <2>1, BeginType DEF SkipCheck
  <2> QED
    BY <1>3, <2>2 DEF SkipCheck, Begin
<1>4. ASSUME NEW i \in Items, RetryCheck(c, i)
      PROVE  TypeOK'
  <2> DEFINE command == [NoCmd EXCEPT !.at = "flip", !.op = "retry", !.item = i]
  <2>1. command \in Commands /\ command.item = i
    BY NoCmdType, ItemIsNumber DEF Commands, Stages
  <2>2. CmdTypeOK'
    BY <1>4, <2>1, BeginType DEF RetryCheck
  <2> QED
    BY <1>4, <2>2 DEF RetryCheck, Begin
<1> QED
  BY <1>1, <1>2, <1>3, <1>4 DEF Issue, ApplyRead, ResumeRead

\* Every further step of a command keeps the types.
LEMMA CommandType ==
  ASSUME TypeOK, NEW c \in Callers, Command(c)
  PROVE  TypeOK'
<1> USE DEF TypeOK, DbTypeOK, EntryTypeOK, ExecTypeOK, BootTypeOK,
            HistoryTypeOK, RQ!QueueTypeOK, dbVars, entryVars, queueVars,
            execVars, passVars, ghostVars, bootVars, boundVars
<1>1. CASE Load(c)
  <2> DEFINE loaded == [cmd[c] EXCEPT !.at = "register", !.snap = row]
  <2>1. loaded \in Commands /\ loaded.at = "register"
    BY DEF CmdTypeOK, Commands, Stages
  <2>2. cmd' = [cmd EXCEPT ![c] = loaded]
    BY <1>1 DEF Load
  <2>3. CmdTypeOK'
    BY <2>1, <2>2 DEF CmdTypeOK, ItemSteps
  <2> QED
    BY <1>1, <2>3 DEF Load
<1>2. CASE Register(c)
  <2>1. CASE reg
    BY <1>2, <2>1, ReturnType DEF Register
  <2>2. CASE ~reg
    <3>1. CmdTypeOK'
      <4>1. \A d \in Callers : /\ [cmd[d] EXCEPT !.at = "claim"] \in Commands
                               /\ [cmd[d] EXCEPT !.fresh = FALSE] \in Commands
        BY DEF CmdTypeOK, Commands, Stages
      <4>2. \A d \in Callers : cmd'[d] = IF d = c THEN [cmd[d] EXCEPT !.at = "claim"]
                                         ELSE [cmd[d] EXCEPT !.fresh = FALSE]
        BY <1>2, <2>2 DEF Register
      <4>3. cmd' \in [Callers -> Commands]
        BY <1>2, <2>2, <4>1 DEF Register
      <4>4. \A d \in Callers : cmd'[d].at \in ItemSteps =>
                                  /\ cmd'[d].at = cmd[d].at
                                  /\ cmd'[d].item = cmd[d].item
        BY <4>2 DEF CmdTypeOK, Commands, ItemSteps
      <4> QED
        BY <4>3, <4>4 DEF CmdTypeOK
    <3> QED
      BY <1>2, <2>2, <3>1 DEF Register, RQ!NewQueue
  <2> QED
    BY <2>1, <2>2
<1>3. CASE Claim(c)
  <2>1. CmdTypeOK'
    BY GotoType, <1>3, ReturnType DEF Claim, ItemSteps, Stages
  <2>2. DbTypeOK' /\ dbFails' \in Nat
    BY <1>3 DEF Claim, DbFails, PlanStates
  <2>3. EntryTypeOK'
    BY <1>3 DEF Claim, DropGuard, RQ!DropQueue
  <2> QED
    BY <1>3, <2>1, <2>2, <2>3 DEF Claim
<1>4. CASE Spawn(c)
  <2>1. CmdTypeOK'
    BY <1>4, ReturnType DEF Spawn
  <2> QED
    BY <1>4, <2>1, EmptyBufType DEF Spawn, ForwardRows, ResumedRows
<1>5. CASE LaunchFails(c)
  <2>1. CmdTypeOK'
    BY <1>5, ReturnType DEF LaunchFails
  <2>2. EntryTypeOK'
    BY <1>5 DEF LaunchFails, DropGuard, RQ!DropQueue
  <2>3. BootTypeOK'
    BY <1>5 DEF LaunchFails, DbFails
  <2> QED
    BY <1>5, <2>1, <2>2, <2>3 DEF LaunchFails
<1>6. CASE CancelSignal(c)
  <2>1. CmdTypeOK'
    BY GotoType, <1>6, ReturnType DEF CancelSignal, ItemSteps, Stages
  <2>2. cancelTok' \in BOOLEAN /\ cancelAcked' \in BOOLEAN
    BY <1>6 DEF CancelSignal
  <2>3. DbTypeOK' /\ ExecTypeOK' /\ BootTypeOK'
    BY <1>6 DEF CancelSignal
  <2>4. EntryTypeOK' /\ HistoryTypeOK'
    BY <1>6, <2>2 DEF CancelSignal
  <2> QED
    BY <2>1, <2>3, <2>4
<1>7. ASSUME NEW where, NEW state, NEW next \in {"orphans", "finish"},
             CancelRowsOf(c, where, state, next)
      PROVE  TypeOK'
  <2>1. CmdTypeOK'
    <3>1. Cardinality(RowsIn({state})) \in Nat
      BY RowsCounted
    <3>2. CASE Return(c)
      BY <3>2, ReturnType
    <3>3. CASE cmd' = [cmd EXCEPT ![c].at = next,
                         ![c].base.cancelled = @ + Cardinality(RowsIn({state}))]
      <4> DEFINE k == Cardinality(RowsIn({state}))
                 after == [cmd[c] EXCEPT !.at = next, !.base.cancelled = @ + k]
      <4>1. cmd' = [cmd EXCEPT ![c] = after]
        BY <3>3
      <4>2. [cmd[c].base EXCEPT !.cancelled = @ + k] \in Counts
        BY <3>1 DEF CmdTypeOK, Commands, Counts
      <4>3. after \in Commands /\ after.at = next
        BY <4>2 DEF CmdTypeOK, Commands, Stages
      <4> QED
        BY <4>1, <4>3 DEF CmdTypeOK, ItemSteps
    <3> QED
      BY <1>7, <3>2, <3>3 DEF CancelRowsOf
  <2> QED
    BY <1>7, <2>1, CancelRowsType DEF CancelRowsOf, DbFails
<1>8. CASE CancelFinish(c)
  <2>1. CmdTypeOK'
    BY <1>8, ReturnType DEF CancelFinish
  <2>2. cmd[c].base \in Counts
    BY DEF CmdTypeOK, Commands
  <2>3. DbTypeOK'
    <3>1. planState' \in PlanStates /\ cnt' \in Counts
      BY <1>8, <2>2 DEF CancelFinish, DbFails, PlanStates
    <3>2. dbFails' \in Nat
      BY <1>8 DEF CancelFinish, DbFails
    <3> QED
      BY <1>8, <3>1, <3>2 DEF CancelFinish
  <2>5. BootTypeOK'
    BY <1>8 DEF CancelFinish, DbFails
  <2>4. EntryTypeOK'
    BY <1>8 DEF CancelFinish
  <2>6. ExecTypeOK'
    BY <1>8 DEF CancelFinish
  <2>7. HistoryTypeOK'
    BY <1>8 DEF CancelFinish
  <2> QED
    BY <2>1, <2>3, <2>4, <2>5, <2>6, <2>7
<1>9. CASE SkipWrite(c)
  <2>1. CmdTypeOK'
    BY GotoType, <1>9, ReturnType DEF SkipWrite, At, CmdTypeOK, ItemSteps, Stages
  <2> QED
    BY <1>9, <2>1 DEF SkipWrite, DbFails, RowStates
<1>10. CASE SkipMark(c)
  <2>1. CmdTypeOK'
    BY <1>10, ReturnType DEF SkipMark
  <2>2. cmd[c].item \in Items
    BY <1>10 DEF SkipMark, At, CmdTypeOK, ItemSteps
  <2> QED
    BY <1>10, <2>1, <2>2 DEF SkipMark
<1>11. CASE RetryFlip(c)
  <2>1. cmd[c].item \in Items
    BY <1>11 DEF RetryFlip, At, CmdTypeOK, ItemSteps
  <2>2. CmdTypeOK'
    BY GotoType, <1>11, <2>1, ReturnType DEF RetryFlip, Stages
  <2> QED
    BY <1>11, <2>1, <2>2, RetryApplyingType DEF RetryFlip, DbFails
<1>12. CASE RetryPush(c)
  <2>1. cmd[c].item \in Items
    BY <1>12 DEF RetryPush, At, CmdTypeOK, ItemSteps
  <2>2. CmdTypeOK'
    BY GotoType, <1>12, <2>1, ReturnType DEF RetryPush, Stages
  <2> QED
    BY <1>12, <2>1, <2>2 DEF RetryPush, RQ!Push
<1>13. CASE RetryUndo(c)
  <2>1. cmd[c].item \in Items
    BY <1>13 DEF RetryUndo, At, CmdTypeOK, ItemSteps
  <2>2. CmdTypeOK'
    BY <1>13, ReturnType DEF RetryUndo
  <2> QED
    BY <1>13, <2>1, <2>2, RollbackType DEF RetryUndo, DbFails
<1> QED
  BY <1>1, <1>2, <1>3, <1>4, <1>5, <1>6, <1>7, <1>8, <1>9, <1>10, <1>11, <1>12,
     <1>13 DEF Command, CancelPendings, CancelOrphans

\* The type invariant of the plan, its run, its commands and the boot task: in
\* particular an executor at work has an item, and a skip or a retry names one.
THEOREM TypeCorrect == Spec => []TypeOK
<1>1. Init => TypeOK
  <2> SUFFICES ASSUME Init PROVE TypeOK
    OBVIOUS
  <2>1. DbTypeOK
    BY ZeroCountsType DEF Init, DbTypeOK, PlanStates, AllPending, RowStates
  <2>2. EntryTypeOK /\ BootTypeOK /\ HistoryTypeOK
    BY DEF Init, EntryTypeOK, RQ!QueueTypeOK, RQ!NoQueue, BootTypeOK, HistoryTypeOK
  <2>3. ExecTypeOK
    BY ZeroCountsType, EmptyBufType, NoItem DEF Init, ExecTypeOK
  <2>4. CmdTypeOK
    BY NoCmdType DEF Init, CmdTypeOK, NoCmd, ItemSteps
  <2> QED
    BY <2>1, <2>2, <2>3, <2>4 DEF TypeOK
<1>2. TypeOK /\ [Next]_vars => TypeOK'
  <2>1. ASSUME TypeOK, UNCHANGED vars PROVE TypeOK'
    BY <2>1 DEF TypeOK, DbTypeOK, EntryTypeOK, ExecTypeOK, CmdTypeOK, BootTypeOK,
         HistoryTypeOK, RQ!QueueTypeOK, vars, dbVars, entryVars, queueVars,
         execVars, passVars, bootVars, boundVars, ghostVars
  <2> QED
    BY <2>1, IssueType, CommandType, ExecutorType, BootType, CrashType DEF Next
<1> QED
  BY <1>1, <1>2, PTL DEF Spec

-----------------------------------------------------------------------------
(* One owner of the registry entry.                                        *)

\* A step that moves no owner: entry, task and starting commands stay put.
LEMMA SameOwner ==
  ASSUME OneOwner, UNCHANGED reg, pc' = "off" <=> pc = "off",
         \A c \in Callers : Starting(c)' <=> Starting(c)
  PROVE  OneOwner'
  BY DEF OneOwner

\* A step that drops the guard where nobody else can hold it.
LEMMA NoOwner ==
  ASSUME reg' = FALSE, pc' = "off", \A c \in Callers : ~Starting(c)'
  PROVE  OneOwner'
  BY DEF OneOwner

\* A command keeps the entry owned by one: only one registers, and it alone
\* claims, spawns or drops.
LEMMA CommandOwner ==
  ASSUME TypeOK, OneOwner, NEW c \in Callers, Issue(c) \/ Command(c)
  PROVE  OneOwner'
<1>0. cmd \in [Callers -> Commands]
  BY DEF TypeOK, CmdTypeOK
\* The commands that do not hold the guard and do not take it.
<1>1. ASSUME UNCHANGED <<reg, pc>>, ~Starting(c), NEW x,
             cmd' = [cmd EXCEPT ![c] = x], x.at \notin {"claim", "spawn"}
      PROVE  OneOwner'
  BY <1>0, <1>1, SameOwner DEF Starting
<1>2. CASE Issue(c)
  <2>1. ASSUME NEW command, Begin(c, command), UNCHANGED <<reg, pc>>,
               command.at \notin {"claim", "spawn"}
        PROVE  OneOwner'
    BY <1>1, <2>1 DEF Begin, Starting
  <2>2. \A op, state : Start(c, op, state) => OneOwner'
    BY <2>1 DEF Start, execVars, passVars, entryVars, NoCmd
  <2>3. CancelRead(c) => OneOwner'
    BY <2>1 DEF CancelRead, execVars, passVars, entryVars, NoCmd
  <2>4. \A i \in Items : SkipCheck(c, i) \/ RetryCheck(c, i) => OneOwner'
    BY <2>1 DEF SkipCheck, RetryCheck, execVars, passVars, entryVars, NoCmd
  <2> QED
    BY <1>2, <2>2, <2>3, <2>4 DEF Issue, ApplyRead, ResumeRead
<1>3. ASSUME NEW where, Goto(c, where), UNCHANGED <<reg, pc>>,
             ~Starting(c), where \notin {"claim", "spawn"}
      PROVE  OneOwner'
  <2>1. cmd' = [cmd EXCEPT ![c] = [cmd[c] EXCEPT !.at = where]]
    BY <1>3 DEF Goto
  <2>2. [cmd[c] EXCEPT !.at = where].at = where
    BY <1>0 DEF Commands
  <2> QED
    BY <1>1, <1>3, <2>1, <2>2
<1>4. ASSUME Return(c), UNCHANGED <<reg, pc>>, ~Starting(c)
      PROVE  OneOwner'
  BY <1>1, <1>4 DEF Return, NoCmd
<1>5. ASSUME Starting(c), Return(c), DropGuard, UNCHANGED pc
      PROVE  OneOwner'
  <2>1. pc = "off" /\ \A d \in Callers \ {c} : ~Starting(d)
    BY <1>5 DEF OneOwner
  <2>2. \A d \in Callers : ~Starting(d)'
    BY <1>0, <1>5, <2>1 DEF Return, Starting, NoCmd
  <2> QED
    BY <1>5, <2>1, <2>2, NoOwner DEF DropGuard
<1>6. CASE Load(c)
  <2>1. cmd' = [cmd EXCEPT ![c] = [cmd[c] EXCEPT !.at = "register", !.snap = row]]
    BY <1>6 DEF Load
  <2>2. [cmd[c] EXCEPT !.at = "register", !.snap = row].at = "register"
    BY <1>0 DEF Commands
  <2> QED
    BY <1>1, <1>6, <2>1, <2>2 DEF Load, Starting, execVars, passVars, entryVars
<1>7. CASE Register(c)
  <2>1. CASE reg
    BY <1>4, <1>7, <2>1 DEF Register, Starting, execVars, passVars, entryVars
  <2>2. CASE ~reg
    <3>1. pc = "off" /\ \A d \in Callers : ~Starting(d)
      BY <2>2 DEF OneOwner
    <3>2. \A d \in Callers : cmd'[d] = IF d = c THEN [cmd[d] EXCEPT !.at = "claim"]
                                       ELSE [cmd[d] EXCEPT !.fresh = FALSE]
      BY <1>7, <2>2 DEF Register
    <3>3. \A d \in Callers : cmd'[d].at = IF d = c THEN "claim" ELSE cmd[d].at
      BY <1>0, <3>2 DEF Commands
    <3>4. \A d \in Callers : Starting(d)' <=> d = c
      BY <3>1, <3>3 DEF Starting
    <3> QED
      BY <1>7, <2>2, <3>1, <3>4 DEF Register, OneOwner, execVars, passVars
  <2> QED
    BY <2>1, <2>2
<1>8. CASE Claim(c)
  <2>1. CASE Goto(c, "spawn") /\ UNCHANGED <<entryVars, queueVars, dbFails>>
    <3>1. cmd'[c].at = "spawn" /\ \A d \in Callers \ {c} : cmd'[d] = cmd[d]
      BY <1>0, <2>1 DEF Goto, Commands
    <3> QED
      BY <1>8, <2>1, <3>1, SameOwner DEF Claim, Starting, execVars, passVars, entryVars
  <2>2. CASE DropGuard /\ Return(c)
    BY <1>5, <1>8, <2>2 DEF Claim, Starting, execVars, passVars
  <2> QED
    BY <1>8, <2>1, <2>2 DEF Claim
<1>9. CASE Spawn(c)
  <2>1. reg /\ \A d \in Callers \ {c} : ~Starting(d)
    BY <1>9 DEF Spawn, Starting, OneOwner
  <2>2. \A d \in Callers : ~Starting(d)'
    BY <1>0, <1>9, <2>1 DEF Spawn, Return, Starting, NoCmd
  <2> QED
    BY <1>9, <2>1, <2>2 DEF Spawn, OneOwner, entryVars
<1>10. CASE LaunchFails(c)
  BY <1>5, <1>10 DEF LaunchFails, Starting, execVars, passVars
<1>11. CASE CancelSignal(c)
  BY <1>3, <1>4, <1>11 DEF CancelSignal, Starting, execVars, passVars
<1>12. ASSUME NEW where \in {"pendings", "orphans"}, NEW state,
              NEW next \in {"orphans", "finish"}, CancelRowsOf(c, where, state, next)
       PROVE  OneOwner'
  <2> DEFINE after == [cmd[c] EXCEPT !.at = next,
                         !.base.cancelled = @ + Cardinality(RowsIn({state}))]
  <2>1. CASE cmd' = [cmd EXCEPT ![c].at = next,
                       ![c].base.cancelled = @ + Cardinality(RowsIn({state}))]
    <3>1. cmd' = [cmd EXCEPT ![c] = after]
      BY <2>1
    <3>2. after.at = next
      BY <1>0 DEF Commands
    <3> QED
      BY <1>1, <1>12, <3>1, <3>2
         DEF CancelRowsOf, At, Starting, execVars, passVars, entryVars
  <2>2. CASE Return(c)
    BY <1>4, <1>12, <2>2 DEF CancelRowsOf, At, Starting, execVars, passVars, entryVars
  <2> QED
    BY <1>12, <2>1, <2>2 DEF CancelRowsOf
<1>13. CASE CancelFinish(c)
  BY <1>4, <1>13 DEF CancelFinish, At, Starting, execVars, passVars, entryVars
<1>14. CASE SkipWrite(c)
  BY <1>3, <1>4, <1>14 DEF SkipWrite, At, Starting, execVars, passVars, entryVars
<1>15. CASE SkipMark(c)
  BY <1>4, <1>15 DEF SkipMark, At, Starting, execVars, passVars
<1>16. CASE RetryFlip(c)
  BY <1>3, <1>4, <1>16 DEF RetryFlip, At, Starting, execVars, passVars, entryVars
<1>17. CASE RetryPush(c)
  BY <1>3, <1>4, <1>17 DEF RetryPush, At, Starting, execVars, passVars, entryVars
<1>18. CASE RetryUndo(c)
  BY <1>4, <1>18 DEF RetryUndo, At, Starting, execVars, passVars, entryVars
<1> QED
  BY <1>2, <1>6, <1>7, <1>8, <1>9, <1>10, <1>11, <1>12, <1>13, <1>14, <1>15, <1>16,
     <1>17, <1>18 DEF Command, CancelPendings, CancelOrphans

\* The task keeps the entry owned by one: it drops it with its own last step, or
\* when it pauses.
LEMMA ExecutorOwner ==
  ASSUME OneOwner, Executor
  PROVE  OneOwner'
<1>0. UNCHANGED cmd
  BY DEF Executor, PassCancelled, PassSkip, PassStart, PassComplete, Drain,
         BatchCancelled, BatchStart, BatchUnknown, WorkPauses, WorkEnds, FinalFlush,
         Restore, Dispatch, PauseRun, EndPendings, EndOrphans, HandlerCancels,
         EndCount, EndComplete, Release
<1>1. \A c \in Callers : Starting(c)' <=> Starting(c)
  BY <1>0 DEF Starting
<1>2. ASSUME pc # "off", pc' # "off", UNCHANGED reg
      PROVE  OneOwner'
  BY <1>1, <1>2, SameOwner
<1>3. ASSUME pc # "off", DropGuard, TaskOver
      PROVE  OneOwner'
  <2>1. \A c \in Callers : ~Starting(c)
    BY <1>3 DEF OneOwner
  <2> QED
    BY <1>1, <1>3, <2>1, NoOwner DEF DropGuard, TaskOver
<1>4. CASE PassCancelled \/ PassStart \/ PassComplete \/ Drain
  BY <1>2, <1>4 DEF PassCancelled, PassStart, PassComplete, Drain, Halt, Pick, entryVars
<1>5. CASE PassSkip
  BY <1>2, <1>5 DEF PassSkip
<1>6. CASE BatchCancelled \/ BatchStart \/ BatchUnknown
  BY <1>2, <1>6
     DEF BatchCancelled, BatchStart, BatchUnknown, Halt, Pick, AfterBatch, entryVars
<1>7. CASE WorkPauses \/ WorkEnds
  BY <1>2, <1>7 DEF WorkPauses, WorkEnds, Halt, AfterBatch, entryVars
<1>8. CASE FinalFlush \/ Restore
  BY <1>2, <1>8 DEF FinalFlush, Restore, entryVars
<1>9. CASE Dispatch
  BY <1>2, <1>3, <1>9 DEF Dispatch, entryVars
<1>10. CASE PauseRun
  BY <1>1, <1>10, SameOwner DEF PauseRun, entryVars, passVars
<1>11. CASE EndPendings \/ EndOrphans \/ EndCount \/ EndComplete
  BY <1>2, <1>11
     DEF EndPendings, EndOrphans, HandlerCancels, EndCount, EndComplete, entryVars
<1>12. CASE Release
  BY <1>3, <1>12 DEF Release
<1> QED
  BY <1>4, <1>5, <1>6, <1>7, <1>8, <1>9, <1>10, <1>11, <1>12 DEF Executor

\* The boot task touches neither entry nor owner.
LEMMA BootOwner ==
  ASSUME OneOwner, Boot
  PROVE  OneOwner'
<1>1. UNCHANGED <<cmd, reg, pc>>
  BY DEF Boot, BootSweep, BootList, BootItem, entryVars, execVars, passVars
<1> QED
  BY <1>1, SameOwner DEF Starting

\* A crash takes the entry and every owner.
LEMMA CrashOwner ==
  ASSUME Crash
  PROVE  OneOwner'
  BY NoOwner DEF Crash, DropGuard, TaskOver, Starting, NoCmd

\* A step that changes nothing keeps the owner.
LEMMA StutterKept ==
  ASSUME UNCHANGED vars
  PROVE  (TypeOK <=> TypeOK') /\ (OneOwner <=> OneOwner')
  BY DEF TypeOK, DbTypeOK, EntryTypeOK, ExecTypeOK, CmdTypeOK, BootTypeOK,
         HistoryTypeOK, RQ!QueueTypeOK, OneOwner, Starting, vars, dbVars, entryVars,
         queueVars, execVars, passVars, bootVars, boundVars, ghostVars

\* FR-017: at any time the registry entry of the plan has exactly one holder, so
\* no entry is leaked by any path and no plan ever has two executors.
THEOREM EntryHasOneOwner == Spec => []OneOwner
<1>1. Init => OneOwner
  BY DEF Init, OneOwner, Starting, NoCmd
<1>2. TypeOK /\ OneOwner /\ [Next]_vars => OneOwner'
  <2> SUFFICES ASSUME TypeOK, OneOwner, [Next]_vars PROVE OneOwner'
    OBVIOUS
  <2> QED
    BY CommandOwner, ExecutorOwner, BootOwner, CrashOwner, StutterKept DEF Next
<1> QED
  BY <1>1, <1>2, TypeCorrect, PTL DEF Spec

-----------------------------------------------------------------------------
(* Accepted retries are never lost.                                        *)

\* From the moment the loop has ended to the release of the entry.
AfterLoop ==
  {"flush", "restore", "pendings", "orphans", "count", "complete", "release"}

\* What the executor holds where: an item only while it works, drained ids only
\* while it handles them, and after the loop a closed and empty queue whose
\* orphans the final flush takes away.
RunShape ==
  /\ pc \notin {"work", "rework"} => cur = 0
  /\ pc \notin {"batch", "rework", "restore"} => batch = {}
  /\ pc \in AfterLoop => ~open /\ queued = {}
  /\ pc \in AfterLoop \ {"flush"} => orphaned = {}

Kept == RunShape /\ AcceptedRetryKept

\* A step that leaves the run, its queue and the accepted retries alone.
LEMMA SameRun ==
  ASSUME Kept, UNCHANGED <<pc, cur, batch, queueVars, accepted>>, reg' => reg
  PROVE  Kept'
  BY DEF Kept, RunShape, AcceptedRetryKept, queueVars

\* A step that drops the guard of a plan whose task is over, or not started.
LEMMA DroppedGuard ==
  ASSUME DropGuard, pc' = "off", cur' = 0, batch' = {}
  PROVE  Kept'
  BY DEF Kept, RunShape, AcceptedRetryKept, DropGuard, RQ!DropQueue, AfterLoop

\* A command leaves the run in shape and every accepted retry where it can be
\* found.
LEMMA CommandKept ==
  ASSUME TypeOK, OneOwner, Kept, NEW c \in Callers, Issue(c) \/ Command(c)
  PROVE  Kept'
<1>1. CASE Issue(c)
  <2>1. UNCHANGED <<entryVars, queueVars, execVars, ghostVars>>
    BY <1>1 DEF Issue, ApplyRead, ResumeRead, Start, CancelRead, SkipCheck, RetryCheck
  <2> QED
    BY <2>1, SameRun DEF execVars, passVars, ghostVars, entryVars
<1>2. CASE Load(c)
  BY <1>2, SameRun DEF Load, execVars, passVars, ghostVars, entryVars
<1>3. CASE Register(c)
  <2>1. CASE reg
    BY <1>3, <2>1, SameRun DEF Register, execVars, passVars, entryVars
  <2>2. CASE ~reg
    <3>1. pc = "off"
      BY <2>2 DEF OneOwner
    <3> QED
      BY <1>3, <2>2, <3>1 DEF Register, RQ!NewQueue, Kept, RunShape, AcceptedRetryKept,
                              AfterLoop, execVars, passVars
  <2> QED
    BY <2>1, <2>2
<1>4. CASE Claim(c)
  <2>1. CASE UNCHANGED <<entryVars, queueVars>>
    BY <1>4, <2>1, SameRun DEF Claim, execVars, passVars, ghostVars, entryVars
  <2>2. CASE DropGuard
    <3>1. pc = "off"
      BY <1>4 DEF Claim, OneOwner, Starting
    <3>2. cur = 0 /\ batch = {}
      BY <3>1 DEF Kept, RunShape
    <3> QED
      BY <1>4, <2>2, <3>1, <3>2, DroppedGuard DEF Claim, execVars, passVars
  <2> QED
    BY <1>4, <2>1, <2>2 DEF Claim
<1>5. CASE Spawn(c)
  <2>1. pc = "off"
    BY <1>5 DEF Spawn, OneOwner, Starting
  <2> QED
    BY <1>5, <2>1 DEF Spawn, Kept, RunShape, AcceptedRetryKept, AfterLoop, entryVars,
                      queueVars
<1>6. CASE LaunchFails(c)
  <2>1. pc = "off"
    BY <1>6 DEF LaunchFails, OneOwner, Starting
  <2>2. cur = 0 /\ batch = {}
    BY <2>1 DEF Kept, RunShape
  <2> QED
    BY <1>6, <2>1, <2>2, DroppedGuard DEF LaunchFails, execVars, passVars
<1>7. CASE CancelSignal(c)
  BY <1>7, SameRun DEF CancelSignal, execVars, passVars
<1>8. CASE CancelPendings(c) \/ CancelOrphans(c)
  BY <1>8, SameRun DEF CancelPendings, CancelOrphans, CancelRowsOf, execVars,
                       passVars, ghostVars, entryVars
<1>9. CASE CancelFinish(c)
  BY <1>9, SameRun DEF CancelFinish, execVars, passVars, entryVars
<1>10. CASE SkipWrite(c)
  BY <1>10, SameRun DEF SkipWrite, execVars, passVars, ghostVars, entryVars
<1>11. CASE SkipMark(c)
  BY <1>11, SameRun DEF SkipMark, execVars, passVars
<1>12. CASE RetryFlip(c) \/ RetryUndo(c)
  BY <1>12, SameRun DEF RetryFlip, RetryUndo, execVars, passVars, ghostVars, entryVars
<1>13. CASE RetryPush(c)
  <2>1. CASE UNCHANGED <<queueVars, accepted>>
    BY <1>13, <2>1, SameRun DEF RetryPush, execVars, passVars, entryVars
  <2>2. CASE RQ!Push(cmd[c].item) /\ accepted' = accepted \cup {cmd[c].item}
    BY <1>13, <2>2 DEF RetryPush, RQ!Push, Kept, RunShape, AcceptedRetryKept,
                       execVars, passVars, entryVars
  <2> QED
    BY <1>13, <2>1, <2>2 DEF RetryPush
<1> QED
  BY <1>1, <1>2, <1>3, <1>4, <1>5, <1>6, <1>7, <1>8, <1>9, <1>10, <1>11, <1>12,
     <1>13 DEF Command

\* The task moves an accepted retry from the queue to the batch, the item or the
\* orphans, and forgets it only when it has run or is given back.
LEMMA ExecutorKept ==
  ASSUME TypeOK, OneOwner, Kept, Executor
  PROVE  Kept'
<1> USE DEF Kept, RunShape, AcceptedRetryKept, AfterLoop, entryVars, queueVars,
            ghostVars
<1>0. 0 \notin accepted
  BY PlanApplyAssumption DEF TypeOK, HistoryTypeOK, Items
<1>1. CASE PassCancelled
  BY <1>1 DEF PassCancelled, Halt, RQ!OrphanAndClose
<1>2. CASE PassSkip
  BY <1>2 DEF PassSkip
<1>3. CASE PassStart
  <2>1. cur' \in Items /\ cur = 0 /\ pc' = "work"
    BY <1>3 DEF PassStart, Pick
  <2> QED
    BY <1>0, <1>3, <2>1 DEF PassStart
<1>4. CASE PassComplete
  BY <1>4 DEF PassComplete, RQ!CloseIfEmpty
<1>5. CASE Drain
  BY <1>5 DEF Drain, RQ!DrainAll
<1>6. CASE BatchCancelled
  BY <1>6 DEF BatchCancelled, Halt, RQ!OrphanAndClose
<1>7. CASE BatchStart
  <2>1. PICK i \in batch \cap known : Pick(i, "rework") /\ batch' = batch \ {i}
    BY <1>7 DEF BatchStart
  <2>2. cur = 0 /\ cur' = i /\ pc' = "rework"
    BY <1>7, <2>1 DEF BatchStart, Pick
  <2>3. AcceptedRetryKept'
    BY <1>0, <1>7, <2>1, <2>2 DEF BatchStart
  <2> QED
    BY <1>7, <2>2, <2>3 DEF BatchStart
<1>8. CASE BatchUnknown
  BY <1>8 DEF BatchUnknown, RQ!Orphan, AfterBatch
<1>9. CASE WorkPauses
  BY <1>9 DEF WorkPauses, Halt, RQ!OrphanAndClose
<1>10. CASE WorkEnds
  BY <1>10 DEF WorkEnds, AfterBatch
<1>11. CASE FinalFlush
  BY <1>11 DEF FinalFlush, RQ!TakeOrphaned
<1>12. CASE Restore
  BY <1>12 DEF Restore
<1>13. CASE Dispatch
  BY <1>13 DEF Dispatch, DropGuard, RQ!DropQueue, TaskOver
<1>14. CASE PauseRun
  BY <1>14 DEF PauseRun, passVars
<1>15. CASE EndPendings \/ EndOrphans
  BY <1>15 DEF EndPendings, EndOrphans, HandlerCancels
<1>16. CASE EndCount
  BY <1>16 DEF EndCount
<1>17. CASE EndComplete
  BY <1>17 DEF EndComplete
<1>18. CASE Release
  BY <1>18 DEF Release, DropGuard, RQ!DropQueue, TaskOver
<1> QED
  BY <1>1, <1>2, <1>3, <1>4, <1>5, <1>6, <1>7, <1>8, <1>9, <1>10, <1>11, <1>12,
     <1>13, <1>14, <1>15, <1>16, <1>17, <1>18 DEF Executor

\* The boot task touches no queue.
LEMMA BootKept ==
  ASSUME Kept, Boot
  PROVE  Kept'
<1>1. UNCHANGED <<entryVars, queueVars, execVars, ghostVars>>
  BY DEF Boot, BootSweep, BootList, BootItem
<1> QED
  BY <1>1, SameRun DEF execVars, passVars, ghostVars, entryVars

\* A crash leaves no run and no accepted retry.
LEMMA CrashKept ==
  ASSUME Crash
  PROVE  Kept'
  BY DroppedGuard DEF Crash, TaskOver

\* The conjunction is inductive on the reachable states.
LEMMA KeptInvariant == Spec => []Kept
<1>1. Init => Kept
  BY DEF Init, Kept, RunShape, AcceptedRetryKept, AfterLoop
<1>2. TypeOK /\ OneOwner /\ Kept /\ [Next]_vars => Kept'
  <2> SUFFICES ASSUME TypeOK, OneOwner, Kept, [Next]_vars PROVE Kept'
    OBVIOUS
  <2>1. UNCHANGED vars => Kept'
    BY SameRun DEF vars, execVars, passVars, ghostVars, entryVars
  <2> QED
    BY <2>1, CommandKept, ExecutorKept, BootKept, CrashKept DEF Next
<1> QED
  BY <1>1, <1>2, TypeCorrect, EntryHasOneOwner, PTL DEF Spec

\* astro-plan-ts1z: while a run is registered, every retry its queue accepted is
\* queued, drained, being executed or orphaned until it is settled.
THEOREM NoAcceptedRetryLost == Spec => []AcceptedRetryKept
<1>1. Kept => AcceptedRetryKept
  BY DEF Kept
<1> QED
  BY <1>1, KeptInvariant, PTL

\* When a handler starts to cancel `applying` rows, no accepted retry is left
\* among them: each has been executed or given back.
THEOREM SweepTakesNoAcceptedRetry == Spec => []SweepSparesAccepted
<1>1. TypeOK /\ OneOwner /\ Kept => SweepSparesAccepted
  <2> SUFFICES ASSUME TypeOK, OneOwner, Kept,
                      pc \in {"pendings", "orphans", "count", "complete"}
               PROVE  accepted = {}
    BY DEF SweepSparesAccepted
  <2>1. reg
    BY DEF OneOwner
  <2>2. queued = {} /\ batch = {} /\ orphaned = {} /\ cur = 0
    BY DEF Kept, RunShape, AfterLoop
  <2>3. accepted \subseteq {0}
    BY <2>1, <2>2 DEF Kept, AcceptedRetryKept
  <2>4. accepted \subseteq Items
    BY DEF TypeOK, HistoryTypeOK
  <2> QED
    BY <2>3, <2>4, PlanApplyAssumption DEF Items
<1> QED
  BY <1>1, TypeCorrect, EntryHasOneOwner, KeptInvariant, PTL

-----------------------------------------------------------------------------
(***************************************************************************)
(* PlanApply implements PlanLifecycle, for every number of items and every *)
(* bound, when the commands wait for the boot task and either nobody       *)
(* cancels or one user issues one command at a time.  (Without these the   *)
(* promise is broken: pause_run, complete_run and the paused branch of     *)
(* cancel_plan write the plan's state without looking at it.)              *)
(***************************************************************************)

-----------------------------------------------------------------------------
(* What the writers that do not look at the state rely on.                 *)

\* Somebody is between the claim and the write that ends the run.
Underway ==
  \/ pc \notin {"off", "release"}
  \/ pausing
  \/ \E c \in Callers : cmd[c].at = "spawn"

CancelStages == {"applying", "paused", "pendings", "orphans", "finish"}

\* The plan is `applying` for as long as a run is under way, and `paused` for
\* as long as a cancel that found it paused is.
UnderRun ==
  /\ Underway => planState = "applying"
  /\ pausing => pc = "off" /\ \A c \in Callers : cmd[c].at # "spawn"
  /\ bootPc # "done" => /\ pc = "off" /\ ~pausing
                        /\ \A c \in Callers : cmd[c].at = "idle"
  /\ \A c \in Callers : cmd[c].op = "cancel" =>
       /\ "cancel" \in Ops
       /\ cmd[c].at \in CancelStages
       /\ cmd[c].at # "applying" => planState = "paused"

\* The files that have reached their destination.
Moved == {i \in Items : disk[i] = "done"}

\* What the invariants of PlanApplyProofs give to every step.
RunKnown == TypeOK /\ OneOwner /\ RunShape

-----------------------------------------------------------------------------
(* Steps that leave the plan alone.                                        *)

\* A step of a command that leaves the plan, the task and the boot task, and is
\* no claim.
LEMMA CommandStays ==
  ASSUME UnderRun, cmd \in [Callers -> Commands], NEW c \in Callers, NEW x,
         UNCHANGED <<planState, pc, pausing, bootPc>>,
         cmd' = [cmd EXCEPT ![c] = x], bootPc # "done" => x.at = "idle",
         x.at # "spawn",
         x.op = "cancel" => /\ "cancel" \in Ops
                            /\ x.at \in CancelStages
                            /\ x.at # "applying" => planState = "paused"
  PROVE  UnderRun'
<1>1. \A d \in Callers : cmd'[d] = IF d = c THEN x ELSE cmd[d]
  OBVIOUS
<1>2. Underway' => Underway
  BY <1>1 DEF Underway
<1> QED
  BY <1>1, <1>2 DEF UnderRun

\* ... that moves on within its command, ...
LEMMA GotoStays ==
  ASSUME UnderRun, cmd \in [Callers -> Commands], NEW c \in Callers, NEW where,
         Goto(c, where), UNCHANGED <<planState, pc, pausing, bootPc>>,
         cmd[c].at # "idle", where # "spawn",
         cmd[c].op = "cancel" => /\ where \in CancelStages
                                 /\ where # "applying" => planState = "paused"
  PROVE  UnderRun'
<1> DEFINE x == [cmd[c] EXCEPT !.at = where]
<1>1. cmd' = [cmd EXCEPT ![c] = x]
  BY DEF Goto
<1>2. x.at = where /\ x.op = cmd[c].op
  BY DEF Commands
<1>3. bootPc = "done"
  BY DEF UnderRun
<1>4. x.op = "cancel" => "cancel" \in Ops
  BY <1>2 DEF UnderRun
<1> HIDE DEF x
<1> QED
  BY <1>1, <1>2, <1>3, <1>4, CommandStays

\* ... that returns, ...
LEMMA ReturnStays ==
  ASSUME UnderRun, cmd \in [Callers -> Commands], NEW c \in Callers,
         Return(c), UNCHANGED <<planState, pc, pausing, bootPc>>
  PROVE  UnderRun'
<1>1. NoCmd.at = "idle" /\ NoCmd.op = "none"
  BY DEF NoCmd
<1> QED
  BY <1>1, CommandStays DEF Return

\* ... or that begins.
LEMMA BeginStays ==
  ASSUME UnderRun, BootRace = FALSE, cmd \in [Callers -> Commands], NEW c \in Callers,
         NEW command, Begin(c, command),
         UNCHANGED <<planState, pc, pausing, bootPc>>,
         command.at # "spawn",
         command.op = "cancel" => /\ command.at \in CancelStages
                                  /\ command.at # "applying" => planState = "paused"
  PROVE  UnderRun'
<1>1. bootPc = "done" /\ command.op \in Ops /\ cmd' = [cmd EXCEPT ![c] = command]
  BY DEF Begin
<1> QED
  BY <1>1, CommandStays

\* A step of the task that is under way and stays so.
LEMMA TaskStays ==
  ASSUME UnderRun, pc # "off", UNCHANGED <<planState, pausing, bootPc, cmd>>,
         pc' = "off" => pc = "release",
         pc = "release" => pc' \in {"off", "release"}
  PROVE  UnderRun'
  BY DEF UnderRun, Underway

-----------------------------------------------------------------------------
(* The invariant.                                                          *)

\* The hypothesis of the theorem.
OneAtATime ==
  /\ BootRace = FALSE
  /\ "cancel" \notin Ops \/ \A c, d \in Callers : c = d

\* A command keeps it: the claim leaves only a state that no run is under.
LEMMA CommandUnderRun ==
  ASSUME OneAtATime, RunKnown, UnderRun, NEW c \in Callers, Issue(c) \/ Command(c)
  PROVE  UnderRun'
<1>0. cmd \in [Callers -> Commands]
  BY DEF RunKnown, TypeOK, CmdTypeOK
<1>1. CASE Issue(c)
  <2>1. ASSUME NEW op \in {"apply", "resume"}, NEW state, Start(c, op, state)
        PROVE  UnderRun'
    <3> DEFINE x == [NoCmd EXCEPT !.at = "load", !.op = op]
    <3>1. x.at = "load" /\ x.op = op
      BY DEF NoCmd
    <3>2. Begin(c, x) /\ UNCHANGED <<planState, pc, pausing, bootPc>>
      BY <2>1 DEF Start, dbVars, execVars, passVars, bootVars
    <3> HIDE DEF x
    <3> QED
      BY <1>0, <3>1, <3>2, BeginStays DEF OneAtATime
  <2>2. CASE CancelRead(c)
    <3> DEFINE x == [NoCmd EXCEPT !.at = planState, !.op = "cancel", !.base = cnt]
    <3>1. x.at = planState /\ planState \in {"applying", "paused"}
      BY <2>2 DEF CancelRead, NoCmd
    <3>2. Begin(c, x) /\ UNCHANGED <<planState, pc, pausing, bootPc>>
      BY <2>2 DEF CancelRead, dbVars, execVars, passVars, bootVars
    <3> HIDE DEF x
    <3> QED
      BY <1>0, <3>1, <3>2, BeginStays DEF OneAtATime, CancelStages
  <2>3. ASSUME NEW i \in Items, SkipCheck(c, i)
        PROVE  UnderRun'
    <3> DEFINE x == [NoCmd EXCEPT !.at = "write", !.op = "skip", !.item = i, !.fresh = TRUE]
    <3>1. x.at = "write" /\ x.op = "skip"
      BY DEF NoCmd
    <3>2. Begin(c, x) /\ UNCHANGED <<planState, pc, pausing, bootPc>>
      BY <2>3 DEF SkipCheck, dbVars, execVars, passVars, bootVars
    <3> HIDE DEF x
    <3> QED
      BY <1>0, <3>1, <3>2, BeginStays DEF OneAtATime
  <2>4. ASSUME NEW i \in Items, RetryCheck(c, i)
        PROVE  UnderRun'
    <3> DEFINE x == [NoCmd EXCEPT !.at = "flip", !.op = "retry", !.item = i]
    <3>1. x.at = "flip" /\ x.op = "retry"
      BY DEF NoCmd
    <3>2. Begin(c, x) /\ UNCHANGED <<planState, pc, pausing, bootPc>>
      BY <2>4 DEF RetryCheck, dbVars, execVars, passVars, bootVars
    <3> HIDE DEF x
    <3> QED
      BY <1>0, <3>1, <3>2, BeginStays DEF OneAtATime
  <2> QED
    BY <1>1, <2>1, <2>2, <2>3, <2>4 DEF Issue, ApplyRead, ResumeRead
<1>2. CASE Load(c)
  <2> DEFINE x == [cmd[c] EXCEPT !.at = "register", !.snap = row]
  <2>1. x.at = "register" /\ x.op = cmd[c].op /\ cmd[c].at = "load"
    BY <1>0, <1>2 DEF Load, Commands
  <2>2. cmd' = [cmd EXCEPT ![c] = x] /\ UNCHANGED <<planState, pc, pausing, bootPc>>
    BY <1>2 DEF Load, dbVars, execVars, passVars, bootVars
  <2>3. bootPc = "done" /\ x.op # "cancel"
    BY <2>1 DEF UnderRun, CancelStages
  <2> HIDE DEF x
  <2> QED
    BY <1>0, <2>1, <2>2, <2>3, CommandStays
<1>3. CASE Register(c)
  <2>1. UNCHANGED <<planState, pc, pausing, bootPc>> /\ cmd[c].at = "register"
    BY <1>3 DEF Register, dbVars, execVars, passVars, bootVars
  <2>2. CASE reg
    BY <1>0, <1>3, <2>1, <2>2, ReturnStays DEF Register
  <2>3. CASE ~reg
    <3>1. \A d \in Callers : cmd'[d] = IF d = c THEN [cmd[d] EXCEPT !.at = "claim"]
                                       ELSE [cmd[d] EXCEPT !.fresh = FALSE]
      BY <1>3, <2>3 DEF Register
    <3>2. \A d \in Callers : /\ [cmd[d] EXCEPT !.at = "claim"].at = "claim"
                             /\ [cmd[d] EXCEPT !.at = "claim"].op = cmd[d].op
                             /\ [cmd[d] EXCEPT !.fresh = FALSE].at = cmd[d].at
                             /\ [cmd[d] EXCEPT !.fresh = FALSE].op = cmd[d].op
      BY <1>0 DEF Commands
    <3>3. \A d \in Callers : cmd'[d].op = cmd[d].op
      BY <3>1, <3>2
    <3>4. cmd'[c].at = "claim" /\ \A d \in Callers \ {c} : cmd'[d].at = cmd[d].at
      BY <3>1, <3>2
    <3>5. bootPc = "done" /\ cmd[c].op # "cancel"
      BY <2>1 DEF UnderRun, CancelStages
    <3>6. Underway' => Underway
      BY <2>1, <3>4 DEF Underway
    <3>7. \A d \in Callers : cmd'[d].op = "cancel" => cmd'[d].at = cmd[d].at /\ cmd[d].op = "cancel"
      BY <3>3, <3>4, <3>5
    <3>8. \A d \in Callers : cmd'[d].at = "spawn" => cmd[d].at = "spawn"
      BY <3>4
    <3> QED
      BY <2>1, <3>5, <3>6, <3>7, <3>8 DEF UnderRun
  <2> QED
    BY <2>2, <2>3
<1>4. CASE Claim(c)
  <2>1. /\ UNCHANGED <<pc, pausing, bootPc>>
        /\ cmd[c].at = "claim" /\ cmd[c].op # "cancel" /\ pc = "off" /\ bootPc = "done"
    BY <1>4 DEF Claim, execVars, passVars, bootVars, UnderRun, CancelStages, RunKnown, OneOwner,
       Starting
  <2>2. CASE planState' = "applying" /\ planState # "applying" /\ Goto(c, "spawn")
    <3>1. \A d \in Callers : cmd'[d] = IF d = c THEN [cmd[c] EXCEPT !.at = "spawn"]
                                       ELSE cmd[d]
      BY <1>0, <2>2 DEF Goto
    <3>2. [cmd[c] EXCEPT !.at = "spawn"].op = cmd[c].op
      BY <1>0 DEF Commands
    <3>3. ~ pausing
      BY <2>2 DEF UnderRun, Underway
    <3>4. "cancel" \notin Ops \/ \A d \in Callers : d = c
      BY DEF OneAtATime
    <3>5. \A d \in Callers : cmd[d].op # "cancel"
      BY <2>1, <3>4 DEF UnderRun
    <3>6. \A d \in Callers : cmd'[d].op # "cancel"
      BY <3>1, <3>2, <3>5
    <3> QED
      BY <2>1, <2>2, <3>3, <3>6 DEF UnderRun
  <2>3. CASE UNCHANGED planState /\ Return(c)
    BY <1>0, <2>1, <2>3, ReturnStays
  <2> QED
    BY <1>4, <2>2, <2>3 DEF Claim
<1>5. CASE Spawn(c)
  <2>1. /\ UNCHANGED <<planState, pausing, bootPc>> /\ pc' = "pass"
        /\ cmd[c].at = "spawn" /\ cmd' = [cmd EXCEPT ![c] = NoCmd]
    BY <1>5 DEF Spawn, Return, dbVars, bootVars
  <2>2. planState = "applying" /\ ~pausing /\ bootPc = "done"
    BY <2>1 DEF UnderRun, Underway
  <2>3. \A d \in Callers : cmd'[d].op = "cancel" => cmd'[d] = cmd[d]
    BY <1>0, <2>1 DEF NoCmd
  <2> QED
    BY <2>1, <2>2, <2>3 DEF UnderRun
<1>6. CASE LaunchFails(c)
  BY <1>0, <1>6, ReturnStays DEF LaunchFails, dbVars, execVars, passVars, bootVars
<1>7. CASE CancelSignal(c)
  <2>1. UNCHANGED <<planState, pc, pausing, bootPc>>
    BY <1>7 DEF CancelSignal, dbVars, execVars, passVars, bootVars
  <2>2. CASE Goto(c, "pendings") /\ cmd[c].at = "paused" /\ cmd[c].op = "cancel"
    <3>1. planState = "paused"
      BY <2>2 DEF UnderRun
    <3> QED
      BY <1>0, <2>1, <2>2, <3>1, GotoStays DEF CancelStages
  <2>3. CASE Return(c)
    BY <1>0, <2>1, <2>3, ReturnStays
  <2> QED
    BY <1>7, <2>2, <2>3 DEF CancelSignal
<1>8. ASSUME NEW where \in {"pendings", "orphans"}, NEW state,
             NEW next \in {"orphans", "finish"}, CancelRowsOf(c, where, state, next)
      PROVE  UnderRun'
  <2>1. /\ UNCHANGED <<planState, pc, pausing, bootPc>>
        /\ cmd[c].at = where /\ cmd[c].op = "cancel"
    BY <1>8 DEF CancelRowsOf, At, execVars, passVars, bootVars
  <2>2. planState = "paused" /\ bootPc = "done" /\ "cancel" \in Ops
    BY <2>1 DEF UnderRun
  <2>3. CASE cmd' = [cmd EXCEPT ![c].at = next,
                       ![c].base.cancelled = @ + Cardinality(RowsIn({state}))]
    <3> DEFINE x == [cmd[c] EXCEPT !.at = next,
                       !.base.cancelled = @ + Cardinality(RowsIn({state}))]
    <3>1. cmd' = [cmd EXCEPT ![c] = x]
      BY <2>3
    <3>2. x.at = next /\ x.op = "cancel"
      BY <1>0, <2>1 DEF Commands
    <3> HIDE DEF x
    <3> QED
      BY <1>0, <2>1, <2>2, <3>1, <3>2, CommandStays DEF CancelStages
  <2>4. CASE Return(c)
    BY <1>0, <2>1, <2>4, ReturnStays
  <2> QED
    BY <1>8, <2>3, <2>4 DEF CancelRowsOf
<1>9. CASE CancelFinish(c)
  <2>1. /\ UNCHANGED <<pc, pausing, bootPc>> /\ Return(c)
        /\ cmd[c].op = "cancel" /\ cmd[c].at = "finish"
        /\ planState' = "cancelled" \/ planState' = planState
    BY <1>9 DEF CancelFinish, At, execVars, passVars, bootVars
  <2>2. planState = "paused" /\ \A d \in Callers : d = c
    BY <2>1 DEF UnderRun, OneAtATime
  <2>3. \A d \in Callers : cmd'[d].at = "idle" /\ cmd'[d].op = "none"
    BY <1>0, <2>1, <2>2 DEF Return, NoCmd
  <2>4. ~Underway
    BY <2>2 DEF UnderRun
  <2>5. ~Underway'
    BY <2>1, <2>3, <2>4 DEF Underway
  <2> QED
    BY <2>1, <2>3, <2>5 DEF UnderRun, Underway
<1>10. CASE SkipWrite(c) \/ RetryFlip(c) \/ RetryPush(c)
  <2>1. /\ UNCHANGED <<planState, pc, pausing, bootPc>>
        /\ cmd[c].at \in {"write", "flip", "push"} /\ cmd[c].op # "cancel"
        /\ Return(c) \/ Goto(c, "mark") \/ Goto(c, "push") \/ Goto(c, "undo")
    BY <1>10 DEF SkipWrite, RetryFlip, RetryPush, At, dbVars, execVars, passVars, bootVars
  <2> QED
    BY <1>0, <2>1, ReturnStays, GotoStays
<1>11. CASE SkipMark(c) \/ RetryUndo(c)
  <2>1. UNCHANGED <<planState, pc, pausing, bootPc>> /\ Return(c)
    BY <1>11 DEF SkipMark, RetryUndo, dbVars, execVars, passVars, bootVars
  <2> QED
    BY <1>0, <2>1, ReturnStays
<1> QED
  BY <1>1, <1>2, <1>3, <1>4, <1>5, <1>6, <1>7, <1>8, <1>9, <1>10, <1>11
     DEF Command, CancelPendings, CancelOrphans

\* The task keeps it: what it leaves behind when it pauses is under way until
\* the paused state is written.
LEMMA ExecutorUnderRun ==
  ASSUME RunKnown, UnderRun, Executor
  PROVE  UnderRun'
<1>1. UNCHANGED <<bootPc, cmd>>
  BY DEF Executor, PassCancelled, PassSkip, PassStart, PassComplete, Drain,
         BatchCancelled, BatchStart, BatchUnknown, WorkPauses, WorkEnds, FinalFlush,
         Restore, Dispatch, PauseRun, EndPendings, EndOrphans, HandlerCancels,
         EndCount, EndComplete, Release, bootVars
<1>2. ASSUME pc \notin {"off", "release"}, pc' \notin {"off", "release"},
             UNCHANGED <<planState, pausing>>
      PROVE  UnderRun'
  BY <1>1, <1>2, TaskStays
<1>3. CASE PassCancelled \/ PassStart \/ PassComplete \/ Drain
  BY <1>2, <1>3 DEF PassCancelled, PassStart, PassComplete, Drain, Halt, Pick, dbVars
<1>4. CASE PassSkip
  BY <1>2, <1>4 DEF PassSkip
<1>5. CASE BatchCancelled \/ BatchStart \/ BatchUnknown
  BY <1>2, <1>5 DEF BatchCancelled, BatchStart, BatchUnknown, Halt, Pick, AfterBatch, dbVars
<1>6. CASE WorkPauses \/ WorkEnds
  BY <1>2, <1>6 DEF WorkPauses, WorkEnds, Halt, AfterBatch
<1>7. CASE FinalFlush \/ Restore
  BY <1>2, <1>7 DEF FinalFlush, Restore
<1>8. CASE EndPendings \/ EndOrphans \/ EndCount
  BY <1>2, <1>8 DEF EndPendings, EndOrphans, HandlerCancels, EndCount, dbVars
<1>9. CASE Dispatch
  <2>1. pc = "restore" /\ UNCHANGED planState
    BY <1>9 DEF Dispatch, dbVars
  <2>2. planState = "applying" /\ \A c \in Callers : cmd[c].at # "spawn"
    BY <2>1 DEF UnderRun, Underway, RunKnown, OneOwner, Starting
  <2>3. CASE pc' \in {"pendings", "orphans"} /\ UNCHANGED pausing
    BY <1>2, <2>1, <2>3
  <2>4. CASE pc' = "off" /\ pausing' = TRUE
    BY <1>1, <2>1, <2>2, <2>4 DEF UnderRun
  <2> QED
    BY <1>9, <2>3, <2>4 DEF Dispatch, TaskOver
<1>10. CASE PauseRun
  <2>1. /\ pausing /\ pausing' = FALSE /\ UNCHANGED pc
        /\ planState' = "paused" \/ planState' = planState
    BY <1>10 DEF PauseRun, passVars
  <2>2. pc = "off" /\ \A c \in Callers : cmd[c].at # "spawn"
    BY <2>1 DEF UnderRun
  <2>3. ~Underway'
    BY <1>1, <2>1, <2>2 DEF Underway
  <2>4. bootPc = "done"
    BY <2>1 DEF UnderRun
  <2> QED
    BY <1>1, <2>1, <2>3, <2>4 DEF UnderRun
<1>11. CASE EndComplete
  <2>1. pc = "complete" /\ pc' = "release" /\ UNCHANGED pausing
    BY <1>11 DEF EndComplete
  <2>2. /\ planState = "applying" /\ ~pausing /\ bootPc = "done"
        /\ \A c \in Callers : cmd[c].at # "spawn"
    BY <2>1 DEF UnderRun, Underway, RunKnown, OneOwner, Starting
  <2>3. ~Underway'
    BY <1>1, <2>1, <2>2 DEF Underway
  <2>4. \A c \in Callers : cmd[c].op = "cancel" => cmd[c].at = "applying"
    BY <2>2 DEF UnderRun
  <2> QED
    BY <1>1, <2>1, <2>2, <2>3, <2>4 DEF UnderRun
<1>12. CASE Release
  BY <1>1, <1>12, TaskStays DEF Release, TaskOver, dbVars
<1> QED
  BY <1>3, <1>4, <1>5, <1>6, <1>7, <1>8, <1>9, <1>10, <1>11, <1>12 DEF Executor

\* The boot task and a crash keep it: neither leaves a run.
LEMMA BootUnderRun ==
  ASSUME RunKnown, UnderRun, Boot \/ Crash
  PROVE  UnderRun'
<1>1. CASE Boot
  <2>1. bootPc # "done" /\ UNCHANGED <<pc, pausing, cmd>>
    BY <1>1 DEF Boot, BootSweep, BootList, BootItem, execVars, passVars
  <2>2. pc = "off" /\ ~pausing /\ \A c \in Callers : cmd[c].at = "idle"
    BY <2>1 DEF UnderRun
  <2>3. ~Underway'
    BY <2>1, <2>2 DEF Underway
  <2>4. \A c \in Callers : cmd[c].op # "cancel"
    BY <2>2 DEF UnderRun, CancelStages
  <2> QED
    BY <2>1, <2>2, <2>3, <2>4 DEF UnderRun
<1>2. CASE Crash
  <2>1. pc' = "off" /\ ~pausing' /\ cmd' = [c \in Callers |-> NoCmd]
    BY <1>2 DEF Crash, TaskOver
  <2>2. \A c \in Callers : cmd'[c].at = "idle" /\ cmd'[c].op = "none"
    BY <2>1 DEF NoCmd
  <2>3. ~Underway'
    BY <2>1, <2>2 DEF Underway
  <2> QED
    BY <2>1, <2>2, <2>3 DEF UnderRun
<1> QED
  BY <1>1, <1>2

\* It holds at the start and every step keeps it.
LEMMA UnderRunStarts == Init => UnderRun
  BY DEF Init, UnderRun, Underway, NoCmd

\* ... every step.
LEMMA UnderRunStep ==
  ASSUME OneAtATime, RunKnown, UnderRun, [Next]_vars
  PROVE  UnderRun'
<1>1. CASE UNCHANGED vars
  BY <1>1 DEF vars, dbVars, execVars, passVars, bootVars, UnderRun, Underway
<1> QED
  BY <1>1, CommandUnderRun, ExecutorUnderRun, BootUnderRun DEF Next

-----------------------------------------------------------------------------
(* The refinement.                                                         *)

\* A step that leaves the plan's state and the files is a stutter, ...
LEMMA SameMoved ==
  ASSUME UNCHANGED <<planState, disk>>
  PROVE  UNCHANGED <<planState, Moved>>
  BY DEF Moved

\* ... the end of an item moves its file or nothing, ...
LEMMA FileMoves ==
  ASSUME TypeOK, planState = "applying", UNCHANGED planState, cur \in Items, NEW d,
         disk' = [disk EXCEPT ![cur] = d], disk[cur] = "source" \/ d = disk[cur]
  PROVE  Lifecycle!Next \/ UNCHANGED <<planState, Moved>>
<1>1. disk \in [Items -> {"source", "both", "done"}]
  BY DEF TypeOK, DbTypeOK
<1>2. CASE disk[cur] = "source" /\ d = "done"
  <2>1. cur \notin Moved /\ Moved' = Moved \cup {cur}
    BY <1>1, <1>2 DEF Moved
  <2>2. \E f \in Items : Lifecycle!Move(f)
    BY <2>1 DEF Lifecycle!Move, Moved
  <2> QED
    BY <2>2 DEF Lifecycle!Next
<1>3. CASE ~ (disk[cur] = "source" /\ d = "done")
  <2>1. Moved' = Moved
    BY <1>1, <1>3 DEF Moved
  <2> QED
    BY <2>1
<1> QED
  BY <1>2, <1>3

\* ... and a write of the plan's state follows an edge of the table.
LEMMA EdgeTaken ==
  ASSUME UNCHANGED disk, <<planState, planState'>> \in Lifecycle!Transitions
  PROVE  Lifecycle!Next
<1>1. UNCHANGED Moved
  BY DEF Moved
<1> QED
  BY <1>1 DEF Lifecycle!Next, Lifecycle!Transition, Moved

\* Every step of PlanApply is a step of PlanLifecycle or a stutter.
LEMMA LifecycleStep ==
  ASSUME OneAtATime, RunKnown, UnderRun, [Next]_vars
  PROVE  Lifecycle!Next \/ UNCHANGED <<planState, Moved>>
<1>1. CASE UNCHANGED vars
  BY <1>1, SameMoved DEF vars, dbVars
<1>2. ASSUME NEW c \in Callers, Issue(c)
      PROVE  UNCHANGED <<planState, disk>>
  BY <1>2 DEF Issue, ApplyRead, ResumeRead, Start, CancelRead, SkipCheck, RetryCheck, dbVars
<1>3. ASSUME NEW c \in Callers, Command(c), ~Claim(c), ~CancelFinish(c)
      PROVE  UNCHANGED <<planState, disk>>
  <2>1. CASE Load(c) \/ Register(c) \/ Spawn(c) \/ LaunchFails(c) \/ CancelSignal(c)
    BY <2>1 DEF Load, Register, Spawn, LaunchFails, CancelSignal, dbVars
  <2>2. CASE CancelPendings(c) \/ CancelOrphans(c) \/ SkipWrite(c) \/ SkipMark(c)
    BY <2>2 DEF CancelPendings, CancelOrphans, CancelRowsOf, SkipWrite, SkipMark, dbVars
  <2>3. CASE RetryFlip(c) \/ RetryPush(c) \/ RetryUndo(c)
    BY <2>3 DEF RetryFlip, RetryPush, RetryUndo, dbVars
  <2> QED
    BY <1>3, <2>1, <2>2, <2>3 DEF Command
<1>4. ASSUME NEW c \in Callers, Claim(c)
      PROVE  Lifecycle!Next \/ UNCHANGED <<planState, disk>>
  <2>1. UNCHANGED disk
    BY <1>4 DEF Claim
  <2>2. \/ planState \in {"approved", "paused"} /\ planState' = "applying"
        \/ UNCHANGED planState
    BY <1>4 DEF Claim
  <2> QED
    BY <2>1, <2>2, EdgeTaken DEF Lifecycle!Transitions
<1>5. ASSUME NEW c \in Callers, CancelFinish(c)
      PROVE  Lifecycle!Next \/ UNCHANGED <<planState, disk>>
  <2>1. UNCHANGED disk /\ (planState' = "cancelled" \/ UNCHANGED planState)
    BY <1>5 DEF CancelFinish
  <2>2. planState = "paused"
    BY <1>5 DEF CancelFinish, At, UnderRun
  <2> QED
    BY <2>1, <2>2, EdgeTaken DEF Lifecycle!Transitions
<1>6. CASE Executor
  <2>1. CASE PassCancelled \/ PassSkip \/ PassStart \/ PassComplete \/ Drain
    BY <2>1, SameMoved DEF PassCancelled, PassSkip, PassStart, PassComplete, Drain, dbVars
  <2>2. CASE BatchCancelled \/ BatchStart \/ BatchUnknown \/ WorkPauses
    BY <2>2, SameMoved DEF BatchCancelled, BatchStart, BatchUnknown, WorkPauses, dbVars
  <2>3. CASE WorkEnds
    <3>1. pc \in {"work", "rework"} /\ UNCHANGED planState
      BY <2>3 DEF WorkEnds
    <3>2. planState = "applying" /\ cur \in Items
      BY <3>1 DEF UnderRun, Underway, RunKnown, TypeOK, ExecTypeOK
    <3>3. PICK r \in Results(disk[cur]) : disk' = [disk EXCEPT ![cur] = r[1]]
      BY <2>3 DEF WorkEnds
    <3>4. disk[cur] = "source" \/ r[1] = disk[cur]
      BY <3>3 DEF Results
    <3> QED
      BY <3>1, <3>2, <3>3, <3>4, FileMoves DEF RunKnown
  <2>4. CASE FinalFlush \/ Restore \/ Dispatch \/ EndPendings \/ EndOrphans \/ EndCount \/ Release
    BY <2>4, SameMoved DEF FinalFlush, Restore, Dispatch, EndPendings, EndOrphans,
       HandlerCancels, EndCount, Release, dbVars
  <2>5. CASE PauseRun
    <3>1. UNCHANGED disk /\ pausing /\ (planState' = "paused" \/ UNCHANGED planState)
      BY <2>5 DEF PauseRun
    <3>2. planState = "applying"
      BY <3>1 DEF UnderRun, Underway
    <3> QED
      BY <3>1, <3>2, EdgeTaken, SameMoved DEF Lifecycle!Transitions
  <2>6. CASE EndComplete
    <3>1. /\ UNCHANGED disk /\ pc = "complete"
          /\ planState' \in {"cancelled", TerminalState(seen)} \/ UNCHANGED planState
      BY <2>6 DEF EndComplete
    <3>2. TerminalState(seen) \in {"applied", "partially_applied", "failed"}
      BY DEF TerminalState
    <3>3. planState = "applying"
      BY <3>1 DEF UnderRun, Underway
    <3> QED
      BY <3>1, <3>2, <3>3, EdgeTaken, SameMoved DEF Lifecycle!Transitions
  <2> QED
    BY <1>6, <2>1, <2>2, <2>3, <2>4, <2>5, <2>6 DEF Executor
<1>7. CASE Boot
  <2>1. /\ UNCHANGED disk
        /\ \/ UNCHANGED planState
           \/ planState = "applying" /\ planState' = "paused"
    BY <1>7 DEF Boot, BootSweep, BootList, BootItem, dbVars
  <2> QED
    BY <2>1, EdgeTaken, SameMoved DEF Lifecycle!Transitions
<1>8. CASE Crash
  <2>1. UNCHANGED planState
    BY <1>8 DEF Crash, dbVars
  <2>2. CASE UNCHANGED disk
    BY <2>1, <2>2, SameMoved
  <2>3. CASE cur # 0 /\ disk[cur] = "source"
             /\ \E d \in {"source", "both", "done"} : disk' = [disk EXCEPT ![cur] = d]
    <3>1. pc \in {"work", "rework"}
      BY <2>3 DEF RunKnown, RunShape
    <3>2. planState = "applying" /\ cur \in Items
      BY <3>1 DEF UnderRun, Underway, RunKnown, TypeOK, ExecTypeOK
    <3> QED
      BY <2>1, <2>3, <3>2, FileMoves DEF RunKnown
  <2> QED
    BY <1>8, <2>2, <2>3 DEF Crash
<1> QED
  BY <1>1, <1>2, <1>3, <1>4, <1>5, <1>6, <1>7, <1>8, SameMoved DEF Next, vars, dbVars

\* The promise of PlanLifecycle, kept: when nobody cancels, or one
\* user issues one command at a time, the plan's state moves only along the edges
\* of the lifecycle table, and each file moves once, under an `applying` plan.
THEOREM PlanKeepsLifecycle ==
  ASSUME BootRace = FALSE,
         "cancel" \notin Ops \/ \A c, d \in Callers : c = d
  PROVE  Spec => KeepsLifecycle
<1>1. Init => UnderRun /\ Lifecycle!Init
  <2>1. Init => Moved = {}
    BY DEF Init, Moved
  <2> QED
    BY <2>1, UnderRunStarts DEF Init, Lifecycle!Init, Moved
<1>2. RunKnown /\ UnderRun /\ [Next]_vars => UnderRun'
  BY UnderRunStep DEF OneAtATime
<1>3. RunKnown /\ UnderRun /\ [Next]_vars
        => [Lifecycle!Next]_<<planState, {i \in Items : disk[i] = "done"}>>
  BY LifecycleStep DEF OneAtATime, Moved
<1>4. TypeOK /\ OneOwner /\ Kept => RunKnown
  BY DEF RunKnown, Kept
<1> QED
  BY <1>1, <1>2, <1>3, <1>4, TypeCorrect, EntryHasOneOwner, KeptInvariant, PTL
     DEF Spec, KeepsLifecycle, Lifecycle!Spec

-----------------------------------------------------------------------------
(* A cancel that was answered holds.                                       *)

\* The loop of execute_plan, from the spawn to its break.
Loop == {"pass", "drain", "batch", "work", "rework"}

\* A loop that runs although a cancel was answered has its token set: the token
\* is the entry's, the entry outlives the loop, and a new run forgets the answer.
CancelHeard == cancelAcked /\ pc \in Loop => cancelTok

\* Only the two ends of cancel_plan answer one.  CancelFinish is under a paused
\* plan, which has no loop.
LEMMA CancelHeardStep ==
  ASSUME OneAtATime, RunKnown, UnderRun, CancelHeard, [Next]_vars
  PROVE  CancelHeard'
<1> USE DEF CancelHeard, Loop
<1>1. CASE UNCHANGED <<pc, cancelTok, cancelAcked>>
  BY <1>1
<1>2. CASE ~ cancelAcked'
  BY <1>2
<1>3. CASE UNCHANGED <<cancelTok, cancelAcked>> /\ (pc' \in Loop => pc \in Loop)
  BY <1>3
<1>4. ASSUME NEW c \in Callers, Issue(c)
      PROVE  CancelHeard'
  BY <1>4, <1>1 DEF Issue, ApplyRead, ResumeRead, Start, CancelRead, SkipCheck,
     RetryCheck, execVars, passVars, entryVars, ghostVars
<1>5. ASSUME NEW c \in Callers, Command(c)
      PROVE  CancelHeard'
  <2>1. CASE \/ Load(c) \/ CancelPendings(c) \/ CancelOrphans(c) \/ SkipWrite(c)
             \/ SkipMark(c) \/ RetryFlip(c) \/ RetryPush(c) \/ RetryUndo(c)
    BY <1>1, <2>1 DEF Load, CancelPendings, CancelOrphans, CancelRowsOf, SkipWrite,
       SkipMark, RetryFlip, RetryPush, RetryUndo, execVars, passVars, entryVars,
       ghostVars
  <2>2. CASE Register(c)
    <3>1. reg = FALSE => pc = "off"
      BY DEF RunKnown, OneOwner
    <3> QED
      BY <2>2, <3>1 DEF Register, execVars, passVars, entryVars, RunKnown, TypeOK,
         EntryTypeOK
  <2>3. CASE Claim(c) \/ LaunchFails(c)
    <3>1. cmd[c].at \in {"claim", "spawn"}
      BY <2>3 DEF Claim, LaunchFails
    <3>2. pc = "off"
      BY <3>1 DEF RunKnown, OneOwner, Starting
    <3> QED
      BY <2>3, <3>2 DEF Claim, LaunchFails, execVars, passVars
  <2>4. CASE Spawn(c)
    BY <1>2, <2>4 DEF Spawn
  <2>5. CASE CancelSignal(c)
    <3>1. pc # "off" => reg
      BY DEF RunKnown, OneOwner
    <3> QED
      BY <2>5, <3>1 DEF CancelSignal, execVars, passVars
  <2>6. CASE CancelFinish(c)
    <3>1. cmd[c].op = "cancel" /\ cmd[c].at = "finish"
      BY <2>6 DEF CancelFinish, At
    <3>2. planState = "paused"
      BY <3>1 DEF UnderRun
    <3>3. pc \in {"off", "release"}
      BY <3>2 DEF UnderRun, Underway
    <3> QED
      BY <2>6, <3>3 DEF CancelFinish, execVars, passVars
  <2> QED
    BY <1>5, <2>1, <2>2, <2>3, <2>4, <2>5, <2>6 DEF Command
<1>6. CASE Executor
  <2>1. CASE Dispatch \/ Release
    BY <2>1, <1>3 DEF Dispatch, Release, TaskOver, ghostVars
  <2>2. CASE ~ (Dispatch \/ Release)
    <3>1. UNCHANGED <<cancelTok, cancelAcked>>
      BY <1>6, <2>2 DEF Executor, PassCancelled, PassSkip, PassStart, PassComplete,
         Drain, BatchCancelled, BatchStart, BatchUnknown, WorkPauses, WorkEnds,
         FinalFlush, Restore, PauseRun, EndPendings, EndOrphans, HandlerCancels,
         EndCount, EndComplete, entryVars, ghostVars
    <3>2. pc' \in Loop => pc \in Loop
      BY <1>6, <2>2 DEF Executor, PassCancelled, PassSkip, PassStart, PassComplete,
         Drain, BatchCancelled, BatchStart, BatchUnknown, WorkPauses, WorkEnds,
         FinalFlush, Restore, PauseRun, EndPendings, EndOrphans, HandlerCancels,
         EndCount, EndComplete, Halt, Pick, AfterBatch, passVars
    <3> QED
      BY <1>3, <3>1, <3>2
  <2> QED
    BY <2>1, <2>2
<1>7. CASE Boot
  BY <1>1, <1>7 DEF Boot, BootSweep, BootList, BootItem, execVars, passVars,
     entryVars, ghostVars
<1>8. CASE Crash
  BY <1>2, <1>8 DEF Crash
<1>9. CASE UNCHANGED vars
  BY <1>1, <1>9 DEF vars, execVars, passVars, entryVars, ghostVars
<1> QED
  BY <1>4, <1>5, <1>6, <1>7, <1>8, <1>9 DEF Next

\* An item starts in two places, and both read the token first.
LEMMA StartsUncancelled ==
  ASSUME RunKnown, CancelHeard, [Next]_vars, cancelAcked
  PROVE  cur' \in {0, cur}
<1>1. ASSUME NEW c \in Callers, Issue(c) \/ Command(c)
      PROVE  UNCHANGED cur
  BY <1>1 DEF Issue, ApplyRead, ResumeRead, Start, CancelRead, SkipCheck, RetryCheck,
     Command, Load, Register, Claim, Spawn, LaunchFails, CancelSignal, CancelPendings,
     CancelOrphans, CancelRowsOf, CancelFinish, SkipWrite, SkipMark, RetryFlip,
     RetryPush, RetryUndo, execVars, passVars
<1>2. CASE PassStart \/ BatchStart
  BY <1>2 DEF PassStart, BatchStart, CancelHeard, Loop
<1>3. CASE Executor /\ ~ (PassStart \/ BatchStart)
  BY <1>3 DEF Executor, PassCancelled, PassSkip, PassComplete, Drain, BatchCancelled,
     BatchUnknown, WorkPauses, WorkEnds, FinalFlush, Restore, Dispatch, PauseRun,
     EndPendings, EndOrphans, HandlerCancels, EndCount, EndComplete, Release, Halt,
     passVars
<1>4. CASE Boot \/ Crash
  BY <1>4 DEF Boot, BootSweep, BootList, BootItem, Crash, execVars, passVars
<1>5. CASE UNCHANGED vars
  BY <1>5 DEF vars, execVars, passVars
<1> QED
  BY <1>1, <1>2, <1>3, <1>4, <1>5 DEF Next

\* SC-004: once a cancel has been answered, no item is started until the user
\* starts a run again, under the hypothesis of PlanKeepsLifecycle and through
\* every crash and failed write.
THEOREM CancelStopsStarts ==
  ASSUME BootRace = FALSE,
         "cancel" \notin Ops \/ \A c, d \in Callers : c = d
  PROVE  Spec => NoStartAfterCancel
<1>1. Init => UnderRun /\ CancelHeard
  BY UnderRunStarts DEF Init, CancelHeard
<1>2. RunKnown /\ UnderRun /\ [Next]_vars => UnderRun'
  BY UnderRunStep DEF OneAtATime
<1>3. RunKnown /\ UnderRun /\ CancelHeard /\ [Next]_vars => CancelHeard'
  BY CancelHeardStep DEF OneAtATime
<1>4. RunKnown /\ CancelHeard /\ [Next]_vars
        => [cancelAcked /\ cancelAcked' => cur' \in {0, cur}]_vars
  BY StartsUncancelled
<1>5. TypeOK /\ OneOwner /\ Kept => RunKnown
  BY DEF RunKnown, Kept
<1> QED
  BY <1>1, <1>2, <1>3, <1>4, <1>5, TypeCorrect, EntryHasOneOwner, KeptInvariant, PTL
     DEF Spec, NoStartAfterCancel

-----------------------------------------------------------------------------
(***************************************************************************)
(* What follows up to RecordedIsMoved, and what names OneUser after it, is *)
(* about one user, who issues one command at a time and only after the boot*)
(* task.  Two users break each of these theorems: two retries of one item  *)
(* are executed twice (ReattemptedOnce); two cancels of a paused plan lose *)
(* count of its rows; and a resume that read the item rows before a skip,  *)
(* or before another resume ran and paused, hands those items to its run.  *)
(***************************************************************************)
OneUser == BootRace = FALSE /\ \A c, d \in Callers : c = d

\* It is one case of the hypothesis above.
LEMMA OneUserIsOneAtATime == OneUser => OneAtATime
  BY DEF OneUser, OneAtATime

-----------------------------------------------------------------------------
(* What a command has read stays true.                                     *)

\* From the read of the plan to the claim its state stands; the rows that were
\* read are the rows that the spawn uses; the SkipSet handle is the run's.
ReadsHold ==
  \A c \in Callers :
    /\ cmd[c].at \in {"load", "register", "claim"}
         => planState = IF cmd[c].op = "apply" THEN "approved" ELSE "paused"
    /\ cmd[c].at \in {"register", "claim", "spawn"} => cmd[c].snap = row
    /\ cmd[c].op = "skip" => cmd[c].fresh

\* Under a plan that is not `applying` the only step left to a task is the
\* release of its entry, ...
LEMMA QuietTask ==
  ASSUME UnderRun, planState # "applying", Executor
  PROVE  Release
<1>1. pc \in {"off", "release"} /\ ~ pausing
  BY DEF UnderRun, Underway
<1> QED
  BY <1>1 DEF Executor, PassCancelled, PassSkip, PassStart, PassComplete, Drain,
     BatchCancelled, BatchStart, BatchUnknown, WorkPauses, WorkEnds, FinalFlush,
     Restore, Dispatch, PauseRun, EndPendings, EndOrphans, HandlerCancels, EndCount,
     EndComplete

\* ... and before the spawn there is no task.
LEMMA NoTaskYet ==
  ASSUME OneOwner, UnderRun, NEW c \in Callers, cmd[c].at = "spawn"
  PROVE  ~ Executor
<1>1. pc = "off" /\ ~ pausing
  BY DEF OneOwner, Starting, UnderRun
<1> QED
  BY <1>1 DEF Executor, PassCancelled, PassSkip, PassStart, PassComplete, Drain,
     BatchCancelled, BatchStart, BatchUnknown, WorkPauses, WorkEnds, FinalFlush,
     Restore, Dispatch, PauseRun, EndPendings, EndOrphans, HandlerCancels, EndCount,
     EndComplete, Release

\* Nobody else moves the plan or its rows between the reads and the spawn.
LEMMA ReadsHoldStep ==
  ASSUME OneUser, RunKnown, UnderRun, ReadsHold, [Next]_vars
  PROVE  ReadsHold'
<1> USE DEF ReadsHold
<1>0. cmd \in [Callers -> Commands]
  BY DEF RunKnown, TypeOK, CmdTypeOK
<1>1. CASE UNCHANGED <<cmd, planState, row>>
  BY <1>1
<1>2. ASSUME NEW c \in Callers, Issue(c)
      PROVE  ReadsHold'
  <2>0. \A d \in Callers : d = c
    BY DEF OneUser
  <2>1. ASSUME NEW op \in {"apply", "resume"},
               Start(c, op, IF op = "apply" THEN "approved" ELSE "paused")
        PROVE  ReadsHold'
    <3>1. cmd'[c] = [NoCmd EXCEPT !.at = "load", !.op = op]
      BY <1>0, <2>1 DEF Start, Begin
    <3>2. cmd'[c].at = "load" /\ cmd'[c].op = op
      BY <3>1 DEF NoCmd
    <3>3. planState' = IF op = "apply" THEN "approved" ELSE "paused"
      BY <2>1 DEF Start, dbVars
    <3> QED
      BY <2>0, <2>1, <3>2, <3>3
  <2>2. CASE CancelRead(c)
    <3>1. cmd'[c].at \in {"applying", "paused"} /\ cmd'[c].op = "cancel"
      BY <1>0, <2>2 DEF CancelRead, Begin, NoCmd
    <3> QED
      BY <2>0, <3>1
  <2>3. ASSUME NEW i \in Items, SkipCheck(c, i)
        PROVE  ReadsHold'
    <3>1. cmd'[c].at = "write" /\ cmd'[c].fresh
      BY <1>0, <2>3 DEF SkipCheck, Begin, NoCmd
    <3> QED
      BY <2>0, <3>1
  <2>4. ASSUME NEW i \in Items, RetryCheck(c, i)
        PROVE  ReadsHold'
    <3>1. cmd'[c].at = "flip" /\ cmd'[c].op = "retry"
      BY <1>0, <2>4 DEF RetryCheck, Begin, NoCmd
    <3> QED
      BY <2>0, <3>1
  <2> QED
    BY <1>2, <2>1, <2>2, <2>3, <2>4 DEF Issue, ApplyRead, ResumeRead
<1>3. ASSUME NEW c \in Callers, Command(c)
      PROVE  ReadsHold'
  <2>0. \A d \in Callers : d = c
    BY DEF OneUser
  <2>1. CASE Return(c)
    <3>1. cmd'[c].at = "idle" /\ cmd'[c].op = "none"
      BY <1>0, <2>1 DEF Return, NoCmd
    <3> QED
      BY <2>0, <3>1
  <2>2. CASE Load(c)
    <3>1. /\ cmd'[c].at = "register" /\ cmd'[c].op = cmd[c].op
          /\ cmd'[c].snap = row /\ cmd'[c].fresh = cmd[c].fresh
      BY <1>0, <2>2 DEF Load, Commands
    <3> QED
      BY <2>0, <2>2, <3>1 DEF Load, dbVars
  <2>3. CASE Register(c) /\ ~ Return(c)
    <3>1. /\ cmd'[c].at = "claim" /\ cmd'[c].op = cmd[c].op
          /\ cmd'[c].snap = cmd[c].snap /\ cmd'[c].fresh = cmd[c].fresh
      BY <1>0, <2>3 DEF Register, Commands
    <3> QED
      BY <2>0, <2>3, <3>1 DEF Register, dbVars
  <2>4. ASSUME NEW where, Goto(c, where), UNCHANGED row,
               where \in {"load", "register", "claim", "spawn"}
                 => where = "spawn" /\ cmd[c].at = "claim"
        PROVE  ReadsHold'
    <3>1. /\ cmd'[c].at = where /\ cmd'[c].op = cmd[c].op
          /\ cmd'[c].snap = cmd[c].snap /\ cmd'[c].fresh = cmd[c].fresh
      BY <1>0, <2>4 DEF Goto, Commands
    <3> QED
      BY <2>0, <2>4, <3>1
  <2>5. CASE Claim(c) /\ ~ Return(c)
    BY <2>4, <2>5 DEF Claim
  <2>6. ASSUME NEW where, NEW state, NEW next \in {"orphans", "finish"},
               CancelRowsOf(c, where, state, next), ~ Return(c)
        PROVE  ReadsHold'
    <3>1. /\ cmd'[c].at = next /\ cmd'[c].op = "cancel"
      BY <1>0, <2>6 DEF CancelRowsOf, At, Commands
    <3> QED
      BY <2>0, <3>1
  <2>7. CASE SkipWrite(c) /\ ~ Return(c)
    <3>1. /\ cmd'[c].at = "mark" /\ cmd'[c].fresh = cmd[c].fresh /\ cmd[c].op = "skip"
      BY <1>0, <2>7 DEF SkipWrite, Goto, At, Commands
    <3> QED
      BY <2>0, <3>1
  <2>8. CASE RetryFlip(c) /\ ~ Return(c)
    <3>1. /\ cmd'[c].at = "push" /\ cmd'[c].op = "retry"
      BY <1>0, <2>8 DEF RetryFlip, Goto, At, Commands
    <3> QED
      BY <2>0, <3>1
  <2>9. CASE (RetryPush(c) \/ CancelSignal(c)) /\ ~ Return(c)
    BY <2>4, <2>9 DEF RetryPush, CancelSignal, dbVars
  <2> QED
    BY <1>3, <2>1, <2>2, <2>3, <2>5, <2>6, <2>7, <2>8, <2>9
       DEF Command, CancelPendings, CancelOrphans, Spawn, LaunchFails, CancelFinish,
           SkipMark, RetryUndo
<1>4. CASE Executor
  <2>0. UNCHANGED cmd
    BY <1>4 DEF Executor, PassCancelled, PassSkip, PassStart, PassComplete, Drain,
       BatchCancelled, BatchStart, BatchUnknown, WorkPauses, WorkEnds, FinalFlush,
       Restore, Dispatch, PauseRun, EndPendings, EndOrphans, HandlerCancels, EndCount,
       EndComplete, Release
  <2>1. CASE planState # "applying"
    BY <1>1, <1>4, <2>0, <2>1, QuietTask DEF Release, dbVars
  <2>2. CASE planState = "applying"
    <3>1. \A c \in Callers : cmd[c].at # "spawn"
      BY <1>4, NoTaskYet DEF RunKnown
    <3>2. \A c \in Callers : cmd[c].at \notin {"load", "register", "claim"}
      BY <2>2
    <3> QED
      BY <2>0, <3>1, <3>2
  <2> QED
    BY <2>1, <2>2
<1>5. CASE Boot
  <2>1. bootPc # "done" /\ UNCHANGED cmd
    BY <1>5 DEF Boot, BootSweep, BootList, BootItem
  <2>2. \A c \in Callers : cmd[c].at = "idle"
    BY <2>1 DEF UnderRun
  <2> QED
    BY <2>1, <2>2
<1>6. CASE Crash
  BY <1>6 DEF Crash, NoCmd
<1> QED
  BY <1>1, <1>2, <1>3, <1>4, <1>5, <1>6 DEF Next, vars, dbVars

\* What every step of one user's plan may rely on.
PlanKnown == RunKnown /\ UnderRun /\ ReadsHold

\* It is an invariant.
LEMMA PlanKnownInvariant ==
  ASSUME OneUser
  PROVE  Spec => []PlanKnown
<1>1. Init => UnderRun /\ ReadsHold
  BY UnderRunStarts DEF Init, ReadsHold, NoCmd
<1>2. RunKnown /\ UnderRun /\ [Next]_vars => UnderRun'
  BY UnderRunStep, OneUserIsOneAtATime
<1>3. RunKnown /\ UnderRun /\ ReadsHold /\ [Next]_vars => ReadsHold'
  BY ReadsHoldStep
<1>4. TypeOK /\ OneOwner /\ Kept => RunKnown
  BY DEF RunKnown, Kept
<1>5. RunKnown /\ UnderRun /\ ReadsHold => PlanKnown
  BY DEF PlanKnown
<1> QED
  BY <1>1, <1>2, <1>3, <1>4, <1>5, TypeCorrect, EntryHasOneOwner, KeptInvariant, PTL
     DEF Spec

-----------------------------------------------------------------------------
(* Who has an item in hand, and what its row shows meanwhile.              *)

\* The buffer belongs to the loop and its final flush, and an outcome in it is
\* of an item that the database does not show as ended.
BufferHeld ==
  /\ pc \notin Loop \cup {"flush"} => buf = EmptyBuf
  /\ \A i \in Items : buf.last[i] # "none"
                        => row[i] \in {"pending", "applying", "skipped"}

\* An item the pass has not reached has no outcome; its row is `pending`, or
\* `skipped` when a user was faster.
ForwardHeld ==
  /\ pc = "off" => ahead = {}
  /\ \A i \in ahead : buf.last[i] = "none" /\ i # cur
  /\ pc \in Loop => \A i \in ahead : row[i] \in {"pending", "skipped"}
  /\ pc = "work" => row[cur] \in {"pending", "skipped"} /\ buf.last[cur] = "none"

\* The retries that are queued, drained or orphaned.
RetryIds == queued \cup batch \cup orphaned

\* A retry is in one place at a time, without an outcome, and its row is
\* `applying` until it has one.
RetriesHeld ==
  /\ pc = "off" => queued = {} /\ orphaned = {}
  /\ pc \in Loop =>
       /\ \A i \in RetryIds : row[i] = "applying" /\ buf.last[i] = "none" /\ i # cur
       /\ queued \cap batch = {} /\ queued \cap orphaned = {} /\ batch \cap orphaned = {}
  /\ pc = "rework" => row[cur] = "applying" /\ buf.last[cur] = "none"

\* The item a retry command names is in nobody's hands.
NamedHeld ==
  \A c \in Callers : cmd[c].at \in {"flip", "push", "undo"} =>
    /\ buf.last[cmd[c].item] = "none"
    /\ pc \in Loop =>
         /\ cmd[c].item \notin RetryIds \cup {cur}
         /\ row[cmd[c].item] = IF cmd[c].at = "flip" THEN "failed" ELSE "applying"

Custody == BufferHeld /\ ForwardHeld /\ RetriesHeld /\ NamedHeld

\* A step that leaves the items and the loop where they are, ...
LEMMA SameCustody ==
  ASSUME Custody, UNCHANGED <<pc, buf, row, ahead, cur, queueVars, batch>>,
         \A c \in Callers : cmd'[c].at \in {"flip", "push", "undo"}
                              => UNCHANGED cmd[c]
  PROVE  Custody'
  BY DEF Custody, BufferHeld, ForwardHeld, RetriesHeld, RetryIds, NamedHeld, queueVars

\* ... one that leaves no loop and no outcome, ...
LEMMA NoLoopCustody ==
  ASSUME pc' \notin Loop, buf' = EmptyBuf, ahead' \subseteq Items, cur' = 0,
         pc' = "off" => ahead' = {} /\ queued' = {} /\ orphaned' = {},
         CmdTypeOK'
  PROVE  Custody'
<1>1. \A i \in Items : EmptyBuf.last[i] = "none"
  BY DEF EmptyBuf
<1>2. \A i \in ahead' : i # 0
  BY PlanApplyAssumption DEF Items
<1>3. \A c \in Callers : cmd'[c].at \in ItemSteps => cmd'[c].item \in Items
  BY DEF CmdTypeOK
<1>4. BufferHeld'
  BY <1>1 DEF BufferHeld
<1>5. ForwardHeld'
  BY <1>1, <1>2 DEF ForwardHeld, Loop
<1>6. RetriesHeld'
  BY DEF RetriesHeld, Loop
<1>7. NamedHeld'
  BY <1>1, <1>3 DEF NamedHeld, ItemSteps
<1> QED
  BY <1>4, <1>5, <1>6, <1>7 DEF Custody

\* What a flush makes of one item, ...
LEMMA FlushAt ==
  ASSUME DbTypeOK, NEW b \in Buffers, Flush(b), NEW j \in Items
  PROVE  /\ buf'.last[j] = "none"
         /\ \/ row'[j] = IF b.last[j] = "none" THEN row[j] ELSE b.last[j]
            \/ DbFails /\ row'[j] = row[j]
  BY DEF Flush, EmptyBuf, DbTypeOK

\* ... and what an outcome that is reported makes of it.
LEMMA ReportAt ==
  ASSUME DbTypeOK, buf \in Buffers, NEW i \in Items,
         NEW s \in {"succeeded", "failed", "skipped"}, Report(i, s), NEW j \in Items,
         NEW l, l = IF j = i THEN s ELSE buf.last[j]
  PROVE  \/ buf'.last[j] = l /\ row'[j] = row[j]
         \/ buf'.last[j] = "none" /\ row'[j] = IF l = "none" THEN row[j] ELSE l
         \/ buf'.last[j] = "none" /\ row'[j] = row[j] /\ DbFails
<1> DEFINE b == Buffered(i, s)
<1>1. b \in Buffers
  BY BufferedType
<1>2. b.last[j] = l
  BY DEF Buffered, Buffers
<1>3. Flush(b) \/ (buf' = b /\ row' = row)
  BY DEF Report
<1> HIDE DEF b
<1> QED
  BY <1>1, <1>2, <1>3, FlushAt

\* ... or one beside a task that is over.
LEMMA IdleCustody ==
  ASSUME RunKnown, Custody, CmdTypeOK', pc \in {"off", "release"},
         UNCHANGED <<pc, buf, ahead, cur>>,
         queued' \in {queued, {}}, orphaned' \in {orphaned, {}}
  PROVE  Custody'
<1>1. buf = EmptyBuf /\ cur = 0 /\ ahead \subseteq Items
  BY DEF Custody, BufferHeld, Loop, RunKnown, RunShape, TypeOK, ExecTypeOK
<1>2. pc = "off" => ahead = {} /\ queued' = {} /\ orphaned' = {}
  BY DEF Custody, ForwardHeld, RetriesHeld
<1> QED
  BY <1>1, <1>2, NoLoopCustody DEF Loop

\* One user's commands keep every item in one hand.
LEMMA CommandCustody ==
  ASSUME OneUser, PlanKnown, Custody, NEW c \in Callers, Issue(c) \/ Command(c)
  PROVE  Custody'
<1>0. /\ cmd \in [Callers -> Commands] /\ \A d \in Callers : d = c
      /\ row \in [Items -> RowStates]
      /\ CmdTypeOK'
  BY IssueType, CommandType DEF OneUser, PlanKnown, RunKnown, TypeOK, CmdTypeOK, DbTypeOK
<1>1. ASSUME UNCHANGED <<pc, buf, row, ahead, cur, queueVars, batch>>,
             cmd'[c].at \notin {"flip", "push", "undo"}
      PROVE  Custody'
  BY <1>0, <1>1, SameCustody
<1>2. CASE Return(c) /\ UNCHANGED <<pc, buf, row, ahead, cur, queueVars, batch>>
  BY <1>0, <1>1, <1>2 DEF Return, NoCmd
<1>3. CASE Issue(c)
  <2>1. UNCHANGED <<pc, buf, row, ahead, cur, queueVars, batch>>
    BY <1>3 DEF Issue, ApplyRead, ResumeRead, Start, CancelRead, SkipCheck, RetryCheck,
       dbVars, execVars, passVars
  <2>2. ASSUME NEW i \in Items, RetryCheck(c, i)
        PROVE  Custody'
    <3>1. cmd'[c].at = "flip" /\ cmd'[c].item = i /\ row[i] = "failed"
      BY <1>0, <2>2 DEF RetryCheck, Begin, NoCmd
    <3>2. buf.last[i] = "none"
      BY <3>1 DEF Custody, BufferHeld
    <3>3. pc \in Loop => i \notin RetryIds
      BY <3>1 DEF Custody, RetriesHeld
    <3>4. pc \in Loop => i # cur
      <4>1. CASE pc \in {"work", "rework"}
        BY <3>1, <4>1 DEF Custody, RetriesHeld, ForwardHeld
      <4>2. CASE pc \notin {"work", "rework"}
        BY <4>2, PlanApplyAssumption DEF PlanKnown, RunKnown, RunShape, Items
      <4> QED
        BY <4>1, <4>2
    <3>5. NamedHeld'
      BY <1>0, <2>1, <3>1, <3>2, <3>3, <3>4 DEF NamedHeld, RetryIds, queueVars
    <3>6. BufferHeld' /\ ForwardHeld' /\ RetriesHeld'
      BY <2>1 DEF Custody, BufferHeld, ForwardHeld, RetriesHeld, RetryIds, queueVars
    <3> QED
      BY <3>5, <3>6 DEF Custody
  <2>3. ASSUME NEW op, NEW state, Start(c, op, state)
        PROVE  Custody'
    <3>1. cmd'[c].at = "load"
      BY <1>0, <2>3 DEF Start, Begin, NoCmd
    <3> QED
      BY <1>1, <2>1, <3>1
  <2>4. CASE CancelRead(c)
    <3>1. cmd'[c].at \in {"applying", "paused"}
      BY <1>0, <2>4 DEF CancelRead, Begin, NoCmd
    <3> QED
      BY <1>1, <2>1, <3>1
  <2>5. ASSUME NEW i \in Items, SkipCheck(c, i)
        PROVE  Custody'
    <3>1. cmd'[c].at = "write"
      BY <1>0, <2>5 DEF SkipCheck, Begin, NoCmd
    <3> QED
      BY <1>1, <2>1, <3>1
  <2> QED
    BY <1>3, <2>2, <2>3, <2>4, <2>5 DEF Issue, ApplyRead, ResumeRead
<1>4. CASE Load(c)
  <2>1. cmd'[c].at = "register"
    BY <1>0, <1>4 DEF Load, Commands
  <2> QED
    BY <1>1, <1>4, <2>1 DEF Load, dbVars, execVars, passVars
<1>5. CASE Register(c)
  <2>1. CASE reg
    BY <1>2, <1>5, <2>1 DEF Register, dbVars, execVars, passVars
  <2>2. CASE ~ reg
    <3>1. pc = "off"
      BY <2>2 DEF PlanKnown, RunKnown, OneOwner
    <3>2. /\ UNCHANGED <<pc, buf, ahead, cur>>
          /\ queued' \in {queued, {}} /\ orphaned' \in {orphaned, {}}
      BY <1>5, <2>2 DEF Register, RQ!NewQueue, execVars, passVars
    <3> QED
      BY <1>0, <3>1, <3>2, IdleCustody DEF PlanKnown
  <2> QED
    BY <2>1, <2>2
<1>6. CASE Claim(c) \/ LaunchFails(c)
  <2>1. pc = "off" /\ UNCHANGED <<pc, buf, ahead, cur>>
    BY <1>6 DEF Claim, LaunchFails, PlanKnown, RunKnown, OneOwner, Starting, execVars,
       passVars
  <2>2. queued' \in {queued, {}} /\ orphaned' \in {orphaned, {}}
    BY <1>6 DEF Claim, LaunchFails, DropGuard, RQ!DropQueue, queueVars
  <2> QED
    BY <1>0, <2>1, <2>2, IdleCustody DEF PlanKnown
<1>7. CASE Spawn(c)
  <2>1. /\ pc = "off" /\ queued = {} /\ orphaned = {} /\ batch = {} /\ cur = 0
        /\ cmd[c].snap = row
    BY <1>7 DEF Spawn, Custody, RetriesHeld, PlanKnown, RunKnown, OneOwner, Starting,
       RunShape, ReadsHold
  <2>2. /\ pc' = "pass" /\ ahead' = {i \in Items : row[i] = "pending"}
        /\ buf' = EmptyBuf /\ UNCHANGED <<queued, orphaned, batch, cur, row>>
    BY <1>7, <2>1 DEF Spawn, ForwardRows, dbVars, queueVars
  <2>3. cmd'[c].at = "idle"
    BY <1>0, <1>7 DEF Spawn, Return, NoCmd
  <2>4. BufferHeld'
    BY <2>2 DEF BufferHeld, Loop, EmptyBuf
  <2>5. ForwardHeld'
    BY <2>1, <2>2, PlanApplyAssumption DEF ForwardHeld, EmptyBuf, Items
  <2>6. RetriesHeld'
    BY <2>1, <2>2 DEF RetriesHeld, RetryIds
  <2>7. NamedHeld'
    BY <1>0, <2>3 DEF NamedHeld
  <2> QED
    BY <2>4, <2>5, <2>6, <2>7 DEF Custody
<1>8. CASE CancelSignal(c)
  <2>1. CASE Goto(c, "pendings")
    <3>1. cmd'[c].at = "pendings"
      BY <1>0, <2>1 DEF Goto, Commands
    <3> QED
      BY <1>1, <1>8, <3>1 DEF CancelSignal, dbVars, execVars, passVars
  <2> QED
    BY <1>2, <1>8, <2>1 DEF CancelSignal, dbVars, execVars, passVars
<1>9. CASE CancelPendings(c) \/ CancelOrphans(c) \/ CancelFinish(c)
  <2>1. cmd[c].op = "cancel" /\ cmd[c].at # "applying"
    BY <1>9 DEF CancelPendings, CancelOrphans, CancelRowsOf, CancelFinish, At
  <2>2. pc \in {"off", "release"}
    BY <2>1 DEF PlanKnown, UnderRun, Underway
  <2>3. /\ UNCHANGED <<pc, buf, ahead, cur>>
        /\ queued' \in {queued, {}} /\ orphaned' \in {orphaned, {}}
    BY <1>9 DEF CancelPendings, CancelOrphans, CancelRowsOf, CancelFinish, execVars,
       passVars, queueVars
  <2> QED
    BY <1>0, <2>2, <2>3, IdleCustody DEF PlanKnown
<1>10. CASE SkipWrite(c)
  <2>1. cmd'[c].at \in {"mark", "idle"}
    BY <1>0, <1>10 DEF SkipWrite, Goto, Return, NoCmd, Commands
  <2>2. \A i \in Items : row'[i] = row[i] \/ (row[i] = "pending" /\ row'[i] = "skipped")
    BY <1>0, <1>10 DEF SkipWrite
  <2>3. UNCHANGED <<pc, buf, ahead, cur, queueVars, batch>>
    BY <1>10 DEF SkipWrite, execVars, passVars
  <2>4. ahead \subseteq Items /\ RetryIds \subseteq Items /\
        (pc \in {"work", "rework"} => cur \in Items)
    BY DEF PlanKnown, RunKnown, TypeOK, ExecTypeOK, EntryTypeOK, RQ!QueueTypeOK, RetryIds
  <2>5. BufferHeld' /\ ForwardHeld'
    BY <2>2, <2>3, <2>4 DEF Custody, BufferHeld, ForwardHeld
  <2>6. RetriesHeld'
    BY <2>2, <2>3, <2>4 DEF Custody, RetriesHeld, RetryIds, queueVars
  <2>7. NamedHeld'
    BY <1>0, <2>1 DEF NamedHeld
  <2> QED
    BY <2>5, <2>6, <2>7 DEF Custody
<1>11. CASE SkipMark(c)
  BY <1>2, <1>11 DEF SkipMark, dbVars, execVars, passVars
<1>12. CASE RetryFlip(c) \/ RetryPush(c) \/ RetryUndo(c)
  <2> DEFINE i == cmd[c].item
  <2>0. UNCHANGED <<pc, buf, ahead, cur, batch>>
    BY <1>12 DEF RetryFlip, RetryPush, RetryUndo, execVars, passVars
  <2>1. /\ i \in Items /\ buf.last[i] = "none"
        /\ pc \in Loop => /\ i \notin RetryIds \cup {cur}
                          /\ row[i] \in {"failed", "applying"}
    BY <1>12 DEF RetryFlip, RetryPush, RetryUndo, At, Custody, NamedHeld, PlanKnown,
       RunKnown, TypeOK, CmdTypeOK, ItemSteps
  <2>2. /\ \A j \in Items \ {i} : row'[j] = row[j]
        /\ row'[i] \in {row[i], "applying", "failed"}
    BY <1>0, <1>12, <2>1 DEF RetryFlip, RetryPush, RetryUndo, RetryApplying,
       RollbackToFailed, dbVars
  <2>3. ahead \subseteq Items /\ RetryIds \subseteq Items /\
        (pc \in {"work", "rework"} => cur \in Items)
    BY DEF PlanKnown, RunKnown, TypeOK, ExecTypeOK, EntryTypeOK, RQ!QueueTypeOK, RetryIds
  <2>4. BufferHeld'
    <3>1. \A j \in Items : buf.last[j] # "none" => j # i
      BY <2>1
    <3> HIDE DEF i
    <3> QED
      BY <2>0, <2>2, <3>1 DEF Custody, BufferHeld
  <2>5. ForwardHeld'
    <3>1. pc \in Loop => i \notin ahead
      BY <2>1 DEF Custody, ForwardHeld
    <3>2. pc = "work" => cur # i
      BY <2>1 DEF Loop
    <3> HIDE DEF i
    <3> QED
      BY <2>0, <2>2, <2>3, <3>1, <3>2 DEF Custody, ForwardHeld
  <2>6. RetriesHeld' /\ NamedHeld'
    <3>1. CASE RetryFlip(c)
      <4>1. UNCHANGED queueVars
        BY <3>1 DEF RetryFlip
      <4>2. \/ cmd'[c].at = "push" /\ cmd'[c].item = i /\ (row[i] = "failed" => row'[i] = "applying")
            \/ cmd'[c].at = "idle"
        BY <1>0, <2>1, <3>1 DEF RetryFlip, RetryApplying, Goto, Return, NoCmd, Commands
      <4>3. pc \in Loop => row[i] = "failed"
        BY <3>1 DEF RetryFlip, At, Custody, NamedHeld
      <4>4. RetryIds' = RetryIds
        BY <2>0, <4>1 DEF RetryIds, queueVars
      <4>5. NamedHeld'
        BY <1>0, <2>0, <2>1, <4>2, <4>3, <4>4 DEF NamedHeld
      <4>6. RetriesHeld'
        <5> HIDE DEF i
        <5> QED
          BY <2>0, <2>1, <2>2, <2>3, <4>1, <4>4 DEF Custody, RetriesHeld, queueVars, Loop
      <4> QED
        BY <4>5, <4>6
    <3>2. CASE RetryPush(c) /\ reg /\ open
      <4>1. cmd'[c].at = "idle"
        BY <1>0, <3>2 DEF RetryPush, Return, NoCmd
      <4>2. queued' = queued \cup {i} /\ UNCHANGED <<orphaned, row>>
        BY <3>2 DEF RetryPush, RQ!Push, dbVars
      <4>3. pc # "off"
        <5>1. cmd[c].at = "push"
          BY <3>2 DEF RetryPush, At
        <5> QED
          BY <1>0, <3>2, <5>1 DEF PlanKnown, RunKnown, OneOwner, Starting
      <4>4. pc \in Loop => row[i] = "applying"
        BY <3>2 DEF RetryPush, At, Custody, NamedHeld
      <4>5. RetriesHeld'
        <5>1. RetryIds' = RetryIds \cup {i}
          BY <2>0, <4>2 DEF RetryIds
        <5>2. pc \in Loop => i \notin queued \cup batch \cup orphaned
          BY <2>1 DEF RetryIds
        <5> HIDE DEF i
        <5> QED
          BY <2>0, <2>1, <4>2, <4>3, <4>4, <5>1, <5>2 DEF Custody, RetriesHeld
      <4>6. NamedHeld'
        BY <1>0, <4>1 DEF NamedHeld
      <4> QED
        BY <4>5, <4>6
    <3>3. CASE RetryPush(c) /\ ~ (reg /\ open)
      <4>1. /\ cmd'[c].at = "undo" /\ cmd'[c].item = i /\ cmd[c].at = "push"
            /\ UNCHANGED <<queueVars, row>>
        BY <1>0, <3>3 DEF RetryPush, Goto, At, Commands, dbVars
      <4>2. RetriesHeld'
        BY <2>0, <4>1 DEF Custody, RetriesHeld, RetryIds, queueVars
      <4>3. NamedHeld'
        BY <1>0, <2>0, <4>1 DEF Custody, NamedHeld, RetryIds, queueVars
      <4> QED
        BY <4>2, <4>3
    <3>4. CASE RetryUndo(c)
      <4>1. cmd'[c].at = "idle" /\ UNCHANGED queueVars
        BY <1>0, <3>4 DEF RetryUndo, Return, NoCmd
      <4>2. RetryIds' = RetryIds
        BY <2>0, <4>1 DEF RetryIds, queueVars
      <4>3. RetriesHeld'
        <5> HIDE DEF i
        <5> QED
          BY <2>0, <2>1, <2>2, <2>3, <4>1, <4>2 DEF Custody, RetriesHeld, queueVars, Loop
      <4>4. NamedHeld'
        BY <1>0, <4>1 DEF NamedHeld
      <4> QED
        BY <4>3, <4>4
    <3> QED
      BY <1>12, <3>1, <3>2, <3>3, <3>4
  <2> QED
    BY <2>4, <2>5, <2>6 DEF Custody
<1> QED
  BY <1>3, <1>4, <1>5, <1>6, <1>7, <1>8, <1>9, <1>10, <1>11, <1>12 DEF Command

\* An outcome is reported of an item the database does not show as ended, and
\* what has no outcome is left alone.
LEMMA ReportHeld ==
  ASSUME TypeOK, BufferHeld, NEW i \in Items, NEW s \in {"succeeded", "failed", "skipped"},
         Report(i, s), row[i] \in {"pending", "applying", "skipped"},
         pc' \in Loop \cup {"flush"}
  PROVE  /\ BufferHeld'
         /\ \A j \in Items \ {i} : buf.last[j] = "none"
                                     => row'[j] = row[j] /\ buf'.last[j] = "none"
<1>1. ASSUME NEW j \in Items, buf'.last[j] # "none"
      PROVE  row'[j] \in {"pending", "applying", "skipped"}
  <2> DEFINE l == IF j = i THEN s ELSE buf.last[j]
  <2>1. l = IF j = i THEN s ELSE buf.last[j]
    OBVIOUS
  <2> HIDE DEF l
  <2>2. row'[j] = row[j] /\ buf'.last[j] = l
    BY <1>1, <2>1, ReportAt DEF TypeOK, ExecTypeOK
  <2> QED
    BY <1>1, <2>1, <2>2 DEF BufferHeld
<1>2. ASSUME NEW j \in Items \ {i}, buf.last[j] = "none"
      PROVE  row'[j] = row[j] /\ buf'.last[j] = "none"
  <2>1. "none" = IF j = i THEN s ELSE buf.last[j]
    BY <1>2
  <2> QED
    BY <2>1, ReportAt DEF TypeOK, ExecTypeOK
<1> QED
  BY <1>1, <1>2 DEF BufferHeld

\* The task hands items on: from the pass, or the queue, to its hand, and from
\* there with an outcome to the buffer.
LEMMA ExecutorCustody ==
  ASSUME PlanKnown, Custody, Executor
  PROVE  Custody'
<1>0. /\ CmdTypeOK' /\ ahead \subseteq Items /\ RetryIds \subseteq Items
      /\ \A i \in Items : i # 0
      /\ \A c \in Callers : cmd[c].at \in {"flip", "push", "undo"} => cmd[c].item \in Items
  BY ExecutorType, PlanApplyAssumption DEF PlanKnown, RunKnown, TypeOK, ExecTypeOK,
     EntryTypeOK, RQ!QueueTypeOK, RetryIds, Items, CmdTypeOK, ItemSteps
<1>1. ASSUME UNCHANGED <<buf, row, ahead, cmd>>, cur' = 0, pc' = "flush", pc \in Loop
      PROVE  Custody'
  <2>1. BufferHeld'
    BY <1>1 DEF Custody, BufferHeld, Loop
  <2>2. ForwardHeld'
    BY <1>0, <1>1 DEF Custody, ForwardHeld, Loop
  <2>3. RetriesHeld'
    BY <1>1 DEF RetriesHeld, Loop
  <2>4. NamedHeld'
    BY <1>1 DEF Custody, NamedHeld, Loop
  <2> QED
    BY <2>1, <2>2, <2>3, <2>4 DEF Custody
<1>2. CASE PassCancelled \/ BatchCancelled
  BY <1>1, <1>2 DEF PassCancelled, BatchCancelled, Halt, Loop, dbVars
<1>3. CASE PassComplete
  <2>1. cur = 0
    BY <1>3 DEF PassComplete, PlanKnown, RunKnown, RunShape
  <2> QED
    BY <1>1, <1>3, <2>1 DEF PassComplete, Loop, dbVars
<1>4. CASE PassSkip
  <2>1. PICK i \in Items : /\ i \in ahead /\ ahead' = ahead \ {i} /\ Report(i, "skipped")
    BY <1>4 DEF PassSkip, IsFirst
  <2>2. /\ pc = "pass" /\ pc' = "pass" /\ UNCHANGED <<cur, batch, queued, orphaned, cmd>>
        /\ cur = 0
    BY <1>4 DEF PassSkip, queueVars, PlanKnown, RunKnown, RunShape
  <2>3. row[i] \in {"pending", "skipped"}
    BY <2>1, <2>2 DEF Custody, ForwardHeld, Loop
  <2>4. /\ BufferHeld'
        /\ \A j \in Items \ {i} : buf.last[j] = "none"
                                    => row'[j] = row[j] /\ buf'.last[j] = "none"
    BY <2>1, <2>2, <2>3, ReportHeld DEF Custody, PlanKnown, RunKnown, Loop
  <2>5. ForwardHeld'
    BY <1>0, <2>1, <2>2, <2>4 DEF Custody, ForwardHeld, Loop
  <2>6. RetriesHeld'
    BY <1>0, <2>2, <2>3, <2>4 DEF Custody, RetriesHeld, RetryIds, Loop
  <2>7. NamedHeld'
    <3>1. \A c \in Callers : cmd[c].at \in {"flip", "push", "undo"} => cmd[c].item # i
      BY <2>2, <2>3 DEF Custody, NamedHeld, Loop
    <3> QED
      BY <1>0, <2>2, <2>4, <3>1 DEF Custody, NamedHeld, RetryIds, Loop
  <2> QED
    BY <2>4, <2>5, <2>6, <2>7 DEF Custody
<1>5. CASE PassStart
  <2>1. PICK i \in Items : i \in ahead /\ ahead' = ahead \ {i} /\ cur' = i
    BY <1>5 DEF PassStart, IsFirst, Pick
  <2>2. /\ pc = "pass" /\ pc' = "work"
        /\ UNCHANGED <<batch, queued, orphaned, cmd, buf, row>>
    BY <1>5 DEF PassStart, Pick, queueVars, dbVars
  <2>3. row[i] \in {"pending", "skipped"} /\ buf.last[i] = "none"
    BY <2>1, <2>2 DEF Custody, ForwardHeld, Loop
  <2>4. BufferHeld'
    BY <2>2 DEF Custody, BufferHeld, Loop
  <2>5. ForwardHeld'
    BY <2>1, <2>2, <2>3 DEF Custody, ForwardHeld, Loop
  <2>6. RetriesHeld'
    BY <2>1, <2>2, <2>3 DEF Custody, RetriesHeld, RetryIds, Loop
  <2>7. NamedHeld'
    BY <2>1, <2>2, <2>3 DEF Custody, NamedHeld, RetryIds, Loop
  <2> QED
    BY <2>4, <2>5, <2>6, <2>7 DEF Custody
<1>6. CASE Drain
  <2>1. /\ pc \in {"pass", "drain"} /\ pc' \in {"pass", "batch"} /\ batch = {}
        /\ batch' = queued /\ queued' = {}
        /\ UNCHANGED <<orphaned, cmd, buf, row, ahead, cur>>
    BY <1>6 DEF Drain, RQ!DrainAll, queueVars, dbVars, PlanKnown, RunKnown, RunShape
  <2>2. RetryIds' = RetryIds
    BY <2>1 DEF RetryIds
  <2>3. BufferHeld'
    BY <2>1 DEF Custody, BufferHeld, Loop
  <2>4. ForwardHeld'
    BY <2>1 DEF Custody, ForwardHeld, Loop
  <2>5. RetriesHeld'
    BY <2>1, <2>2 DEF Custody, RetriesHeld, Loop
  <2>6. NamedHeld'
    BY <2>1, <2>2 DEF Custody, NamedHeld, Loop
  <2> QED
    BY <2>3, <2>4, <2>5, <2>6 DEF Custody
<1>7. CASE BatchStart
  <2>1. PICK i \in batch : batch' = batch \ {i} /\ cur' = i
    BY <1>7 DEF BatchStart, Pick
  <2>2. /\ pc = "batch" /\ pc' = "rework"
        /\ UNCHANGED <<queued, orphaned, cmd, buf, row, ahead>>
    BY <1>7 DEF BatchStart, Pick, queueVars, dbVars
  <2>3. row[i] = "applying" /\ buf.last[i] = "none"
    BY <2>1, <2>2 DEF Custody, RetriesHeld, RetryIds, Loop
  <2>4. RetryIds' \subseteq RetryIds /\ i \notin RetryIds' /\ i \in RetryIds
    BY <2>1, <2>2 DEF Custody, RetriesHeld, RetryIds, Loop
  <2>5. BufferHeld'
    BY <2>2 DEF Custody, BufferHeld, Loop
  <2>6. ForwardHeld'
    BY <2>1, <2>2, <2>3 DEF Custody, ForwardHeld, Loop
  <2>7. RetriesHeld'
    BY <2>1, <2>2, <2>3, <2>4 DEF Custody, RetriesHeld, Loop
  <2>8. NamedHeld'
    BY <2>1, <2>2, <2>4 DEF Custody, NamedHeld, Loop
  <2> QED
    BY <2>5, <2>6, <2>7, <2>8 DEF Custody
<1>8. CASE BatchUnknown
  <2>1. PICK i \in batch : batch' = batch \ {i} /\ orphaned' = orphaned \cup {i}
    BY <1>8 DEF BatchUnknown, RQ!Orphan
  <2>2. /\ pc = "batch" /\ pc' \in {"batch", "pass"}
        /\ UNCHANGED <<queued, cmd, buf, row, ahead, cur>>
    BY <1>8 DEF BatchUnknown, AfterBatch, RQ!Orphan, dbVars
  <2>3. RetryIds' = RetryIds
    BY <2>1, <2>2 DEF RetryIds
  <2>4. BufferHeld'
    BY <2>2 DEF Custody, BufferHeld, Loop
  <2>5. ForwardHeld'
    BY <2>2 DEF Custody, ForwardHeld, Loop
  <2>6. RetriesHeld'
    BY <2>1, <2>2, <2>3 DEF Custody, RetriesHeld, Loop
  <2>7. NamedHeld'
    BY <2>2, <2>3 DEF Custody, NamedHeld, Loop
  <2> QED
    BY <2>4, <2>5, <2>6, <2>7 DEF Custody
<1>9. CASE WorkPauses \/ WorkEnds
  <2>1. PICK s \in {"failed", "succeeded"} : Report(cur, s)
    BY <1>9 DEF WorkPauses, WorkEnds, Results
  <2>2. /\ pc \in {"work", "rework"} /\ cur \in Items /\ cur' = 0
        /\ pc' \in {"flush", "drain", "pass", "batch"}
        /\ pc' # "flush" => UNCHANGED <<batch, queued, orphaned>>
        /\ UNCHANGED <<cmd, ahead>>
    BY <1>9 DEF WorkPauses, WorkEnds, Halt, AfterBatch, queueVars, PlanKnown, RunKnown,
       TypeOK, ExecTypeOK
  <2>3. row[cur] \in {"pending", "applying", "skipped"}
    BY <2>2 DEF Custody, ForwardHeld, RetriesHeld
  <2>4. /\ BufferHeld'
        /\ \A j \in Items \ {cur} : buf.last[j] = "none"
                                      => row'[j] = row[j] /\ buf'.last[j] = "none"
    BY <2>1, <2>2, <2>3, ReportHeld DEF Custody, PlanKnown, RunKnown, Loop
  <2>5. ForwardHeld'
    BY <1>0, <2>2, <2>4 DEF Custody, ForwardHeld, Loop
  <2>6. RetriesHeld'
    BY <1>0, <2>2, <2>4 DEF Custody, RetriesHeld, RetryIds, Loop
  <2>7. NamedHeld'
    BY <1>0, <2>2, <2>4 DEF Custody, NamedHeld, RetryIds, Loop
  <2> QED
    BY <2>4, <2>5, <2>6, <2>7 DEF Custody
<1>10. CASE FinalFlush \/ Restore \/ EndPendings \/ EndOrphans \/ EndCount \/ EndComplete
  <2>1. pc \in AfterLoop /\ pc' \in AfterLoop \ {"flush"} /\ UNCHANGED <<ahead, cur>>
    BY <1>10 DEF FinalFlush, Restore, EndPendings, EndOrphans, HandlerCancels, EndCount,
       EndComplete, AfterLoop
  <2>2. cur = 0
    BY <2>1 DEF PlanKnown, RunKnown, RunShape, AfterLoop
  <2>3. buf' = EmptyBuf
    BY <1>10 DEF FinalFlush, Flush, Restore, EndPendings, EndOrphans, HandlerCancels,
       EndCount, EndComplete, Custody, BufferHeld, Loop
  <2> QED
    BY <1>0, <2>1, <2>2, <2>3, NoLoopCustody DEF AfterLoop, Loop
<1>11. CASE Dispatch \/ Release
  <2>1. /\ pc \in {"restore", "release"} /\ UNCHANGED <<cur, buf>>
        /\ \/ pc' = "off" /\ ahead' = {} /\ queued' = {} /\ orphaned' = {}
           \/ pc' \in {"pendings", "orphans"} /\ UNCHANGED ahead
    BY <1>11 DEF Dispatch, Release, DropGuard, RQ!DropQueue, TaskOver
  <2>2. cur = 0 /\ buf = EmptyBuf
    BY <2>1 DEF PlanKnown, RunKnown, RunShape, Custody, BufferHeld, Loop
  <2> QED
    BY <1>0, <2>1, <2>2, NoLoopCustody DEF Loop
<1>12. CASE PauseRun
  <2>1. pc = "off" /\ UNCHANGED <<pc, buf, ahead, cur, queued, orphaned>>
    BY <1>12 DEF PauseRun, PlanKnown, UnderRun, queueVars, passVars
  <2> QED
    BY <1>0, <2>1, IdleCustody DEF PlanKnown
<1> QED
  BY <1>2, <1>3, <1>4, <1>5, <1>6, <1>7, <1>8, <1>9, <1>10, <1>11, <1>12 DEF Executor

\* It holds at the start, and every step keeps it.
LEMMA CustodyInvariant ==
  ASSUME OneUser
  PROVE  Spec => []Custody
<1>1. Init => Custody
  BY DEF Init, Custody, BufferHeld, ForwardHeld, RetriesHeld, NamedHeld, EmptyBuf,
     NoCmd, Loop, RQ!NoQueue
<1>2. PlanKnown /\ Custody /\ [Next]_vars => Custody'
  <2> SUFFICES ASSUME PlanKnown, Custody, [Next]_vars PROVE Custody'
    OBVIOUS
  <2>1. CASE UNCHANGED vars
    BY <2>1, SameCustody DEF vars, dbVars, execVars, passVars
  <2>2. CASE Boot
    <3>1. pc = "off" /\ UNCHANGED <<pc, buf, ahead, cur, queued, orphaned>>
      BY <2>2 DEF Boot, BootSweep, BootList, BootItem, PlanKnown, UnderRun, queueVars,
         execVars, passVars
    <3>2. CmdTypeOK'
      BY <2>2, BootType DEF PlanKnown, RunKnown, TypeOK
    <3> QED
      BY <3>1, <3>2, IdleCustody DEF PlanKnown
  <2>3. CASE Crash
    <3>1. /\ pc' = "off" /\ buf' = EmptyBuf /\ ahead' = {} /\ cur' = 0
          /\ queued' = {} /\ orphaned' = {}
      BY <2>3 DEF Crash, TaskOver, DropGuard, RQ!DropQueue
    <3>2. CmdTypeOK'
      BY <2>3, CrashType DEF PlanKnown, RunKnown, TypeOK
    <3> QED
      BY <3>1, <3>2, NoLoopCustody DEF Loop
  <2> QED
    BY <2>1, <2>2, <2>3, CommandCustody, ExecutorCustody DEF Next
<1> QED
  BY <1>1, <1>2, PlanKnownInvariant, PTL DEF Spec

-----------------------------------------------------------------------------
(* The life of an item row.                                                *)

\* What the boot task has listed and not yet decided has not ended.
BootRows ==
  bootPc = "items" => \A i \in bootTodo : row[i] \in {"pending", "applying"}

\* The rows and where their items are.
RowsKnown == PlanKnown /\ Custody /\ BootRows

\* A row changes only in these ways: it is cancelled, skipped, retried or rolled
\* back; reconciled with its file; or given the outcome the buffer or the task
\* has of it.  `succeeded` and `cancelled` are for good.
RowMoves(i) ==
  \/ row'[i] = row[i]
  \/ row[i] \in {"pending", "applying"} /\ row'[i] = "cancelled"
  \/ row[i] = "pending" /\ row'[i] = "skipped" /\ \E c \in Callers : cmd[c].op = "skip"
  \/ row[i] = "failed" /\ row'[i] = "applying"
  \/ row[i] = "applying" /\ row'[i] = "failed"
  \/ /\ bootPc = "items" /\ row[i] \in {"pending", "applying"}
     /\ \/ disk[i] = "done" /\ i \notin Rootless /\ row'[i] = "succeeded"
        \/ (disk[i] = "both" \/ i \in Rootless \/ DbFails) /\ row'[i] = "failed"
  \/ /\ row[i] \in {"pending", "applying", "skipped"}
     /\ \/ row'[i] = buf.last[i] /\ buf.last[i] # "none"
        \/ row'[i] = "succeeded" /\ i = cur /\ disk[i] = "source"
        \/ row'[i] = "failed" /\ i = cur
        \/ row'[i] = "skipped" /\ pc = "pass" /\ i \in ahead \cap skipSet

\* A reported outcome moves rows so.
LEMMA ReportMoves ==
  ASSUME TypeOK, Custody, NEW i \in Items, NEW s \in {"succeeded", "failed", "skipped"},
         Report(i, s), row[i] \in {"pending", "applying", "skipped"},
         \/ s = "skipped" /\ pc = "pass" /\ i \in ahead \cap skipSet
         \/ s = "failed" /\ i = cur
         \/ s = "succeeded" /\ i = cur /\ disk[i] = "source",
         NEW j \in Items
  PROVE  RowMoves(j)
<1> DEFINE l == IF j = i THEN s ELSE buf.last[j]
<1>1. l = IF j = i THEN s ELSE buf.last[j]
  OBVIOUS
<1> HIDE DEF l
<1>2. row'[j] = row[j] \/ (row'[j] = l /\ l # "none")
  BY <1>1, ReportAt DEF TypeOK, ExecTypeOK
<1> QED
  BY <1>1, <1>2 DEF RowMoves, Custody, BufferHeld

\* The bulk cancellations move rows so.
LEMMA CancelMoves ==
  ASSUME TypeOK, NEW state \in {"pending", "applying"}, CancelRows(state), NEW j \in Items
  PROVE  RowMoves(j)
  BY DEF RowMoves, CancelRows, TypeOK, DbTypeOK

\* Every step moves rows so.
LEMMA RowStep ==
  ASSUME RowsKnown, [Next]_vars, NEW j \in Items
  PROVE  RowMoves(j)
<1>0. TypeOK /\ Custody /\ row \in [Items -> RowStates]
  BY DEF RowsKnown, PlanKnown, RunKnown, TypeOK, DbTypeOK
<1>1. ASSUME NEW c \in Callers, Issue(c) \/ Command(c)
      PROVE  RowMoves(j)
  <2>1. CASE UNCHANGED row
    BY <2>1 DEF RowMoves
  <2>2. CASE CancelPendings(c) \/ CancelOrphans(c)
    BY <1>0, <2>1, <2>2, CancelMoves DEF CancelPendings, CancelOrphans, CancelRowsOf
  <2>3. CASE SkipWrite(c)
    BY <1>0, <2>3 DEF SkipWrite, At, RowMoves
  <2>4. CASE RetryFlip(c)
    BY <1>0, <2>4 DEF RetryFlip, RetryApplying, RowMoves
  <2>5. CASE RetryUndo(c)
    BY <1>0, <2>5 DEF RetryUndo, RollbackToFailed, RowMoves
  <2>6. CASE Issue(c)
    BY <2>1, <2>6 DEF Issue, ApplyRead, ResumeRead, Start, CancelRead, SkipCheck,
       RetryCheck, dbVars
  <2> QED
    BY <1>1, <2>1, <2>2, <2>3, <2>4, <2>5, <2>6
       DEF Command, Load, Register, Claim, Spawn, LaunchFails, CancelSignal,
           CancelFinish, SkipMark, RetryPush, dbVars
<1>2. CASE Executor
  <2>1. CASE UNCHANGED row
    BY <2>1 DEF RowMoves
  <2>2. CASE PassSkip
    <3>1. PICK i \in Items : /\ pc = "pass" /\ i \in ahead /\ i \in skipSet
                             /\ Report(i, "skipped")
      BY <2>2 DEF PassSkip, IsFirst
    <3>2. row[i] \in {"pending", "skipped"}
      BY <2>2, <3>1 DEF PassSkip, RowsKnown, Custody, ForwardHeld, Loop
    <3> QED
      BY <1>0, <3>1, <3>2, ReportMoves
  <2>3. CASE WorkPauses \/ WorkEnds
    <3>1. PICK s \in {"failed", "succeeded"} :
            Report(cur, s) /\ (s = "succeeded" => disk[cur] = "source")
      BY <2>3 DEF WorkPauses, WorkEnds, Results
    <3>2. cur \in Items /\ row[cur] \in {"pending", "applying", "skipped"}
      BY <1>0, <2>3 DEF WorkPauses, WorkEnds, TypeOK, ExecTypeOK, Custody, ForwardHeld,
         RetriesHeld
    <3> QED
      BY <1>0, <3>1, <3>2, ReportMoves
  <2>4. CASE FinalFlush
    BY <1>0, <2>4, FlushAt DEF FinalFlush, RowMoves, Custody, BufferHeld, TypeOK, ExecTypeOK
  <2>5. CASE Restore
    BY <1>0, <2>5 DEF Restore, RollbackToFailed, RowMoves
  <2>6. CASE EndPendings \/ EndOrphans
    BY <1>0, <2>1, <2>6, CancelMoves DEF EndPendings, EndOrphans, HandlerCancels
  <2> QED
    BY <1>2, <2>1, <2>2, <2>3, <2>4, <2>5, <2>6
       DEF Executor, PassCancelled, PassStart, PassComplete, Drain, BatchCancelled,
           BatchStart, BatchUnknown, Dispatch, PauseRun, EndCount, EndComplete,
           Release, dbVars
<1>3. CASE BootItem
  <2>1. PICK i \in Items :
          \/ UNCHANGED row
          \/ /\ disk[i] = "done" /\ i \notin Rootless /\ i \in bootTodo
             /\ row' = [row EXCEPT ![i] = "succeeded"]
          \/ /\ disk[i] = "both" \/ i \in Rootless \/ DbFails
             /\ row' = [row EXCEPT ![i] = "failed"] /\ i \in bootTodo
    BY <1>3 DEF BootItem, IsFirst
  <2>2. bootPc = "items" /\ \A k \in bootTodo : row[k] \in {"pending", "applying"}
    BY <1>3 DEF BootItem, RowsKnown, BootRows
  <2> QED
    BY <1>0, <2>1, <2>2 DEF RowMoves
<1>4. CASE BootSweep \/ BootList \/ Crash \/ UNCHANGED vars
  BY <1>4 DEF BootSweep, BootList, Crash, RowMoves, dbVars, vars
<1> QED
  BY <1>1, <1>2, <1>3, <1>4 DEF Next, Boot

\* While the boot task decides, nothing else runs.
LEMMA BootRowsStep ==
  ASSUME PlanKnown, BootRows, [Next]_vars
  PROVE  BootRows'
<1> USE DEF BootRows
<1>0. row \in [Items -> RowStates] /\ bootTodo \subseteq Items
  BY DEF PlanKnown, RunKnown, TypeOK, DbTypeOK, BootTypeOK
<1>1. CASE UNCHANGED <<bootPc, bootTodo, row>>
  BY <1>1
<1>2. ASSUME NEW c \in Callers, Issue(c)
      PROVE  UNCHANGED <<bootPc, bootTodo, row>>
  BY <1>2 DEF Issue, ApplyRead, ResumeRead, Start, CancelRead, SkipCheck, RetryCheck,
     dbVars, bootVars
<1>3. ASSUME NEW c \in Callers, Command(c)
      PROVE  BootRows'
  <2>1. cmd[c].at # "idle"
    BY <1>3 DEF Command, Load, Register, Claim, Spawn, LaunchFails, CancelSignal,
       CancelPendings, CancelOrphans, CancelRowsOf, CancelFinish, SkipWrite, SkipMark,
       RetryFlip, RetryPush, RetryUndo, At
  <2>2. bootPc = "done"
    BY <2>1 DEF PlanKnown, UnderRun
  <2>3. UNCHANGED bootPc
    BY <1>3 DEF Command, Load, Register, Claim, Spawn, LaunchFails, CancelSignal,
       CancelPendings, CancelOrphans, CancelRowsOf, CancelFinish, SkipWrite, SkipMark,
       RetryFlip, RetryPush, RetryUndo, bootVars
  <2> QED
    BY <2>2, <2>3
<1>4. CASE Executor
  <2>1. pc # "off" \/ pausing
    BY <1>4 DEF Executor, PassCancelled, PassSkip, PassStart, PassComplete, Drain,
       BatchCancelled, BatchStart, BatchUnknown, WorkPauses, WorkEnds, FinalFlush,
       Restore, Dispatch, PauseRun, EndPendings, EndOrphans, HandlerCancels, EndCount,
       EndComplete, Release
  <2>2. bootPc = "done"
    BY <2>1 DEF PlanKnown, UnderRun
  <2>3. UNCHANGED bootPc
    BY <1>4 DEF Executor, PassCancelled, PassSkip, PassStart, PassComplete, Drain,
       BatchCancelled, BatchStart, BatchUnknown, WorkPauses, WorkEnds, FinalFlush,
       Restore, Dispatch, PauseRun, EndPendings, EndOrphans, HandlerCancels, EndCount,
       EndComplete, Release, bootVars
  <2> QED
    BY <2>2, <2>3
<1>5. CASE BootSweep
  BY <1>5 DEF BootSweep
<1>6. CASE BootList
  BY <1>6 DEF BootList, RowsIn, dbVars
<1>7. CASE BootItem
  <2>1. PICK i \in Items : /\ bootTodo' \subseteq bootTodo \ {i}
                            /\ \A k \in Items \ {i} : row'[k] = row[k]
    BY <1>0, <1>7 DEF BootItem, IsFirst, PlanKnown, RunKnown, TypeOK, DbTypeOK
  <2> QED
    BY <1>0, <1>7, <2>1 DEF BootItem
<1>8. CASE Crash
  BY <1>8 DEF Crash
<1> QED
  BY <1>1, <1>2, <1>3, <1>4, <1>5, <1>6, <1>7, <1>8
     DEF Next, Boot, vars, dbVars, bootVars

\* What is known of the rows is an invariant.
LEMMA RowsKnownInvariant ==
  ASSUME OneUser
  PROVE  Spec => []RowsKnown
<1>1. Init => BootRows
  BY DEF Init, BootRows
<1>2. PlanKnown /\ BootRows /\ [Next]_vars => BootRows'
  BY BootRowsStep
<1>3. PlanKnown /\ Custody /\ BootRows => RowsKnown
  BY DEF RowsKnown
<1> QED
  BY <1>1, <1>2, <1>3, PlanKnownInvariant, CustodyInvariant, PTL DEF Spec

\* The life of an item row, for one user and through every crash and failed
\* write.  In particular a flush, which writes by id whatever the row holds,
\* never overwrites a row that shows `succeeded`, `failed` or `cancelled`.
THEOREM RowsLive ==
  ASSUME BootRace = FALSE, \A c, d \in Callers : c = d
  PROVE  Spec => [][\A i \in Items : RowMoves(i)]_vars
<1>1. RowsKnown /\ [Next]_vars => [\A i \in Items : RowMoves(i)]_vars
  BY RowStep
<1>2. OneUser
  BY DEF OneUser
<1> QED
  BY <1>1, <1>2, RowsKnownInvariant, PTL DEF Spec

-----------------------------------------------------------------------------
(* The life of an item in the task.                                        *)

\* The task takes an item from the pass, which no user skipped, or a retry.
HandMoves ==
  \/ cur' \in {0, cur}
  \/ pc = "pass" /\ cur' \in ahead \ skipSet
  \/ pc = "batch" /\ cur' \in batch

\* An outcome stays in the buffer, is flushed, or is new: of the item in hand, or
\* of an item a user skipped, which leaves the pass with it.
BufferMoves(i) ==
  \/ buf'.last[i] \in {"none", buf.last[i]}
  \/ i = cur /\ buf'.last[i] = "succeeded" /\ disk[i] = "source"
  \/ i = cur /\ buf'.last[i] = "failed"
  \/ /\ pc = "pass" /\ i \in ahead \cap skipSet /\ i \notin ahead'
     /\ buf'.last[i] = "skipped"

\* The pass only gets shorter, except that a spawn starts one over the rows that
\* are `pending`; a skip leaves the SkipSet with its item, or with the run.
AheadMoves ==
  /\ \/ ahead' \subseteq ahead /\ (pc' \in Loop => pc \in Loop)
     \/ ahead' = RowsIn({"pending"}) /\ UNCHANGED row
        /\ \A c \in Callers : cmd'[c].at = "idle"
  /\ \A i \in skipSet : i \in skipSet' \/ i \notin ahead'

\* Every step moves items so.
LEMMA TaskStep ==
  ASSUME OneUser, RowsKnown, [Next]_vars
  PROVE  HandMoves /\ AheadMoves /\ \A i \in Items : BufferMoves(i)
<1>0. /\ TypeOK /\ Custody /\ RunShape
      /\ \A i \in Items : EmptyBuf.last[i] = "none"
  BY DEF RowsKnown, PlanKnown, RunKnown, EmptyBuf
<1>1. CASE UNCHANGED <<cur, buf, ahead, skipSet>> /\ (pc' \in Loop => pc \in Loop)
  BY <1>1 DEF HandMoves, AheadMoves, BufferMoves
<1>2. CASE cur' = 0 /\ ahead' = {} /\ (buf' = EmptyBuf \/ UNCHANGED buf) /\ pc' = "off"
  BY <1>0, <1>2 DEF HandMoves, AheadMoves, BufferMoves, Loop
<1>3. ASSUME NEW c \in Callers, Issue(c)
      PROVE  UNCHANGED <<cur, buf, ahead, skipSet, pc>>
  BY <1>3 DEF Issue, ApplyRead, ResumeRead, Start, CancelRead, SkipCheck, RetryCheck,
     execVars, passVars, entryVars
<1>4. ASSUME NEW c \in Callers, Command(c)
      PROVE  HandMoves /\ AheadMoves /\ \A i \in Items : BufferMoves(i)
  <2>1. CASE \/ Load(c) \/ CancelSignal(c) \/ CancelPendings(c) \/ CancelOrphans(c)
             \/ CancelFinish(c) \/ SkipWrite(c) \/ RetryFlip(c) \/ RetryPush(c)
             \/ RetryUndo(c)
    BY <1>1, <2>1 DEF Load, CancelSignal, CancelPendings, CancelOrphans, CancelRowsOf,
       CancelFinish, SkipWrite, RetryFlip, RetryPush, RetryUndo, execVars, passVars,
       entryVars
  <2>2. CASE SkipMark(c)
    <3>1. UNCHANGED <<cur, buf, ahead, pc>> /\ skipSet \subseteq skipSet'
      BY <2>2 DEF SkipMark, execVars, passVars
    <3> QED
      BY <3>1 DEF HandMoves, AheadMoves, BufferMoves
  <2>3. CASE Register(c) /\ reg
    BY <1>1, <2>3 DEF Register, execVars, passVars, entryVars
  <2>4. CASE \/ Register(c) /\ ~ reg
             \/ Claim(c) \/ LaunchFails(c)
    <3>1. pc = "off" /\ ahead = {} /\ cur = 0
      BY <1>0, <2>4 DEF Claim, LaunchFails, RowsKnown, PlanKnown, RunKnown, OneOwner,
         Starting, Custody, ForwardHeld, RunShape
    <3>2. UNCHANGED <<cur, buf, ahead, pc>>
      BY <2>4 DEF Register, Claim, LaunchFails, execVars, passVars
    <3> QED
      BY <1>2, <3>1, <3>2
  <2>5. CASE Spawn(c)
    <3>1. cmd'[c].at = "idle" /\ \A d \in Callers : d = c
      BY <1>0, <2>5 DEF Spawn, Return, NoCmd, OneUser, TypeOK, CmdTypeOK
    <3>2. cmd[c].snap = row
      BY <2>5 DEF Spawn, RowsKnown, PlanKnown, ReadsHold
    <3>3. ahead' = RowsIn({"pending"}) /\ UNCHANGED <<row, skipSet, cur>> /\ buf' = EmptyBuf
      BY <2>5, <3>2 DEF Spawn, ForwardRows, RowsIn, dbVars, entryVars
    <3> QED
      BY <1>0, <3>1, <3>3 DEF HandMoves, AheadMoves, BufferMoves
  <2> QED
    BY <1>4, <2>1, <2>2, <2>3, <2>4, <2>5 DEF Command
<1>5. CASE Executor
  <2>1. ASSUME NEW i \in Items, NEW s \in {"succeeded", "failed", "skipped"}, Report(i, s),
               \/ /\ pc = "pass" /\ i \in ahead \cap skipSet /\ i \notin ahead'
                  /\ s = "skipped"
               \/ s = "failed" /\ i = cur
               \/ s = "succeeded" /\ i = cur /\ disk[i] = "source"
        PROVE  \A j \in Items : BufferMoves(j)
    <3> SUFFICES ASSUME NEW j \in Items PROVE BufferMoves(j)
      OBVIOUS
    <3> DEFINE l == IF j = i THEN s ELSE buf.last[j]
    <3>1. l = IF j = i THEN s ELSE buf.last[j]
      OBVIOUS
    <3> HIDE DEF l
    <3>2. buf'.last[j] \in {l, "none"}
      BY <1>0, <2>1, <3>1, ReportAt DEF TypeOK, ExecTypeOK
    <3> QED
      BY <2>1, <3>1, <3>2 DEF BufferMoves
  <2>2. CASE PassSkip
    <3>1. PICK i \in Items : /\ i \in ahead /\ i \in skipSet /\ Report(i, "skipped")
                             /\ skipSet' = skipSet \ {i} /\ ahead' = ahead \ {i}
                             /\ pc = "pass"
      BY <2>2 DEF PassSkip, IsFirst
    <3>2. \A j \in Items : BufferMoves(j)
      BY <2>1, <3>1
    <3>3. UNCHANGED <<cur, pc>>
      BY <2>2 DEF PassSkip
    <3> QED
      BY <3>1, <3>2, <3>3 DEF HandMoves, AheadMoves
  <2>3. CASE WorkPauses \/ WorkEnds
    <3>1. PICK s \in {"failed", "succeeded"} :
            Report(cur, s) /\ (s = "succeeded" => disk[cur] = "source")
      BY <2>3 DEF WorkPauses, WorkEnds, Results
    <3>2. /\ cur \in Items /\ cur' = 0 /\ pc \in Loop
          /\ UNCHANGED <<ahead, skipSet>>
      BY <1>0, <2>3 DEF WorkPauses, WorkEnds, Halt, TypeOK, ExecTypeOK, entryVars, Loop
    <3>3. \A j \in Items : BufferMoves(j)
      BY <2>1, <3>1, <3>2
    <3> QED
      BY <3>2, <3>3 DEF HandMoves, AheadMoves
  <2>4. CASE PassStart
    <3>1. /\ cur' \in ahead \ skipSet /\ ahead' \subseteq ahead /\ pc = "pass"
          /\ UNCHANGED <<buf, skipSet>>
      BY <2>4 DEF PassStart, IsFirst, Pick, entryVars
    <3> QED
      BY <3>1 DEF HandMoves, AheadMoves, BufferMoves, Loop
  <2>5. CASE BatchStart
    <3>1. cur' \in batch /\ pc = "batch" /\ UNCHANGED <<ahead, buf, skipSet>>
      BY <2>5 DEF BatchStart, Pick, entryVars
    <3> QED
      BY <3>1 DEF HandMoves, AheadMoves, BufferMoves, Loop
  <2>6. CASE PassCancelled \/ BatchCancelled
    <3>1. cur' = 0 /\ pc' = "flush" /\ UNCHANGED <<ahead, buf, skipSet>>
      BY <2>6 DEF PassCancelled, BatchCancelled, Halt, entryVars
    <3> QED
      BY <3>1 DEF HandMoves, AheadMoves, BufferMoves, Loop
  <2>7. CASE FinalFlush
    <3>1. pc' = "restore" /\ buf' = EmptyBuf /\ UNCHANGED <<ahead, skipSet, cur>>
      BY <2>7 DEF FinalFlush, Flush, entryVars
    <3> QED
      BY <1>0, <3>1 DEF HandMoves, AheadMoves, BufferMoves, Loop
  <2>8. CASE Dispatch \/ Release
    <3>1. /\ pc \in {"restore", "release"} /\ UNCHANGED <<cur, buf>>
          /\ \/ pc' = "off" /\ ahead' = {}
             \/ pc' \in {"pendings", "orphans"} /\ UNCHANGED <<ahead, skipSet>>
      BY <2>8 DEF Dispatch, Release, TaskOver, entryVars
    <3>2. cur = 0
      BY <1>0, <3>1 DEF RunShape
    <3> QED
      BY <1>1, <1>2, <3>1, <3>2 DEF Loop
  <2>9. CASE PassComplete \/ Drain \/ BatchUnknown
    <3>1. pc \in Loop /\ UNCHANGED <<cur, buf, ahead, skipSet>>
      BY <2>9 DEF PassComplete, Drain, BatchUnknown, entryVars, Loop
    <3> QED
      BY <1>1, <3>1
  <2>10. CASE Restore \/ PauseRun \/ EndPendings \/ EndOrphans \/ EndCount \/ EndComplete
    <3>1. /\ pc' = pc \/ pc' \in {"orphans", "count", "complete", "release"}
          /\ UNCHANGED <<cur, buf, ahead, skipSet>>
      BY <2>10 DEF Restore, PauseRun, EndPendings, EndOrphans, HandlerCancels, EndCount,
         EndComplete, entryVars, passVars
    <3> QED
      BY <1>1, <3>1 DEF Loop
  <2> QED
    BY <1>5, <2>2, <2>3, <2>4, <2>5, <2>6, <2>7, <2>8, <2>9, <2>10 DEF Executor
<1>6. CASE Boot \/ UNCHANGED vars
  BY <1>1, <1>6 DEF Boot, BootSweep, BootList, BootItem, vars, execVars, passVars, entryVars
<1>7. CASE Crash
  BY <1>2, <1>7 DEF Crash, TaskOver
<1> QED
  BY <1>1, <1>3, <1>4, <1>5, <1>6, <1>7 DEF Next

-----------------------------------------------------------------------------
(* A skip that was answered holds.                                         *)

\* An item whose skip was answered shows it, has no other outcome, and is passed
\* over by the pass that has yet to reach it; the row is written before the skip
\* is marked.
SkipHeard ==
  /\ \A i \in skipAcked :
       /\ row[i] = "skipped" /\ buf.last[i] \in {"none", "skipped"} /\ i # cur
       /\ pc \in Loop /\ i \in ahead => i \in skipSet
  /\ \A c \in Callers : cmd[c].at = "mark" /\ cmd[c].item \in ahead
                          => row[cmd[c].item] = "skipped"

\* No step forgets it, and no flush overwrites it.
LEMMA SkipHeardStep ==
  ASSUME OneUser, RowsKnown, SkipHeard, [Next]_vars
  PROVE  SkipHeard'
<1>0. /\ skipAcked \subseteq Items /\ ahead \subseteq Items /\ cmd \in [Callers -> Commands]
      /\ row \in [Items -> RowStates] /\ \A i \in Items : i # 0
      /\ \A c \in Callers : cmd[c].at = "mark" => cmd[c].item \in Items
      /\ TypeOK /\ OneOwner
  BY PlanApplyAssumption DEF RowsKnown, PlanKnown, RunKnown, TypeOK, HistoryTypeOK,
     ExecTypeOK, CmdTypeOK, DbTypeOK, ItemSteps, Items
<1>1. /\ HandMoves /\ AheadMoves /\ \A i \in Items : BufferMoves(i) /\ RowMoves(i)
  BY TaskStep, RowStep
\* What was answered before this step.
<1>2. ASSUME NEW i \in skipAcked
      PROVE  /\ row'[i] = "skipped" /\ buf'.last[i] \in {"none", "skipped"} /\ i # cur'
             /\ pc' \in Loop /\ i \in ahead' => i \in skipSet'
  <2>1. /\ i \in Items /\ row[i] = "skipped" /\ buf.last[i] \in {"none", "skipped"}
        /\ i # cur /\ (pc \in Loop /\ i \in ahead => i \in skipSet)
    BY <1>0 DEF SkipHeard
  <2>2. row'[i] = "skipped"
    BY <1>1, <2>1 DEF RowMoves
  <2>3. buf'.last[i] \in {"none", "skipped"}
    BY <1>1, <2>1 DEF BufferMoves
  <2>4. i # cur'
    <3>1. pc = "batch" => i \notin batch
      BY <2>1 DEF RowsKnown, Custody, RetriesHeld, RetryIds, Loop
    <3>2. pc = "pass" => i \notin ahead \ skipSet
      BY <2>1 DEF Loop
    <3> QED
      BY <1>0, <1>1, <2>1, <3>1, <3>2 DEF HandMoves
  <2>5. pc' \in Loop /\ i \in ahead' => i \in skipSet'
    BY <1>1, <2>1 DEF AheadMoves, RowsIn
  <2> QED
    BY <2>2, <2>3, <2>4, <2>5
\* What this step answers.
<1>3. ASSUME NEW i \in skipAcked', i \notin skipAcked
      PROVE  /\ row'[i] = "skipped" /\ buf'.last[i] \in {"none", "skipped"} /\ i # cur'
             /\ pc' \in Loop /\ i \in ahead' => i \in skipSet'
  <2>1. PICK c \in Callers : SkipMark(c)
    BY <1>3 DEF Next, Issue, ApplyRead, ResumeRead, Start, CancelRead, SkipCheck,
       RetryCheck, Command, Load, Register, Claim, Spawn, LaunchFails, CancelSignal,
       CancelPendings, CancelOrphans, CancelRowsOf, CancelFinish, SkipWrite, RetryFlip,
       RetryPush, RetryUndo, Executor, PassCancelled, PassSkip, PassStart, PassComplete,
       Drain, BatchCancelled, BatchStart, BatchUnknown, WorkPauses, WorkEnds, FinalFlush,
       Restore, Dispatch, PauseRun, EndPendings, EndOrphans, HandlerCancels, EndCount,
       EndComplete, Release, Boot, BootSweep, BootList, BootItem, Crash, ghostVars, vars
  <2>2. /\ i = cmd[c].item /\ i \in Items /\ cmd[c].op = "skip" /\ cmd[c].at = "mark"
        /\ i \in ahead \/ (pc = "off" /\ row[i] = "skipped")
        /\ UNCHANGED <<row, buf, cur, ahead, pc>>
        /\ reg /\ cmd[c].fresh => i \in skipSet'
    BY <1>0, <1>3, <2>1 DEF SkipMark, At, dbVars, execVars, passVars
  <2>3. row[i] = "skipped"
    BY <2>2 DEF SkipHeard
  <2>4. buf.last[i] = "none" /\ i # cur
    <3>1. CASE i \in ahead
      BY <3>1 DEF RowsKnown, Custody, ForwardHeld
    <3>2. CASE pc = "off"
      BY <1>0, <2>2, <3>2 DEF RowsKnown, Custody, BufferHeld, EmptyBuf, Loop, PlanKnown,
         RunKnown, RunShape
    <3> QED
      BY <2>2, <3>1, <3>2
  <2>5. pc \in Loop => reg /\ cmd[c].fresh
    BY <1>0, <2>2 DEF OneOwner, RowsKnown, PlanKnown, ReadsHold, Loop
  <2> QED
    BY <2>2, <2>3, <2>4, <2>5
<1>4. ASSUME NEW c \in Callers, cmd'[c].at = "mark", cmd'[c].item \in ahead'
      PROVE  row'[cmd'[c].item] = "skipped"
  <2>0. \A d \in Callers : d = c
    BY DEF OneUser
  <2>1. CASE SkipWrite(c)
    <3>1. ~ Return(c)
      BY <1>0, <1>4 DEF Return, NoCmd
    <3>2. cmd'[c].item = cmd[c].item /\ cmd[c].item \in Items
      BY <1>0, <2>1, <3>1 DEF SkipWrite, Goto, At, TypeOK, CmdTypeOK, ItemSteps, Commands
    <3> QED
      BY <1>0, <2>1, <3>1, <3>2 DEF SkipWrite
  <2>2. CASE UNCHANGED cmd
    <3> DEFINE i == cmd[c].item
    <3>1. i \in ahead /\ i \in Items
      BY <1>0, <1>1, <1>4, <2>2 DEF AheadMoves
    <3>2. row[i] = "skipped" /\ buf.last[i] = "none" /\ i # cur
      BY <1>4, <2>2, <3>1 DEF SkipHeard, RowsKnown, Custody, ForwardHeld
    <3> HIDE DEF i
    <3>3. row'[i] = "skipped"
      BY <1>1, <3>1, <3>2 DEF RowMoves
    <3> QED
      BY <2>2, <3>3 DEF i
  <2>3. ASSUME Issue(c)
        PROVE  cmd'[c].at # "mark"
    BY <1>0, <2>3 DEF Issue, ApplyRead, ResumeRead, Start, CancelRead, SkipCheck,
       RetryCheck, Begin, NoCmd
  <2>4. ASSUME Command(c), ~ SkipWrite(c)
        PROVE  cmd'[c].at # "mark"
    <3>1. CASE Return(c)
      BY <1>0, <3>1 DEF Return, NoCmd
    <3>2. CASE Load(c) \/ Register(c)
      BY <1>0, <3>1, <3>2 DEF Load, Register, Commands
    <3>3. CASE CancelPendings(c) \/ CancelOrphans(c)
      BY <1>0, <3>1, <3>3 DEF CancelPendings, CancelOrphans, CancelRowsOf, Commands
    <3>4. CASE Claim(c) \/ CancelSignal(c) \/ RetryFlip(c) \/ RetryPush(c)
      BY <1>0, <3>1, <3>4 DEF Claim, CancelSignal, RetryFlip, RetryPush, Goto, Commands
    <3> QED
      BY <2>4, <3>1, <3>2, <3>3, <3>4 DEF Command, Spawn, LaunchFails, CancelFinish,
         SkipMark, RetryUndo
  <2>5. CASE Crash
    BY <1>0, <1>4, <2>5 DEF Crash, NoCmd
  <2>6. CASE Executor \/ Boot \/ UNCHANGED vars
    BY <2>2, <2>6 DEF Executor, PassCancelled, PassSkip, PassStart, PassComplete,
       Drain, BatchCancelled, BatchStart, BatchUnknown, WorkPauses, WorkEnds, FinalFlush,
       Restore, Dispatch, PauseRun, EndPendings, EndOrphans, HandlerCancels, EndCount,
       EndComplete, Release, Boot, BootSweep, BootList, BootItem, vars
  <2> QED
    BY <1>4, <2>0, <2>1, <2>3, <2>4, <2>5, <2>6 DEF Next
<1> QED
  BY <1>2, <1>3, <1>4 DEF SkipHeard

\* An item whose skip was answered before the executor reached it is not
\* executed, in this run or a later one, through every crash and failed write.
THEOREM SkipsAreFinal ==
  ASSUME BootRace = FALSE, \A c, d \in Callers : c = d
  PROVE  Spec => []AckedSkipNeverRuns
<1>1. Init => SkipHeard
  BY DEF Init, SkipHeard, NoCmd
<1>2. OneUser
  BY DEF OneUser
<1>3. RowsKnown /\ SkipHeard /\ [Next]_vars => SkipHeard'
  BY <1>2, SkipHeardStep
<1>4. SkipHeard => AckedSkipNeverRuns
  BY DEF SkipHeard, AckedSkipNeverRuns
<1> QED
  BY <1>1, <1>2, <1>3, <1>4, RowsKnownInvariant, PTL DEF Spec

-----------------------------------------------------------------------------
(* A moved file is known.                                                  *)

\* An outcome leaves the buffer for its row, unless a write fails or the process
\* crashes.
LEMMA OutcomeStep ==
  ASSUME RowsKnown, [Next]_vars, NEW i \in Items, buf.last[i] # "none", ~ DbFails
  PROVE  buf'.last[i] = buf.last[i] \/ row'[i] = buf.last[i] \/ Crash
<1>0. TypeOK /\ Custody /\ buf \in Buffers /\ DbTypeOK
  BY DEF RowsKnown, PlanKnown, RunKnown, TypeOK, ExecTypeOK
<1>1. pc \in Loop \cup {"flush"}
  BY <1>0 DEF Custody, BufferHeld, EmptyBuf
<1>2. ASSUME NEW j \in Items \ {i}, NEW s \in {"succeeded", "failed", "skipped"},
             Report(j, s)
      PROVE  buf'.last[i] = buf.last[i] \/ row'[i] = buf.last[i]
  <2>1. buf.last[i] = IF i = j THEN s ELSE buf.last[i]
    BY <1>2
  <2> QED
    BY <1>0, <1>2, <2>1, ReportAt
<1>3. ASSUME NEW c \in Callers, Issue(c)
      PROVE  UNCHANGED buf
  BY <1>3 DEF Issue, ApplyRead, ResumeRead, Start, CancelRead, SkipCheck, RetryCheck,
     execVars
<1>4. ASSUME NEW c \in Callers, Command(c)
      PROVE  UNCHANGED buf
  <2>1. ~ Spawn(c)
    BY <1>1 DEF Spawn, RowsKnown, PlanKnown, RunKnown, OneOwner, Starting, Loop
  <2> QED
    BY <1>4, <2>1 DEF Command, Load, Register, Claim, LaunchFails, CancelSignal,
       CancelPendings, CancelOrphans, CancelRowsOf, CancelFinish, SkipWrite, SkipMark,
       RetryFlip, RetryPush, RetryUndo, execVars
<1>5. CASE Executor
  <2>1. CASE PassSkip
    <3>1. PICK j \in ahead : Report(j, "skipped")
      BY <2>1 DEF PassSkip, IsFirst
    <3>2. j \in Items \ {i}
      BY <1>0, <3>1 DEF Custody, ForwardHeld, TypeOK, ExecTypeOK
    <3> QED
      BY <1>2, <3>1, <3>2
  <2>2. CASE WorkPauses \/ WorkEnds
    <3>1. PICK s \in {"failed", "succeeded"} : Report(cur, s)
      BY <2>2 DEF WorkPauses, WorkEnds, Results
    <3>2. cur \in Items \ {i}
      BY <1>0, <2>2 DEF WorkPauses, WorkEnds, Custody, ForwardHeld, RetriesHeld, TypeOK,
         ExecTypeOK
    <3> QED
      BY <1>2, <3>1, <3>2
  <2>3. CASE FinalFlush
    BY <1>0, <2>3, FlushAt DEF FinalFlush
  <2> QED
    BY <1>5, <2>1, <2>2, <2>3 DEF Executor, PassCancelled, PassStart, PassComplete, Drain,
       BatchCancelled, BatchStart, BatchUnknown, Restore, Dispatch, PauseRun, EndPendings,
       EndOrphans, HandlerCancels, EndCount, EndComplete, Release
<1> QED
  BY <1>3, <1>4, <1>5 DEF Next, Boot, BootSweep, BootList, BootItem, vars, execVars

\* A file moves under the item in hand, and the outcome tells, unless the process
\* crashes first.
LEMMA DiskStep ==
  ASSUME TypeOK, RunShape, [Next]_vars, NEW i \in Items
  PROVE  \/ disk'[i] = disk[i]
         \/ /\ i = cur /\ disk[i] = "source"
            /\ \/ Crash
               \/ disk'[i] = "both"
               \/ disk'[i] = "done" /\ WorkEnds /\ Report(cur, "succeeded")
<1>0. disk \in [Items -> {"source", "both", "done"}]
  BY DEF TypeOK, DbTypeOK
<1>1. ASSUME NEW c \in Callers, Issue(c) \/ Command(c)
      PROVE  UNCHANGED disk
  BY <1>1 DEF Issue, ApplyRead, ResumeRead, Start, CancelRead, SkipCheck, RetryCheck,
     Command, Load, Register, Claim, Spawn, LaunchFails, CancelSignal, CancelPendings,
     CancelOrphans, CancelRowsOf, CancelFinish, SkipWrite, SkipMark, RetryFlip,
     RetryPush, RetryUndo
<1>2. CASE WorkEnds
  <2>1. PICK r \in Results(disk[cur]) : disk' = [disk EXCEPT ![cur] = r[1]] /\ Report(cur, r[2])
    BY <1>2 DEF WorkEnds
  <2>2. /\ r[1] = disk[cur] \/ disk[cur] = "source"
        /\ r[1] = "done" /\ disk[cur] = "source" => r[2] = "succeeded"
        /\ r[1] \in {disk[cur], "both", "done"}
    BY <2>1 DEF Results
  <2> QED
    BY <1>0, <1>2, <2>1, <2>2
<1>3. CASE Executor /\ ~ WorkEnds
  BY <1>3 DEF Executor, PassCancelled, PassSkip, PassStart, PassComplete, Drain,
     BatchCancelled, BatchStart, BatchUnknown, WorkPauses, FinalFlush, Restore, Dispatch,
     PauseRun, EndPendings, EndOrphans, HandlerCancels, EndCount, EndComplete, Release
<1>4. CASE Crash
  BY <1>0, <1>4 DEF Crash
<1> QED
  BY <1>1, <1>2, <1>3, <1>4 DEF Next, Boot, BootSweep, BootList, BootItem, vars

\* Only a crash is counted as one.
LEMMA CrashesOnly ==
  ASSUME [Next]_vars
  PROVE  crashes' = crashes \/ (Crash /\ crashes' = crashes + 1)
<1>1. ASSUME NEW c \in Callers, Issue(c) \/ Command(c)
      PROVE  UNCHANGED crashes
  BY <1>1 DEF Issue, ApplyRead, ResumeRead, Start, CancelRead, SkipCheck, RetryCheck,
     Begin, Command, Load, Register, Claim, Spawn, LaunchFails, CancelSignal,
     CancelPendings, CancelOrphans, CancelRowsOf, CancelFinish, SkipWrite, SkipMark,
     RetryFlip, RetryPush, RetryUndo, boundVars
<1>2. CASE Executor
  BY <1>2 DEF Executor, PassCancelled, PassSkip, PassStart, PassComplete, Drain,
     BatchCancelled, BatchStart, BatchUnknown, WorkPauses, WorkEnds, FinalFlush, Restore,
     Dispatch, PauseRun, EndPendings, EndOrphans, HandlerCancels, EndCount, EndComplete,
     Release, boundVars
<1>3. CASE Boot \/ UNCHANGED vars
  BY <1>3 DEF Boot, BootSweep, BootList, BootItem, boundVars, vars
<1>4. CASE Crash
  BY <1>4 DEF Crash
<1> QED
  BY <1>1, <1>2, <1>3, <1>4 DEF Next

\* The boot task has work after a crash only.
LEMMA BootAfterCrash ==
  ASSUME TypeOK, crashes = 0 => bootPc = "done", [Next]_vars
  PROVE  crashes' = 0 => bootPc' = "done"
<1>1. CASE UNCHANGED bootPc
  BY <1>1, CrashesOnly DEF TypeOK, BootTypeOK
<1>2. ASSUME NEW c \in Callers, Issue(c) \/ Command(c)
      PROVE  UNCHANGED bootPc
  BY <1>2 DEF Issue, ApplyRead, ResumeRead, Start, CancelRead, SkipCheck, RetryCheck,
     Command, Load, Register, Claim, Spawn, LaunchFails, CancelSignal,
     CancelPendings, CancelOrphans, CancelRowsOf, CancelFinish, SkipWrite, SkipMark,
     RetryFlip, RetryPush, RetryUndo, bootVars
<1>3. CASE Executor
  BY <1>3, <1>1 DEF Executor, PassCancelled, PassSkip, PassStart, PassComplete, Drain,
     BatchCancelled, BatchStart, BatchUnknown, WorkPauses, WorkEnds, FinalFlush, Restore,
     Dispatch, PauseRun, EndPendings, EndOrphans, HandlerCancels, EndCount, EndComplete,
     Release, bootVars
<1>4. CASE Boot
  BY <1>4 DEF Boot, BootSweep, BootList, BootItem
<1>5. CASE Crash
  BY <1>5 DEF Crash, TypeOK, BootTypeOK
<1>6. CASE UNCHANGED vars
  BY <1>1, <1>6 DEF vars, bootVars
<1> QED
  BY <1>1, <1>2, <1>3, <1>4, <1>5, <1>6 DEF Next

\* The row of a file that moved without being recorded, on its way to the boot
\* task.
Unreconciled(i) ==
  /\ row[i] \in {"pending", "applying"}
  /\ \/ bootPc = "sweep" /\ planState = "applying"
     \/ bootPc = "list"
     \/ bootPc = "items" /\ i \in bootTodo

\* A moved file whose item is recorded, skipped, buffered or to be reconciled.
Found(i) ==
  /\ i # cur
  /\ buf.last[i] \in {"none", "succeeded"}
  /\ \/ buf.last[i] = "succeeded"
     \/ row[i] \in {"succeeded", "skipped"}
     \/ Unreconciled(i)

\* One that a boot could not resolve.  Its row says `failed`, until a user retries
\* it.
Unresolved(i) ==
  /\ i \in Rootless /\ crashes > 0
  /\ buf.last[i] \in {"none", "failed"}
  /\ row[i] \in {"failed", "applying", "cancelled"}

\* A moved file's item is not ahead, and is one or the other; the boot task has
\* work after a crash only.
MovedKnown ==
  /\ crashes = 0 => bootPc = "done"
  /\ pc \in Loop => \A i \in ahead : disk[i] # "done"
  /\ \A i \in Items : disk[i] = "done" => Found(i) \/ Unresolved(i)

\* No crash between the sweep and the end of the reconciliation: the code has no
\* second chance there, because a plan that was swept is `paused`.
SteadyBoot == [][crashes' # crashes => bootPc \in {"sweep", "done"}]_vars

\* What is not reconciled waits for the boot task alone.
LEMMA UnreconciledStep ==
  ASSUME BootRace = FALSE, RowsKnown, [Next]_vars, ~ DbFails,
         crashes' # crashes => bootPc \in {"sweep", "done"},
         NEW i \in Items, disk[i] = "done", Unreconciled(i)
  PROVE  \/ row'[i] = "succeeded" \/ Unreconciled(i)'
         \/ i \in Rootless /\ row'[i] = "failed"
<1>0. /\ row \in [Items -> RowStates] /\ crashes \in Nat
      /\ bootPc # "done" /\ pc = "off" /\ ~ pausing
      /\ \A c \in Callers : cmd[c].at = "idle"
  BY DEF RowsKnown, PlanKnown, RunKnown, TypeOK, DbTypeOK, BootTypeOK, Unreconciled, UnderRun
<1>1. CASE UNCHANGED <<row, planState, bootPc, bootTodo>>
  BY <1>1 DEF Unreconciled
<1>2. CASE Crash
  <2>1. crashes' # crashes
    BY <1>0, <1>2 DEF Crash
  <2>2. bootPc = "sweep" /\ planState = "applying"
    BY <1>0, <2>1 DEF Unreconciled
  <2> QED
    BY <1>2, <2>2 DEF Crash, Unreconciled, dbVars
<1>3. CASE BootSweep
  BY <1>3 DEF BootSweep, Unreconciled
<1>4. CASE BootList
  BY <1>4 DEF BootList, Unreconciled, RowsIn, dbVars
<1>5. CASE BootItem
  <2>0. disk \in [Items -> {"source", "both", "done"}]
    BY DEF RowsKnown, PlanKnown, RunKnown, TypeOK, DbTypeOK
  <2>1. PICK j \in Items :
          /\ disk[j] = "done" =>
               row'[j] = "succeeded" \/ (j \in Rootless /\ row'[j] = "failed")
          /\ \A k \in Items \ {j} : row'[k] = row[k]
          /\ bootTodo' = bootTodo \ {j}
          /\ bootPc' = IF bootTodo = {j} THEN "done" ELSE "items"
    BY <1>0, <1>5, <2>0 DEF BootItem
  <2>2. bootPc = "items" /\ i \in bootTodo /\ row[i] \in {"pending", "applying"}
    BY <1>5 DEF BootItem, Unreconciled
  <2>4. CASE i = j
    BY <2>1, <2>4
  <2>5. CASE i # j
    <3>1. row'[i] = row[i] /\ i \in bootTodo' /\ bootPc' = "items"
      BY <2>1, <2>2, <2>5
    <3> QED
      BY <2>2, <3>1 DEF Unreconciled
  <2> QED
    BY <2>4, <2>5
<1>6. ASSUME NEW c \in Callers
      PROVE  ~ Issue(c) /\ ~ Command(c)
  <2>1. ~ Issue(c)
    BY <1>0 DEF Issue, ApplyRead, ResumeRead, Start, CancelRead, SkipCheck, RetryCheck, Begin
  <2>2. ~ Command(c)
    BY <1>0 DEF Command, Load, Register, Claim, Spawn, LaunchFails, CancelSignal,
       CancelPendings, CancelOrphans, CancelRowsOf, CancelFinish, SkipWrite, SkipMark,
       RetryFlip, RetryPush, RetryUndo, At
  <2> QED
    BY <2>1, <2>2
<1>7. ~ Executor
  BY <1>0 DEF Executor, PassCancelled, PassSkip, PassStart, PassComplete, Drain,
     BatchCancelled, BatchStart, BatchUnknown, WorkPauses, WorkEnds, FinalFlush, Restore,
     Dispatch, PauseRun, EndPendings, EndOrphans, HandlerCancels, EndCount, EndComplete,
     Release
<1> QED
  BY <1>1, <1>2, <1>3, <1>4, <1>5, <1>6, <1>7 DEF Next, Boot, vars, dbVars, bootVars

\* A moved file that was found stays so, unless the boot task cannot resolve it.
LEMMA FoundStep ==
  ASSUME OneUser, RowsKnown, MovedKnown, [Next]_vars, ~ DbFails,
         crashes' # crashes => bootPc \in {"sweep", "done"},
         NEW i \in Items, disk[i] = "done", Found(i)
  PROVE  Found(i)' \/ Unresolved(i)'
<1>0. /\ TypeOK /\ Custody /\ RunShape /\ i # 0 /\ crashes \in Nat
      /\ EmptyBuf.last[i] = "none" /\ (pc \in Loop => i \notin ahead)
  BY PlanApplyAssumption DEF RowsKnown, PlanKnown, RunKnown, TypeOK, BootTypeOK, Items,
     EmptyBuf, MovedKnown
<1>1. HandMoves /\ BufferMoves(i) /\ RowMoves(i)
  BY TaskStep, RowStep
<1>2. bootPc # "done" => pc = "off" /\ crashes > 0
  BY <1>0 DEF RowsKnown, PlanKnown, UnderRun, MovedKnown
<1>3. buf'.last[i] \in {"none", "succeeded"}
  BY <1>0, <1>1 DEF BufferMoves, Found, Loop
<1>4. i # cur'
  <2>1. ASSUME pc = "batch", i \in batch
        PROVE  FALSE
    <3>1. row[i] = "applying" /\ buf.last[i] = "none"
      BY <1>0, <2>1 DEF Custody, RetriesHeld, RetryIds, Loop
    <3>2. bootPc = "done"
      BY <1>2, <2>1
    <3> QED
      BY <3>1, <3>2 DEF Unreconciled, Found
  <2> QED
    BY <1>0, <1>1, <2>1 DEF HandMoves, Loop, Found
<1>5. CASE buf.last[i] = "succeeded" /\ Crash
  <2>1. /\ row'[i] = row[i] /\ row[i] \in {"pending", "applying", "skipped"}
        /\ planState' = planState /\ bootPc' = "sweep"
    BY <1>0, <1>5 DEF Crash, Custody, BufferHeld, dbVars
  <2>2. planState = "applying"
    <3>1. pc \in Loop \cup {"flush"}
      BY <1>0, <1>5 DEF Custody, BufferHeld
    <3> QED
      BY <3>1 DEF RowsKnown, PlanKnown, UnderRun, Underway, Loop
  <2> QED
    BY <1>3, <1>4, <2>1, <2>2 DEF Found, Unreconciled
<1>6. CASE buf.last[i] = "succeeded" /\ ~ Crash
  BY <1>3, <1>4, <1>6, OutcomeStep DEF Found
<1>7. CASE buf.last[i] = "none" /\ row[i] \in {"succeeded", "skipped"}
  <2>1. row'[i] \in {"succeeded", "skipped"}
    BY <1>1, <1>7 DEF RowMoves, Found
  <2> QED
    BY <1>3, <1>4, <2>1 DEF Found
<1>8. CASE buf.last[i] = "none" /\ Unreconciled(i)
  <2>1. pc = "off" /\ crashes > 0 /\ cur = 0
    BY <1>0, <1>2, <1>8 DEF Unreconciled, RunShape
  <2>2. crashes' > 0
    <3>1. crashes' \in {crashes, crashes + 1}
      BY CrashesOnly
    <3> QED
      BY <1>0, <2>1, <3>1
  <2>3. buf'.last[i] = "none"
    BY <1>0, <1>1, <1>8, <2>1 DEF BufferMoves
  <2>4. \/ row'[i] = "succeeded" \/ Unreconciled(i)'
        \/ i \in Rootless /\ row'[i] = "failed"
    BY <1>8, UnreconciledStep DEF OneUser
  <2> QED
    BY <1>4, <2>2, <2>3, <2>4 DEF Found, Unresolved
<1> QED
  BY <1>5, <1>6, <1>7, <1>8 DEF Found

\* One that was not resolved is not run but by a retry, which fails.
LEMMA UnresolvedStep ==
  ASSUME OneUser, RowsKnown, [Next]_vars, ~ DbFails,
         NEW i \in Items, disk[i] = "done", Unresolved(i)
  PROVE  Unresolved(i)'
<1>0. Custody /\ crashes \in Nat
  BY DEF RowsKnown, PlanKnown, RunKnown, TypeOK, BootTypeOK
<1>1. BufferMoves(i) /\ RowMoves(i)
  BY TaskStep, RowStep
<1>2. pc = "pass" => i \notin ahead
  BY <1>0 DEF Custody, ForwardHeld, Unresolved, Loop
<1>3. buf'.last[i] \in {"none", "failed"}
  BY <1>1, <1>2 DEF BufferMoves, Unresolved
<1>4. row'[i] \in {"failed", "applying", "cancelled"}
  BY <1>1, <1>2 DEF RowMoves, Unresolved
<1>5. crashes' > 0
  <2>1. crashes' \in {crashes, crashes + 1}
    BY CrashesOnly
  <2> QED
    BY <1>0, <2>1 DEF Unresolved
<1> QED
  BY <1>3, <1>4, <1>5 DEF Unresolved

\* What is known of moved files survives every step.
LEMMA MovedKnownStep ==
  ASSUME OneUser, RowsKnown, RowsKnown', MovedKnown, [Next]_vars, ~ DbFails,
         crashes' # crashes => bootPc \in {"sweep", "done"}
  PROVE  MovedKnown'
<1>0. /\ TypeOK /\ Custody /\ RunShape /\ ahead \subseteq Items /\ ahead' \subseteq Items
      /\ batch \subseteq Items /\ \A i \in Items : i # 0
  BY PlanApplyAssumption DEF RowsKnown, PlanKnown, RunKnown, TypeOK, ExecTypeOK, Items
<1>1. AheadMoves
  BY TaskStep
<1>2. crashes' = 0 => bootPc' = "done"
  BY <1>0, BootAfterCrash DEF MovedKnown
\* A file that had moved before this step.
<1>3. ASSUME NEW i \in Items, disk[i] = "done"
      PROVE  Found(i)' \/ Unresolved(i)'
  BY <1>3, FoundStep, UnresolvedStep DEF MovedKnown
\* A file that moves in this step.
<1>4. ASSUME NEW i \in Items, disk[i] # "done", disk'[i] = "done"
      PROVE  Found(i)' /\ i \notin ahead
  <2>1. /\ i = cur
        /\ Crash \/ (WorkEnds /\ Report(cur, "succeeded"))
    BY <1>0, <1>4, DiskStep
  <2>2. pc \in {"work", "rework"} /\ planState = "applying" /\ i \notin ahead
    BY <1>0, <2>1 DEF RunShape, Custody, ForwardHeld, RowsKnown, PlanKnown, UnderRun, Underway
  <2>3. row[i] \in {"pending", "applying", "skipped"}
    BY <1>0, <2>1, <2>2 DEF Custody, ForwardHeld, RetriesHeld
  <2>4. CASE Crash
    <3>1. /\ buf' = EmptyBuf /\ cur' = 0 /\ row' = row /\ planState' = planState
          /\ bootPc' = "sweep"
      BY <2>4 DEF Crash, dbVars
    <3> QED
      BY <1>0, <2>2, <2>3, <3>1 DEF EmptyBuf, Unreconciled, Found
  <2>5. CASE WorkEnds /\ Report(cur, "succeeded")
    <3>1. "succeeded" = IF i = cur THEN "succeeded" ELSE buf.last[i]
      BY <2>1
    <3>2. \/ buf'.last[i] = "succeeded"
          \/ buf'.last[i] = "none" /\ row'[i] = "succeeded"
      BY <1>0, <2>1, <2>5, <3>1, ReportAt DEF TypeOK, ExecTypeOK
    <3>3. cur' = 0
      BY <2>5 DEF WorkEnds
    <3> QED
      BY <1>0, <2>2, <3>2, <3>3 DEF Found
  <2> QED
    BY <2>1, <2>4, <2>5
<1>5. ASSUME pc' \in Loop, NEW i \in ahead'
      PROVE  disk'[i] # "done"
  <2>1. /\ buf'.last[i] = "none" /\ bootPc' = "done" /\ i \in Items
        /\ row'[i] \in {"pending", "skipped"}
    BY <1>0, <1>5 DEF RowsKnown, Custody, ForwardHeld, PlanKnown, UnderRun, Loop
  <2>2. ~ Unresolved(i)'
    BY <2>1 DEF Unresolved
  <2>3. CASE i \in ahead /\ pc \in Loop
    <3>1. disk[i] # "done"
      BY <2>3 DEF MovedKnown
    <3> QED
      BY <1>4, <2>1, <2>3, <3>1
  <2>4. CASE row[i] = "pending" /\ UNCHANGED row
    BY <1>3, <1>4, <2>1, <2>2, <2>4 DEF Unreconciled, Found
  <2> QED
    BY <1>1, <1>5, <2>3, <2>4 DEF AheadMoves, RowsIn
<1>6. \A i \in Items : disk'[i] = "done" => Found(i)' \/ Unresolved(i)'
  BY <1>3, <1>4
<1> QED
  BY <1>2, <1>5, <1>6 DEF MovedKnown

\* A bound of zero lets no write succeed in failing.
LEMMA NoDbFails ==
  ASSUME MaxDbFails = 0, TypeOK
  PROVE  ~ DbFails
  BY DEF DbFails, TypeOK, BootTypeOK

\* What is known of moved files is an invariant.
LEMMA MovedKnownInvariant ==
  ASSUME OneUser, MaxDbFails = 0
  PROVE  Spec /\ SteadyBoot => []MovedKnown
<1>1. Init => MovedKnown
  BY DEF Init, MovedKnown
<1>2. /\ RowsKnown /\ RowsKnown' /\ MovedKnown /\ [Next]_vars
      /\ [crashes' # crashes => bootPc \in {"sweep", "done"}]_vars
      => MovedKnown'
  <2> SUFFICES ASSUME RowsKnown, RowsKnown', MovedKnown, [Next]_vars,
                      [crashes' # crashes => bootPc \in {"sweep", "done"}]_vars
               PROVE  MovedKnown'
    OBVIOUS
  <2>1. ~ DbFails
    BY NoDbFails DEF RowsKnown, PlanKnown, RunKnown
  <2>2. crashes' # crashes => bootPc \in {"sweep", "done"}
    BY DEF vars, boundVars
  <2> QED
    BY <2>1, <2>2, MovedKnownStep
<1> QED
  BY <1>1, <1>2, RowsKnownInvariant, PTL DEF Spec, SteadyBoot

\* With one crash at most the boot task is never interrupted: it runs only after
\* a crash.
LEMMA OneCrashIsSteady ==
  ASSUME MaxCrashes <= 1
  PROVE  Spec => SteadyBoot
<1> DEFINE Fresh == crashes = 0 => bootPc = "done"
<1>1. Init => Fresh
  BY DEF Init
<1>2. TypeOK /\ Fresh /\ [Next]_vars => Fresh'
  BY BootAfterCrash
<1>3. TypeOK /\ Fresh /\ [Next]_vars
        => [crashes' # crashes => bootPc \in {"sweep", "done"}]_vars
  <2> SUFFICES ASSUME TypeOK, Fresh, Next, crashes' # crashes
               PROVE  bootPc \in {"sweep", "done"}
    OBVIOUS
  <2>1. Crash
    BY CrashesOnly
  <2>2. crashes = 0
    BY <2>1, PlanApplyAssumption DEF Crash, TypeOK, BootTypeOK
  <2> QED
    BY <2>2
<1> QED
  BY <1>1, <1>2, <1>3, TypeCorrect, PTL DEF Spec, SteadyBoot

\* FR-010: an item whose file has reached its destination is executed again only
\* if a boot could not resolve it and a user retries it, across retries, pauses,
\* resumes and crashes, whatever items have no root, when one user issues the
\* commands, no database access fails and no crash interrupts the reconciliation.
THEOREM MovedItemsStay ==
  ASSUME BootRace = FALSE, \A c, d \in Callers : c = d, MaxDbFails = 0
  PROVE  Spec /\ SteadyBoot => []MovedNeverReRun
<1>1. OneUser
  BY DEF OneUser
<1>2. RowsKnown /\ MovedKnown => MovedNeverReRun
  <2> SUFFICES ASSUME RowsKnown, MovedKnown, cur # 0, disk[cur] = "done"
               PROVE  pc = "rework" /\ cur \in Rootless /\ crashes > 0
    BY DEF MovedNeverReRun
  <2>1. pc \in {"work", "rework"} /\ cur \in Items
    BY DEF RowsKnown, PlanKnown, RunKnown, RunShape, TypeOK, ExecTypeOK
  <2>2. Unresolved(cur)
    BY <2>1 DEF MovedKnown, Found
  <2>3. pc # "work"
    BY <2>2 DEF Unresolved, RowsKnown, Custody, ForwardHeld
  <2> QED
    BY <2>1, <2>2, <2>3 DEF Unresolved
<1> QED
  BY <1>1, <1>2, RowsKnownInvariant, MovedKnownInvariant, PTL

\* ... in particular when the process crashes once.
THEOREM MovedItemsStayAfterACrash ==
  ASSUME BootRace = FALSE, \A c, d \in Callers : c = d, MaxDbFails = 0, MaxCrashes <= 1
  PROVE  Spec => []MovedNeverReRun
  BY OneCrashIsSteady, MovedItemsStay, PTL

-----------------------------------------------------------------------------
(* A recorded file is moved.                                               *)

\* Nothing shows `succeeded`, in its row or in the buffer, whose file has not
\* reached its destination.
RecordedIsMoved ==
  \A i \in Items : row[i] = "succeeded" \/ buf.last[i] = "succeeded" => disk[i] = "done"

\* Only the end of an item and the reconciliation say `succeeded`, and both have
\* seen the file.
LEMMA RecordedStep ==
  ASSUME TypeOK, RunShape, RecordedIsMoved, [Next]_vars
  PROVE  RecordedIsMoved'
<1>0. /\ DbTypeOK /\ buf \in Buffers /\ row \in [Items -> RowStates]
      /\ disk \in [Items -> {"source", "both", "done"}]
      /\ \A i \in Items : EmptyBuf.last[i] = "none"
  BY DEF TypeOK, ExecTypeOK, DbTypeOK, EmptyBuf
<1>1. ASSUME NEW i \in Items, disk[i] = "done"
      PROVE  disk'[i] = "done"
  BY <1>1, DiskStep
<1>2. ASSUME \A i \in Items : /\ row'[i] = "succeeded" =>
                                   row[i] = "succeeded" \/ buf.last[i] = "succeeded"
                              /\ buf'.last[i] = "succeeded" => buf.last[i] = "succeeded"
      PROVE  RecordedIsMoved'
  BY <1>1, <1>2 DEF RecordedIsMoved
<1>3. ASSUME NEW j \in Items, NEW s \in {"succeeded", "failed", "skipped"}, Report(j, s),
             s = "succeeded" => disk'[j] = "done"
      PROVE  RecordedIsMoved'
  <2> SUFFICES ASSUME NEW i \in Items, row'[i] = "succeeded" \/ buf'.last[i] = "succeeded"
               PROVE  disk'[i] = "done"
    BY DEF RecordedIsMoved
  <2> DEFINE l == IF i = j THEN s ELSE buf.last[i]
  <2>1. l = IF i = j THEN s ELSE buf.last[i]
    OBVIOUS
  <2> HIDE DEF l
  <2>2. row[i] = "succeeded" \/ l = "succeeded"
    BY <1>0, <1>3, <2>1, ReportAt
  <2> QED
    BY <1>1, <1>3, <2>1, <2>2 DEF RecordedIsMoved
<1>4. ASSUME NEW c \in Callers, Issue(c)
      PROVE  UNCHANGED <<row, buf>>
  BY <1>4 DEF Issue, ApplyRead, ResumeRead, Start, CancelRead, SkipCheck, RetryCheck,
     dbVars, execVars
<1>5. ASSUME NEW c \in Callers, Command(c)
      PROVE  RecordedIsMoved'
  <2>1. CASE UNCHANGED row /\ buf' \in {buf, EmptyBuf}
    BY <1>0, <1>2, <2>1
  <2>2. CASE CancelPendings(c) \/ CancelOrphans(c)
    BY <1>0, <1>2, <2>2 DEF CancelPendings, CancelOrphans, CancelRowsOf, CancelRows, execVars
  <2>3. CASE SkipWrite(c) \/ RetryFlip(c) \/ RetryUndo(c)
    BY <1>0, <1>2, <2>3 DEF SkipWrite, RetryFlip, RetryUndo, RetryApplying,
       RollbackToFailed, execVars
  <2> QED
    BY <1>5, <2>1, <2>2, <2>3 DEF Command, Load, Register, Claim, Spawn, LaunchFails,
       CancelSignal, CancelFinish, SkipMark, RetryPush, execVars, dbVars
<1>6. CASE Executor
  <2>1. CASE PassSkip
    BY <1>3, <2>1 DEF PassSkip
  <2>2. CASE WorkPauses
    BY <1>3, <2>2 DEF WorkPauses, TypeOK, ExecTypeOK
  <2>3. CASE WorkEnds
    <3>1. cur \in Items
      BY <2>3 DEF WorkEnds, TypeOK, ExecTypeOK
    <3>2. PICK r \in Results(disk[cur]) : disk' = [disk EXCEPT ![cur] = r[1]] /\ Report(cur, r[2])
      BY <2>3 DEF WorkEnds
    <3>3. r[2] \in {"failed", "succeeded"} /\ (r[2] = "succeeded" => r[1] = "done")
      BY <3>2 DEF Results
    <3> QED
      BY <1>0, <1>3, <3>1, <3>2, <3>3
  <2>4. CASE FinalFlush
    BY <1>0, <1>2, <2>4, FlushAt DEF FinalFlush
  <2>5. CASE Restore
    BY <1>0, <1>2, <2>5 DEF Restore, RollbackToFailed
  <2>6. CASE EndPendings \/ EndOrphans
    BY <1>0, <1>2, <2>6 DEF EndPendings, EndOrphans, HandlerCancels, CancelRows
  <2>7. CASE UNCHANGED <<row, buf>>
    BY <1>2, <2>7
  <2> QED
    BY <1>6, <2>1, <2>2, <2>3, <2>4, <2>5, <2>6, <2>7 DEF Executor, PassCancelled,
       PassStart, PassComplete, Drain, BatchCancelled, BatchStart, BatchUnknown, Dispatch,
       PauseRun, EndCount, EndComplete, Release, dbVars
<1>7. CASE BootItem
  <2>1. PICK j \in Items : \/ UNCHANGED row
                           \/ disk[j] = "done" /\ row' = [row EXCEPT ![j] = "succeeded"]
                           \/ row' = [row EXCEPT ![j] = "failed"]
    BY <1>0, <1>7 DEF BootItem
  <2>2. UNCHANGED <<buf, disk>>
    BY <1>7 DEF BootItem, execVars
  <2> QED
    BY <1>0, <2>1, <2>2 DEF RecordedIsMoved
<1>8. CASE Crash
  BY <1>0, <1>2, <1>8 DEF Crash, dbVars
<1>9. CASE BootSweep \/ BootList \/ UNCHANGED vars
  BY <1>2, <1>9 DEF BootSweep, BootList, vars, dbVars, execVars
<1> QED
  BY <1>2, <1>4, <1>5, <1>6, <1>7, <1>8, <1>9 DEF Next, Boot

\* What is recorded as moved has moved: for any number of users, commands that
\* race with the boot task, crashes and failed writes.
THEOREM RecordedMovesHappened == Spec => []RecordedIsMoved
<1>1. Init => RecordedIsMoved
  BY DEF Init, RecordedIsMoved, AllPending, EmptyBuf
<1>2. TypeOK /\ Kept /\ RecordedIsMoved /\ [Next]_vars => RecordedIsMoved'
  BY RecordedStep DEF Kept
<1> QED
  BY <1>1, <1>2, TypeCorrect, KeptInvariant, PTL DEF Spec

\* Nobody has skipped anything.
NoSkips ==
  /\ \A i \in Items : row[i] # "skipped" /\ buf.last[i] # "skipped"
  /\ skipSet = {}
  /\ \A c \in Callers : cmd[c].op # "skip"

\* It stays so while users do not.
LEMMA NoSkipsStep ==
  ASSUME OneUser, RowsKnown, NoSkips, [Next]_vars, "skip" \notin Ops
  PROVE  NoSkips'
<1>0. cmd \in [Callers -> Commands]
  BY DEF RowsKnown, PlanKnown, RunKnown, TypeOK, CmdTypeOK
<1>1. /\ \A i \in Items : row'[i] # "skipped" /\ buf'.last[i] # "skipped"
  BY TaskStep, RowStep DEF NoSkips, RowMoves, BufferMoves
<1>2. ASSUME NEW c \in Callers, Issue(c)
      PROVE  skipSet' = {} /\ cmd'[c].op # "skip"
  BY <1>0, <1>2 DEF Issue, ApplyRead, ResumeRead, Start, CancelRead, SkipCheck, RetryCheck,
     Begin, NoCmd, entryVars, NoSkips
<1>3. ASSUME NEW c \in Callers, Command(c)
      PROVE  skipSet' = {} /\ cmd'[c].op # "skip"
  <2>1. ~ SkipMark(c) /\ ~ SkipWrite(c)
    BY DEF SkipMark, SkipWrite, At, NoSkips
  <2>2. skipSet' = {}
    BY <1>3, <2>1 DEF Command, Load, Register, Claim, Spawn, LaunchFails, CancelSignal,
       CancelPendings, CancelOrphans, CancelRowsOf, CancelFinish, RetryFlip, RetryPush,
       RetryUndo, DropGuard, entryVars, NoSkips
  <2>3. CASE Return(c)
    BY <1>0, <2>2, <2>3 DEF Return, NoCmd
  <2>4. CASE Load(c) \/ Register(c) \/ Claim(c)
    BY <1>0, <2>2, <2>3, <2>4 DEF Load, Register, Claim, Goto, Commands, NoSkips
  <2>5. CASE CancelPendings(c) \/ CancelOrphans(c)
    BY <1>0, <2>2, <2>3, <2>5 DEF CancelPendings, CancelOrphans, CancelRowsOf, Commands, NoSkips
  <2>6. CASE CancelSignal(c) \/ RetryFlip(c) \/ RetryPush(c)
    BY <1>0, <2>2, <2>3, <2>6 DEF CancelSignal, RetryFlip, RetryPush, Goto, Commands, NoSkips
  <2> QED
    BY <1>3, <2>1, <2>3, <2>4, <2>5, <2>6 DEF Command, Spawn, LaunchFails, CancelFinish,
       RetryUndo
<1>4. CASE \E c \in Callers : Issue(c) \/ Command(c)
  BY <1>1, <1>2, <1>3, <1>4 DEF NoSkips, OneUser
<1>5. CASE Executor
  <2>1. ~ PassSkip
    BY DEF PassSkip, NoSkips
  <2> QED
    BY <1>1, <1>5, <2>1 DEF NoSkips, Executor, PassCancelled, PassStart, PassComplete, Drain,
       BatchCancelled, BatchStart, BatchUnknown, WorkPauses, WorkEnds, FinalFlush, Restore,
       Dispatch, PauseRun, EndPendings, EndOrphans, HandlerCancels, EndCount, EndComplete,
       Release, DropGuard, entryVars
<1>6. CASE Boot \/ UNCHANGED vars
  BY <1>1, <1>6 DEF NoSkips, Boot, BootSweep, BootList, BootItem, vars, entryVars
<1>7. CASE Crash
  BY <1>1, <1>7 DEF NoSkips, Crash, DropGuard, NoCmd
<1> QED
  BY <1>4, <1>5, <1>6, <1>7 DEF Next

\* Constitution II: when nothing is under way, `succeeded` is recorded only for
\* items whose file was moved, and for all of them but those a boot could not
\* resolve, whatever items have no root, when one user issues the commands but
\* skips nothing, no database access fails and no crash interrupts the
\* reconciliation.  (An item skipped while it is being moved shows `skipped` if a
\* crash precedes the flush.)
THEOREM MovesAreRecorded ==
  ASSUME BootRace = FALSE, \A c, d \in Callers : c = d, MaxDbFails = 0,
         "skip" \notin Ops
  PROVE  Spec /\ SteadyBoot => []MovedIsRecorded
<1>1. OneUser
  BY DEF OneUser
<1>2. Init => NoSkips
  BY DEF Init, NoSkips, AllPending, EmptyBuf, NoCmd
<1>3. RowsKnown /\ NoSkips /\ [Next]_vars => NoSkips'
  BY <1>1, NoSkipsStep
<1>4. RowsKnown /\ NoSkips /\ MovedKnown /\ RecordedIsMoved => MovedIsRecorded
  <2> SUFFICES ASSUME RowsKnown, NoSkips, MovedKnown, RecordedIsMoved, AtRest,
                      NEW i \in Items
               PROVE  /\ row[i] = "succeeded" => disk[i] = "done"
                      /\ disk[i] = "done" =>
                           \/ row[i] = "succeeded"
                           \/ /\ row[i] \in {"failed", "applying", "cancelled"}
                              /\ i \in Rootless /\ crashes > 0
    BY DEF MovedIsRecorded
  <2>1. buf.last[i] = "none"
    BY DEF AtRest, RowsKnown, Custody, BufferHeld, EmptyBuf, Loop
  <2>2. Found(i) => row[i] \in {"succeeded", "skipped"}
    BY <2>1 DEF Found, Unreconciled, AtRest
  <2>3. disk[i] = "done" => Found(i) \/ Unresolved(i)
    BY DEF MovedKnown
  <2> QED
    BY <2>2, <2>3 DEF NoSkips, RecordedIsMoved, Unresolved
<1> QED
  BY <1>1, <1>2, <1>3, <1>4, RowsKnownInvariant, MovedKnownInvariant,
     RecordedMovesHappened, PTL DEF Spec

\* ... in particular when the process crashes once.
THEOREM MovesAreRecordedAfterACrash ==
  ASSUME BootRace = FALSE, \A c, d \in Callers : c = d, MaxDbFails = 0, MaxCrashes <= 1,
         "skip" \notin Ops
  PROVE  Spec => []MovedIsRecorded
  BY OneCrashIsSteady, MovesAreRecorded, PTL

-----------------------------------------------------------------------------
(* The counters count.                                                     *)

\* The items the buffer has as moved.
BufferedMoves(b) == {i \in Items : b.last[i] = "succeeded"}

\* The counters of moved and cancelled items, and the buffer's of moved ones.
RowsCount ==
  /\ cnt.applied = Cardinality(RowsIn({"succeeded"}))
  /\ cnt.cancelled = Cardinality(RowsIn({"cancelled"}))

BufferCounts(b) == b.applied = Cardinality(BufferedMoves(b))

\* ... also those that a task or a cancel has read and will write back.
CountsMatch ==
  /\ RowsCount
  /\ BufferCounts(buf)
  /\ pc = "complete" => seen.applied = cnt.applied /\ seen.cancelled = cnt.cancelled
  /\ \A c \in Callers : cmd[c].op = "cancel" /\ cmd[c].at # "applying" =>
       cmd[c].base.applied = cnt.applied /\ cmd[c].base.cancelled = cnt.cancelled

\* The items are finitely many, and so are any of them.
LEMMA ItemsFinite ==
  ASSUME NEW S, S \subseteq Items
  PROVE  IsFiniteSet(S) /\ Cardinality(S) \in Nat
<1>1. IsFiniteSet(Items)
  BY PlanApplyAssumption, FS_Interval DEF Items
<1> QED
  BY <1>1, FS_Subset, FS_CardinalityType

\* Two sets of items with nothing in common count together.
LEMMA DisjointCount ==
  ASSUME NEW S, NEW T, S \subseteq Items, T \subseteq Items, S \cap T = {}
  PROVE  Cardinality(S \cup T) = Cardinality(S) + Cardinality(T)
<1>1. IsFiniteSet(S) /\ IsFiniteSet(T) /\ Cardinality(S) \in Nat /\ Cardinality(T) \in Nat
  BY ItemsFinite
<1>2. Cardinality(S \cup T)
        = Cardinality(S) + Cardinality(T) - Cardinality(S \cap T)
  BY <1>1, FS_Union
<1>3. Cardinality(S \cap T) = 0
  BY FS_EmptySet
<1> QED
  BY <1>1, <1>2, <1>3

\* One item more counts one more.
LEMMA OneMore ==
  ASSUME NEW S, S \subseteq Items, NEW i \in Items, i \notin S
  PROVE  Cardinality(S \cup {i}) = Cardinality(S) + 1
<1>1. IsFiniteSet(S) /\ Cardinality(S) \in Nat
  BY ItemsFinite
<1> QED
  BY <1>1, FS_AddElement

\* A step that leaves the moved and the cancelled rows, and their counters.
LEMMA SameRowsCount ==
  ASSUME RowsCount,
         cnt'.applied = cnt.applied, cnt'.cancelled = cnt.cancelled,
         \A i \in Items : /\ row'[i] = "succeeded" <=> row[i] = "succeeded"
                          /\ row'[i] = "cancelled" <=> row[i] = "cancelled"
  PROVE  RowsCount'
<1>1. RowsIn({"succeeded"})' = RowsIn({"succeeded"}) /\ RowsIn({"cancelled"})' = RowsIn({"cancelled"})
  BY DEF RowsIn
<1> QED
  BY <1>1 DEF RowsCount

\* The bulk cancellations count what they cancel.
LEMMA CancelCounts ==
  ASSUME TypeOK, RowsCount, NEW state \in {"pending", "applying"}, CancelRows(state)
  PROVE  /\ RowsCount'
         /\ cnt'.applied = cnt.applied
         /\ cnt'.cancelled = cnt.cancelled + Cardinality(RowsIn({state}))
<1>0. row \in [Items -> RowStates] /\ cnt \in Counts
  BY DEF TypeOK, DbTypeOK
<1>1. /\ cnt'.applied = cnt.applied
      /\ cnt'.cancelled = cnt.cancelled + Cardinality(RowsIn({state}))
  BY <1>0 DEF CancelRows, Counts
<1>2. \A i \in Items : row'[i] = IF row[i] = state THEN "cancelled" ELSE row[i]
  BY <1>0 DEF CancelRows
<1>3. RowsIn({"succeeded"})' = RowsIn({"succeeded"})
  BY <1>2 DEF RowsIn
<1>4. RowsIn({"cancelled"})' = RowsIn({"cancelled"}) \cup RowsIn({state})
  BY <1>2 DEF RowsIn
<1>5. Cardinality(RowsIn({"cancelled"}) \cup RowsIn({state}))
        = Cardinality(RowsIn({"cancelled"})) + Cardinality(RowsIn({state}))
  BY DisjointCount DEF RowsIn
<1> QED
  BY <1>1, <1>3, <1>4, <1>5 DEF RowsCount

\* A flush counts the rows it writes, which show no end yet.
LEMMA FlushCounts ==
  ASSUME TypeOK, RowsCount, NEW b \in Buffers, BufferCounts(b), Flush(b),
         \A i \in Items : b.last[i] # "none" => row[i] \in {"pending", "applying", "skipped"}
  PROVE  RowsCount' /\ BufferCounts(buf')
<1>0. row \in [Items -> RowStates] /\ cnt \in Counts /\ b.applied \in Nat
  BY DEF TypeOK, DbTypeOK, Buffers
<1>1. BufferCounts(buf')
  <2>1. buf' = EmptyBuf /\ BufferedMoves(EmptyBuf) = {} /\ EmptyBuf.applied = 0
    BY DEF Flush, EmptyBuf, BufferedMoves
  <2> QED
    BY <2>1, FS_EmptySet DEF BufferCounts
<1>2. CASE UNCHANGED <<row, cnt>>
  BY <1>1, <1>2, SameRowsCount
<1>3. CASE /\ row' = [i \in Items |-> IF b.last[i] = "none" THEN row[i]
                                                            ELSE b.last[i]]
           /\ cnt' = [cnt EXCEPT !.applied = @ + b.applied,
                                 !.failed  = @ + b.failed,
                                 !.skipped = @ + b.skipped]
  <2>1. cnt'.applied = cnt.applied + b.applied /\ cnt'.cancelled = cnt.cancelled
    BY <1>0, <1>3 DEF Counts
  <2>2. \A i \in Items : b.last[i] \in {"none", "succeeded", "failed", "skipped"}
    BY DEF Buffers
  <2>3. RowsIn({"succeeded"})' = RowsIn({"succeeded"}) \cup BufferedMoves(b)
    BY <1>3, <2>2 DEF RowsIn, BufferedMoves
  <2>4. RowsIn({"cancelled"})' = RowsIn({"cancelled"})
    BY <1>3, <2>2 DEF RowsIn
  <2>5. Cardinality(RowsIn({"succeeded"}) \cup BufferedMoves(b))
          = Cardinality(RowsIn({"succeeded"})) + Cardinality(BufferedMoves(b))
    BY DisjointCount DEF RowsIn, BufferedMoves
  <2> QED
    BY <1>1, <2>1, <2>3, <2>4, <2>5 DEF RowsCount, BufferCounts
<1> QED
  BY <1>2, <1>3 DEF Flush

\* An outcome that is reported is counted once, in the buffer or with its flush.
LEMMA ReportCounts ==
  ASSUME TypeOK, BufferHeld, RowsCount, BufferCounts(buf),
         NEW i \in Items, NEW s \in {"succeeded", "failed", "skipped"}, Report(i, s),
         row[i] \in {"pending", "applying", "skipped"}, buf.last[i] = "none"
  PROVE  RowsCount' /\ BufferCounts(buf')
<1> DEFINE b == Buffered(i, s)
<1>0. buf \in Buffers /\ b \in Buffers
  BY BufferedType DEF TypeOK, ExecTypeOK
<1>1. /\ \A j \in Items : b.last[j] = IF j = i THEN s ELSE buf.last[j]
      /\ b.applied = IF s = "succeeded" THEN buf.applied + 1 ELSE buf.applied
  BY <1>0 DEF Buffered, Buffers
<1>2. BufferCounts(b)
  <2> HIDE DEF b
  <2>1. CASE s = "succeeded"
    <3>1. BufferedMoves(b) = BufferedMoves(buf) \cup {i}
      BY <1>1, <2>1 DEF BufferedMoves
    <3>2. Cardinality(BufferedMoves(buf) \cup {i}) = Cardinality(BufferedMoves(buf)) + 1
      BY OneMore DEF BufferedMoves
    <3> QED
      BY <1>1, <2>1, <3>1, <3>2 DEF BufferCounts
  <2>2. CASE s # "succeeded"
    <3>1. BufferedMoves(b) = BufferedMoves(buf)
      BY <1>1, <2>2 DEF BufferedMoves
    <3> QED
      BY <1>1, <2>2, <3>1 DEF BufferCounts
  <2> QED
    BY <2>1, <2>2
<1>3. CASE buf' = b /\ UNCHANGED <<row, cnt>>
  <2> HIDE DEF b
  <2>1. BufferCounts(buf')
    BY <1>2, <1>3
  <2> QED
    BY <1>3, <2>1, SameRowsCount
<1>4. CASE Flush(b)
  <2>1. \A j \in Items : b.last[j] # "none" => row[j] \in {"pending", "applying", "skipped"}
    <3> HIDE DEF b
    <3> QED
      BY <1>1 DEF BufferHeld
  <2> HIDE DEF b
  <2> QED
    BY <1>0, <1>2, <1>4, <2>1, FlushCounts
<1> QED
  BY <1>3, <1>4 DEF Report

\* An empty buffer counts nothing.
LEMMA EmptyBufCounts == BufferCounts(EmptyBuf)
<1>1. BufferedMoves(EmptyBuf) = {} /\ EmptyBuf.applied = 0
  BY DEF EmptyBuf, BufferedMoves
<1> QED
  BY <1>1, FS_EmptySet DEF BufferCounts

\* A task that moves the counters or reads them back has them match, because no
\* cancel of a paused plan is under way.
LEMMA ExecutorCounts ==
  ASSUME RowsKnown, CountsMatch, Executor
  PROVE  CountsMatch'
<1>0. /\ TypeOK /\ Custody /\ RunShape /\ UnderRun
      /\ row \in [Items -> RowStates] /\ cnt \in Counts /\ buf \in Buffers
      /\ RowsCount /\ BufferCounts(buf) /\ BufferHeld
  BY DEF RowsKnown, PlanKnown, RunKnown, TypeOK, DbTypeOK, ExecTypeOK, CountsMatch, Custody
<1>1. UNCHANGED cmd
  BY DEF Executor, PassCancelled, PassSkip, PassStart, PassComplete, Drain,
     BatchCancelled, BatchStart, BatchUnknown, WorkPauses, WorkEnds, FinalFlush,
     Restore, Dispatch, PauseRun, EndPendings, EndOrphans, HandlerCancels, EndCount,
     EndComplete, Release
<1>2. CASE planState # "applying"
  <2>1. Release
    BY <1>0, <1>2, QuietTask
  <2>2. UNCHANGED <<row, cnt, buf, cmd>> /\ pc' = "off"
    BY <2>1 DEF Release, TaskOver, dbVars
  <2> QED
    BY <1>0, <2>2, SameRowsCount DEF CountsMatch, BufferCounts, BufferedMoves
<1>3. CASE planState = "applying"
  <2>0. \A c \in Callers : cmd[c].op = "cancel" => cmd[c].at = "applying"
    BY <1>0, <1>3 DEF UnderRun
  <2>1. ASSUME RowsCount', BufferCounts(buf'),
               pc' = "complete" => seen'.applied = cnt'.applied
                                   /\ seen'.cancelled = cnt'.cancelled
        PROVE  CountsMatch'
    <3>1. BufferCounts(buf)'
      BY <2>1 DEF BufferCounts, BufferedMoves
    <3> QED
      BY <1>1, <2>0, <2>1, <3>1 DEF CountsMatch
  <2>2. CASE EndCount
    <3>1. RowsCount'
      BY <1>0, <2>2, SameRowsCount DEF EndCount, dbVars
    <3> QED
      BY <1>0, <2>1, <2>2, <3>1 DEF EndCount, dbVars
  <2>3. CASE EndComplete
    <3>1. cnt' \in {cnt, seen} /\ UNCHANGED <<row, buf>> /\ pc' = "release" /\ pc = "complete"
      BY <2>3 DEF EndComplete
    <3>2. cnt'.applied = cnt.applied /\ cnt'.cancelled = cnt.cancelled
      BY <3>1 DEF CountsMatch
    <3>3. RowsCount'
      BY <1>0, <3>1, <3>2, SameRowsCount
    <3> QED
      BY <1>0, <2>1, <3>1, <3>3
  <2>4. CASE PassSkip
    <3>1. PICK i \in Items : i \in ahead /\ Report(i, "skipped")
      BY <2>4 DEF PassSkip, IsFirst
    <3>2. row[i] \in {"pending", "applying", "skipped"} /\ buf.last[i] = "none"
      BY <1>0, <2>4, <3>1 DEF PassSkip, Custody, ForwardHeld, Loop
    <3>3. RowsCount' /\ BufferCounts(buf')
      BY <1>0, <3>1, <3>2, ReportCounts
    <3> QED
      BY <2>1, <2>4, <3>3 DEF PassSkip
  <2>5. CASE WorkPauses \/ WorkEnds
    <3>1. PICK s \in {"failed", "succeeded"} : Report(cur, s)
      BY <2>5 DEF WorkPauses, WorkEnds, Results
    <3>2. /\ cur \in Items /\ row[cur] \in {"pending", "applying", "skipped"}
          /\ buf.last[cur] = "none"
      BY <1>0, <2>5 DEF WorkPauses, WorkEnds, TypeOK, ExecTypeOK, Custody, ForwardHeld,
         RetriesHeld
    <3>3. RowsCount' /\ BufferCounts(buf')
      BY <1>0, <3>1, <3>2, ReportCounts
    <3>4. pc' # "complete"
      BY <2>5 DEF WorkPauses, WorkEnds, Halt, AfterBatch
    <3> QED
      BY <2>1, <3>3, <3>4
  <2>6. CASE FinalFlush
    <3>1. RowsCount' /\ BufferCounts(buf')
      BY <1>0, <2>6, FlushCounts DEF FinalFlush, BufferHeld
    <3> QED
      BY <2>1, <2>6, <3>1 DEF FinalFlush
  <2>7. CASE Restore
    <3>1. /\ cnt'.applied = cnt.applied /\ cnt'.cancelled = cnt.cancelled
          /\ \A i \in Items : /\ row'[i] = "succeeded" <=> row[i] = "succeeded"
                              /\ row'[i] = "cancelled" <=> row[i] = "cancelled"
      BY <1>0, <2>7 DEF Restore, RollbackToFailed, Counts
    <3>2. RowsCount'
      BY <1>0, <3>1, SameRowsCount
    <3> QED
      BY <1>0, <2>1, <2>7, <3>2 DEF Restore
  <2>8. CASE EndPendings \/ EndOrphans
    <3>1. PICK state \in {"pending", "applying"} : CancelRows(state) \/ UNCHANGED <<row, cnt>>
      BY <2>8 DEF EndPendings, EndOrphans, HandlerCancels
    <3>2. RowsCount'
      BY <1>0, <3>1, CancelCounts, SameRowsCount
    <3>3. UNCHANGED buf /\ pc' # "complete"
      BY <2>8 DEF EndPendings, EndOrphans, HandlerCancels
    <3> QED
      BY <1>0, <2>1, <3>2, <3>3
  <2>9. CASE UNCHANGED <<row, cnt, buf>> /\ pc' # "complete"
    BY <1>0, <2>1, <2>9, SameRowsCount
  <2>10. CASE PauseRun
    <3>1. UNCHANGED <<row, cnt, buf, pc>> /\ pc = "off"
      BY <1>0, <2>10 DEF PauseRun, passVars, UnderRun
    <3> QED
      BY <2>9, <3>1
  <2>11. CASE \/ PassCancelled \/ PassStart \/ PassComplete \/ Drain \/ BatchCancelled
              \/ BatchStart \/ BatchUnknown \/ Dispatch \/ Release
    BY <2>9, <2>11 DEF PassCancelled, PassStart, PassComplete, Drain, BatchCancelled,
       BatchStart, BatchUnknown, Dispatch, Release, TaskOver, Halt, Pick, AfterBatch, dbVars
  <2> QED
    BY <2>2, <2>3, <2>4, <2>5, <2>6, <2>7, <2>8, <2>10, <2>11 DEF Executor
<1> QED
  BY <1>2, <1>3

\* One user's command counts what it cancels also in what it has read.
LEMMA CommandCounts ==
  ASSUME OneUser, RowsKnown, CountsMatch, NEW c \in Callers, Issue(c) \/ Command(c)
  PROVE  CountsMatch'
<1>0. /\ TypeOK /\ UnderRun /\ OneOwner /\ \A d \in Callers : d = c
      /\ row \in [Items -> RowStates] /\ cnt \in Counts
      /\ cmd \in [Callers -> Commands] /\ RowsCount /\ BufferCounts(buf)
  BY DEF RowsKnown, PlanKnown, RunKnown, TypeOK, DbTypeOK, CmdTypeOK, CountsMatch, OneUser
<1>1. ASSUME UNCHANGED <<cnt, pc, seen>>, buf' \in {buf, EmptyBuf},
             \A i \in Items : /\ row'[i] = "succeeded" <=> row[i] = "succeeded"
                              /\ row'[i] = "cancelled" <=> row[i] = "cancelled",
             cmd'[c].op = "cancel" /\ cmd'[c].at # "applying" =>
               /\ cmd[c].op = "cancel" /\ cmd[c].at # "applying"
               /\ UNCHANGED cmd[c].base
      PROVE  CountsMatch'
  <2>1. RowsCount'
    BY <1>0, <1>1, SameRowsCount
  <2>2. BufferCounts(buf)'
    BY <1>0, <1>1, EmptyBufCounts DEF BufferCounts, BufferedMoves
  <2> QED
    BY <1>0, <1>1, <2>1, <2>2 DEF CountsMatch
<1>2. Return(c) => cmd'[c].op = "none"
  BY <1>0 DEF Return, NoCmd
<1>3. CASE CancelRead(c)
  <2>1. /\ cmd'[c].op = "cancel" /\ cmd'[c].base = cnt
        /\ UNCHANGED <<row, cnt, pc, seen, buf>>
    BY <1>0, <1>3 DEF CancelRead, Begin, NoCmd, dbVars, execVars, passVars
  <2>2. RowsCount' /\ BufferCounts(buf)'
    BY <1>0, <2>1, SameRowsCount DEF BufferCounts, BufferedMoves
  <2> QED
    BY <1>0, <2>1, <2>2 DEF CountsMatch
<1>4. CASE Issue(c) /\ ~ CancelRead(c)
  <2>1. UNCHANGED <<row, cnt, pc, seen, buf>>
    BY <1>4 DEF Issue, ApplyRead, ResumeRead, Start, SkipCheck, RetryCheck, dbVars,
       execVars, passVars
  <2>2. cmd'[c].op # "cancel"
    BY <1>0, <1>4 DEF Issue, ApplyRead, ResumeRead, Start, SkipCheck, RetryCheck, Begin,
       NoCmd
  <2> QED
    BY <1>1, <2>1, <2>2
<1>5. ASSUME NEW state \in {"pending", "applying"}, NEW where \in {"pendings", "orphans"},
             NEW next, CancelRowsOf(c, where, state, next)
      PROVE  CountsMatch'
  <2>0. UNCHANGED <<pc, seen, buf>> /\ At(c, "cancel", where)
    BY <1>5 DEF CancelRowsOf, execVars, passVars
  <2>1. CASE Return(c) /\ UNCHANGED <<row, cnt>>
    BY <1>1, <1>2, <2>0, <2>1
  <2>2. CASE /\ CancelRows(state)
             /\ cmd' = [cmd EXCEPT ![c].at = next,
                                   ![c].base.cancelled = @ + Cardinality(RowsIn({state}))]
    <3>1. /\ RowsCount' /\ cnt'.applied = cnt.applied
          /\ cnt'.cancelled = cnt.cancelled + Cardinality(RowsIn({state}))
      BY <1>0, <2>2, CancelCounts
    <3>2. cmd[c].base \in Counts
      BY <1>0 DEF Commands
    <3>3. /\ cmd'[c].base.applied = cmd[c].base.applied
          /\ cmd'[c].base.cancelled = cmd[c].base.cancelled + Cardinality(RowsIn({state}))
      BY <1>0, <2>2, <3>2 DEF Commands, Counts
    <3>4. cmd[c].base.applied = cnt.applied /\ cmd[c].base.cancelled = cnt.cancelled
      BY <2>0 DEF CountsMatch, At
    <3>5. pc # "complete"
      BY <1>0, <2>0 DEF UnderRun, Underway, At
    <3>6. BufferCounts(buf)'
      BY <1>0, <2>0 DEF BufferCounts, BufferedMoves
    <3> QED
      BY <1>0, <2>0, <3>1, <3>3, <3>4, <3>5, <3>6 DEF CountsMatch
  <2> QED
    BY <1>5, <2>1, <2>2 DEF CancelRowsOf
<1>6. CASE CancelFinish(c)
  <2>1. /\ cnt' \in {cnt, cmd[c].base} /\ cmd'[c].op = "none"
        /\ UNCHANGED <<row, pc, seen, buf>> /\ At(c, "cancel", "finish")
    BY <1>2, <1>6 DEF CancelFinish, execVars, passVars
  <2>2. cnt'.applied = cnt.applied /\ cnt'.cancelled = cnt.cancelled
    BY <2>1 DEF CountsMatch, At
  <2>3. RowsCount' /\ BufferCounts(buf)'
    BY <1>0, <2>1, <2>2, SameRowsCount DEF BufferCounts, BufferedMoves
  <2>4. pc # "complete"
    BY <1>0, <2>1 DEF UnderRun, Underway, At
  <2> QED
    BY <1>0, <2>1, <2>3, <2>4 DEF CountsMatch
<1>7. CASE CancelSignal(c)
  <2>1. UNCHANGED <<row, cnt, pc, seen, buf>>
    BY <1>7 DEF CancelSignal, dbVars, execVars, passVars
  <2>2. CASE Return(c)
    BY <1>1, <1>2, <2>1, <2>2
  <2>3. CASE Goto(c, "pendings") /\ cmd[c].at = "paused" /\ cmd[c].op = "cancel"
    <3>1. UNCHANGED cmd[c].base
      BY <1>0, <2>3 DEF Goto, Commands
    <3> QED
      BY <1>1, <2>1, <2>3, <3>1
  <2> QED
    BY <1>7, <2>2, <2>3 DEF CancelSignal
<1>8. ASSUME cmd[c].op # "cancel", UNCHANGED <<pc, seen, buf, cnt>>,
             Return(c) \/ \E where : Goto(c, where),
             \A i \in Items : /\ row'[i] = "succeeded" <=> row[i] = "succeeded"
                              /\ row'[i] = "cancelled" <=> row[i] = "cancelled"
      PROVE  CountsMatch'
  <2>1. cmd'[c].op # "cancel"
    BY <1>0, <1>2, <1>8 DEF Goto, Commands
  <2> QED
    BY <1>1, <1>8, <2>1
<1>9. CASE RetryFlip(c) \/ RetryUndo(c)
  <2>1. /\ cnt'.applied = cnt.applied /\ cnt'.cancelled = cnt.cancelled
        /\ \A i \in Items : /\ row'[i] = "succeeded" <=> row[i] = "succeeded"
                            /\ row'[i] = "cancelled" <=> row[i] = "cancelled"
        /\ UNCHANGED <<pc, seen, buf>> /\ cmd[c].op = "retry"
    BY <1>0, <1>9 DEF RetryFlip, RetryUndo, RetryApplying, RollbackToFailed, Counts, At,
       execVars, passVars
  <2>2. cmd'[c].op # "cancel"
    BY <1>0, <1>2, <1>9, <2>1 DEF RetryFlip, RetryUndo, Goto, Commands
  <2>3. RowsCount' /\ BufferCounts(buf)'
    BY <1>0, <2>1, SameRowsCount DEF BufferCounts, BufferedMoves
  <2> QED
    BY <1>0, <2>1, <2>2, <2>3 DEF CountsMatch
<1>10. CASE SkipWrite(c) \/ SkipMark(c) \/ RetryPush(c)
  <2>1. /\ UNCHANGED <<cnt, pc, seen, buf>> /\ cmd[c].op \in {"skip", "retry"}
        /\ Return(c) \/ \E where : Goto(c, where)
        /\ \A i \in Items : row'[i] # row[i] => row[i] = "pending" /\ row'[i] = "skipped"
    BY <1>0, <1>10 DEF SkipWrite, SkipMark, RetryPush, At, dbVars, execVars, passVars
  <2> QED
    BY <1>8, <2>1
<1>11. CASE Load(c) \/ Register(c) \/ Claim(c) \/ Spawn(c) \/ LaunchFails(c)
  <2>1. /\ cmd[c].op # "cancel"
        /\ UNCHANGED <<row, cnt, pc, seen, buf>> \/ Spawn(c)
    BY <1>0, <1>11 DEF Load, Register, Claim, LaunchFails, UnderRun, CancelStages, Spawn,
       dbVars, execVars, passVars
  <2>2. cmd'[c].op # "cancel"
    BY <1>0, <1>2, <1>11, <2>1 DEF Load, Register, Claim, LaunchFails, Spawn, Goto, Commands
  <2>3. CASE Spawn(c)
    <3>1. UNCHANGED <<row, cnt>> /\ buf' = EmptyBuf /\ pc' = "pass"
      BY <2>3 DEF Spawn, dbVars
    <3>2. RowsCount' /\ BufferCounts(buf)'
      BY <1>0, <3>1, SameRowsCount, EmptyBufCounts DEF BufferCounts, BufferedMoves
    <3> QED
      BY <1>0, <2>2, <3>1, <3>2 DEF CountsMatch
  <2> QED
    BY <1>1, <2>1, <2>2, <2>3
<1> QED
  BY <1>3, <1>4, <1>5, <1>6, <1>7, <1>9, <1>10, <1>11
     DEF Command, CancelPendings, CancelOrphans

\* The boot task counts what it reconciles, and nothing else runs meanwhile.
LEMMA BootCounts ==
  ASSUME RowsKnown, CountsMatch, Boot
  PROVE  CountsMatch'
<1>0. /\ row \in [Items -> RowStates] /\ cnt \in Counts
      /\ disk \in [Items -> {"source", "both", "done"}]
      /\ RowsCount /\ BufferCounts(buf)
      /\ UNCHANGED <<pc, buf, cmd>> /\ bootPc # "done"
  BY DEF RowsKnown, PlanKnown, RunKnown, TypeOK, DbTypeOK, CountsMatch, Boot, BootSweep,
     BootList, BootItem, execVars, passVars
<1>1. pc = "off" /\ \A c \in Callers : cmd[c].op # "cancel"
  BY <1>0 DEF RowsKnown, PlanKnown, UnderRun, CancelStages
<1>2. SUFFICES RowsCount'
  BY <1>0, <1>1 DEF CountsMatch, BufferCounts, BufferedMoves
<1>3. CASE UNCHANGED <<row, cnt>>
  BY <1>0, <1>3, SameRowsCount
<1>4. CASE BootItem /\ ~ UNCHANGED <<row, cnt>>
  <2>1. PICK i \in bootTodo \cap Items :
          \/ /\ row' = [row EXCEPT ![i] = "succeeded"]
             /\ cnt' = [cnt EXCEPT !.applied = @ + 1]
          \/ /\ row' = [row EXCEPT ![i] = "failed"]
             /\ cnt' = [cnt EXCEPT !.failed = @ + 1]
    BY <1>0, <1>4 DEF BootItem, IsFirst
  <2>2. row[i] \in {"pending", "applying"}
    BY <1>4, <2>1 DEF BootItem, RowsKnown, BootRows
  <2>3. CASE /\ row' = [row EXCEPT ![i] = "succeeded"]
             /\ cnt' = [cnt EXCEPT !.applied = @ + 1]
    <3>1. RowsIn({"succeeded"})' = RowsIn({"succeeded"}) \cup {i}
      BY <1>0, <2>2, <2>3 DEF RowsIn
    <3>2. RowsIn({"cancelled"})' = RowsIn({"cancelled"})
      BY <1>0, <2>2, <2>3 DEF RowsIn
    <3>3. Cardinality(RowsIn({"succeeded"}) \cup {i}) = Cardinality(RowsIn({"succeeded"})) + 1
      BY <2>2, OneMore DEF RowsIn
    <3>4. cnt'.applied = cnt.applied + 1 /\ cnt'.cancelled = cnt.cancelled
      BY <1>0, <2>3 DEF Counts
    <3> QED
      BY <1>0, <3>1, <3>2, <3>3, <3>4 DEF RowsCount
  <2>4. CASE /\ row' = [row EXCEPT ![i] = "failed"]
             /\ cnt' = [cnt EXCEPT !.failed = @ + 1]
    <3>1. cnt'.applied = cnt.applied /\ cnt'.cancelled = cnt.cancelled
      BY <1>0, <2>4 DEF Counts
    <3>2. \A j \in Items : /\ row'[j] = "succeeded" <=> row[j] = "succeeded"
                           /\ row'[j] = "cancelled" <=> row[j] = "cancelled"
      BY <1>0, <2>2, <2>4
    <3> QED
      BY <1>0, <3>1, <3>2, SameRowsCount
  <2> QED
    BY <2>1, <2>3, <2>4
<1> QED
  BY <1>3, <1>4 DEF Boot, BootSweep, BootList, dbVars

\* The counters match for one user, through every crash and failed write.
LEMMA CountsMatchInvariant ==
  ASSUME OneUser
  PROVE  Spec => []CountsMatch
<1>1. Init => CountsMatch
  <2> SUFFICES ASSUME Init PROVE CountsMatch
    OBVIOUS
  <2>1. RowsIn({"succeeded"}) = {} /\ RowsIn({"cancelled"}) = {}
    BY DEF Init, AllPending, RowsIn
  <2>2. BufferCounts(buf)
    BY EmptyBufCounts DEF Init
  <2> QED
    BY <2>1, <2>2, FS_EmptySet DEF Init, CountsMatch, RowsCount, ZeroCounts, NoCmd
<1>2. RowsKnown /\ CountsMatch /\ [Next]_vars => CountsMatch'
  <2> SUFFICES ASSUME RowsKnown, CountsMatch, [Next]_vars PROVE CountsMatch'
    OBVIOUS
  <2>1. CASE UNCHANGED vars
    BY <2>1 DEF vars, dbVars, execVars, passVars, CountsMatch, RowsCount, RowsIn,
       BufferCounts, BufferedMoves
  <2>2. CASE Crash
    <3>1. /\ UNCHANGED <<row, cnt>> /\ buf' = EmptyBuf /\ pc' = "off"
          /\ \A c \in Callers : cmd'[c].op = "none"
      BY <2>2 DEF Crash, TaskOver, dbVars, NoCmd
    <3>2. RowsCount' /\ BufferCounts(buf)'
      BY <3>1, SameRowsCount, EmptyBufCounts DEF CountsMatch, BufferCounts, BufferedMoves
    <3> QED
      BY <3>1, <3>2 DEF CountsMatch
  <2> QED
    BY <2>1, <2>2, CommandCounts, ExecutorCounts, BootCounts DEF Next
<1> QED
  BY <1>1, <1>2, RowsKnownInvariant, PTL DEF Spec

\* SC-002: the counters of moved and of cancelled items count their rows in every
\* state, not only at rest; one user, any number of crashes and failed writes.
THEOREM CountersCount ==
  ASSUME BootRace = FALSE, \A c, d \in Callers : c = d
  PROVE  Spec => []RowsCount
<1>1. CountsMatch => RowsCount
  BY DEF CountsMatch
<1>2. OneUser
  BY DEF OneUser
<1> QED
  BY <1>1, <1>2, CountsMatchInvariant, PTL

-----------------------------------------------------------------------------
(* A plan that has ended has nothing left to run.                          *)

\* A task has an outcome from the end of its loop on, and only a pass that
\* reached its last item is completed.
OutcomeShape ==
  /\ pc \in AfterLoop <=> outcome # "none"
  /\ outcome = "completed" => ahead = {}

\* The item is in the pass, in hand, or has an outcome.
InTask(i) == i \in ahead \/ i = cur \/ buf.last[i] # "none"

\* A row that is still `pending`: its plan has not ended; its item is the task's
\* until the outcome's handler takes over; and the handlers of a run that was
\* completed or cancelled have none, nor has a cancel that was through with them.
PendingLeft ==
  \A i \in Items : row[i] = "pending" =>
    /\ planState \notin Terminal
    /\ pc \in Loop \cup {"flush", "restore"} => InTask(i)
    /\ pc \notin {"orphans", "count", "complete"}
    /\ \A c \in Callers : cmd[c].op = "cancel" => cmd[c].at \notin {"orphans", "finish"}

\* No step completes a pass early.
LEMMA OutcomeShapeStep ==
  ASSUME RunKnown, OutcomeShape, [Next]_vars
  PROVE  OutcomeShape'
<1> USE DEF OutcomeShape, AfterLoop
<1>1. CASE UNCHANGED <<pc, outcome, ahead>>
  BY <1>1
<1>2. CASE pc' = "off" /\ outcome' = "none" /\ ahead' = {}
  BY <1>2
<1>3. ASSUME NEW c \in Callers, Issue(c)
      PROVE  UNCHANGED <<pc, outcome, ahead>>
  BY <1>3 DEF Issue, ApplyRead, ResumeRead, Start, CancelRead, SkipCheck, RetryCheck,
     execVars, passVars
<1>4. ASSUME NEW c \in Callers, Command(c)
      PROVE  OutcomeShape'
  <2>1. CASE Spawn(c)
    <3>1. pc = "off" /\ pc' = "pass" /\ UNCHANGED outcome
      BY <2>1 DEF Spawn, RunKnown, OneOwner, Starting
    <3> QED
      BY <3>1
  <2> QED
    BY <1>1, <1>4, <2>1 DEF Command, Load, Register, Claim, LaunchFails, CancelSignal,
       CancelPendings, CancelOrphans, CancelRowsOf, CancelFinish, SkipWrite, SkipMark,
       RetryFlip, RetryPush, RetryUndo, execVars, passVars
<1>5. CASE Executor
  <2>1. CASE PassCancelled \/ BatchCancelled \/ WorkPauses \/ PassComplete
    BY <2>1 DEF PassCancelled, BatchCancelled, WorkPauses, PassComplete, Halt
  <2>2. CASE PassSkip \/ PassStart \/ Drain \/ BatchStart \/ BatchUnknown \/ WorkEnds
    <3>1. /\ pc \in {"pass", "drain", "batch", "work", "rework"}
          /\ pc' \in {"pass", "drain", "batch", "work", "rework"}
          /\ UNCHANGED outcome
      BY <2>2 DEF PassSkip, PassStart, Drain, BatchStart, BatchUnknown, WorkEnds, Pick,
         AfterBatch
    <3> QED
      BY <3>1
  <2>3. CASE Dispatch \/ Release
    BY <1>2, <2>3 DEF Dispatch, Release, TaskOver
  <2>4. CASE \/ FinalFlush \/ Restore \/ PauseRun \/ EndPendings \/ EndOrphans \/ EndCount
             \/ EndComplete
    BY <1>1, <2>4 DEF FinalFlush, Restore, PauseRun, EndPendings, EndOrphans,
       HandlerCancels, EndCount, EndComplete, passVars
  <2> QED
    BY <1>5, <2>1, <2>2, <2>3, <2>4 DEF Executor
<1>6. CASE Boot \/ UNCHANGED vars
  BY <1>1, <1>6 DEF Boot, BootSweep, BootList, BootItem, vars, execVars, passVars
<1>7. CASE Crash
  BY <1>2, <1>7 DEF Crash, TaskOver
<1> QED
  BY <1>1, <1>3, <1>4, <1>5, <1>6, <1>7 DEF Next

\* No row becomes `pending`.
LEMMA StillPending ==
  ASSUME RowsKnown, [Next]_vars, NEW i \in Items, row'[i] = "pending"
  PROVE  row[i] = "pending"
<1>1. buf.last[i] \in {"none", "succeeded", "failed", "skipped"}
  BY DEF RowsKnown, PlanKnown, RunKnown, TypeOK, ExecTypeOK, Buffers
<1> QED
  BY <1>1, RowStep DEF RowMoves

\* Only complete_run and the last write of a cancel end a plan.
LEMMA EndedBy ==
  ASSUME [Next]_vars, planState \notin Terminal, planState' \in Terminal
  PROVE  EndComplete \/ \E c \in Callers : CancelFinish(c)
<1>1. ASSUME NEW c \in Callers, Issue(c)
      PROVE  UNCHANGED planState
  BY <1>1 DEF Issue, ApplyRead, ResumeRead, Start, CancelRead, SkipCheck, RetryCheck,
     dbVars
<1>2. ASSUME NEW c \in Callers, Command(c), ~ CancelFinish(c)
      PROVE  UNCHANGED planState \/ planState' = "applying"
  BY <1>2 DEF Command, Load, Register, Claim, Spawn, LaunchFails, CancelSignal,
     CancelPendings, CancelOrphans, CancelRowsOf, SkipWrite, SkipMark, RetryFlip,
     RetryPush, RetryUndo, dbVars
<1>3. ASSUME Executor, ~ EndComplete
      PROVE  UNCHANGED planState \/ planState' = "paused"
  BY <1>3 DEF Executor, PassCancelled, PassSkip, PassStart, PassComplete, Drain,
     BatchCancelled, BatchStart, BatchUnknown, WorkPauses, WorkEnds, FinalFlush,
     Restore, Dispatch, PauseRun, EndPendings, EndOrphans, HandlerCancels, EndCount,
     Release, dbVars
<1>4. ASSUME Boot \/ Crash
      PROVE  UNCHANGED planState \/ planState' = "paused"
  BY <1>4 DEF Boot, BootSweep, BootList, BootItem, Crash, dbVars
<1> QED
  BY <1>1, <1>2, <1>3, <1>4 DEF Next, vars, dbVars, Terminal

\* An item stays the task's, from the spawn over the `pending` rows on, until its
\* outcome is in its row.
LEMMA HandedOn ==
  ASSUME RowsKnown, [Next]_vars, ~ DbFails, NEW i \in Items, row'[i] = "pending",
         pc \in Loop \cup {"flush", "restore"} => InTask(i),
         pc' \in Loop \cup {"flush", "restore"}
  PROVE  InTask(i)'
<1>0. /\ TypeOK /\ DbTypeOK /\ buf \in Buffers /\ RunShape /\ Custody
      /\ row[i] = "pending"
  BY StillPending DEF RowsKnown, PlanKnown, RunKnown, TypeOK, ExecTypeOK
<1>1. CASE buf.last[i] # "none"
  <2>1. ~ Crash
    BY DEF Crash, TaskOver, Loop
  <2>2. buf.last[i] \in {"succeeded", "failed", "skipped"}
    BY <1>0, <1>1 DEF Buffers
  <2>3. buf'.last[i] = buf.last[i]
    BY <1>1, <2>1, <2>2, OutcomeStep
  <2> QED
    BY <1>1, <2>3 DEF InTask
<1>2. CASE UNCHANGED <<pc, ahead, cur, buf>>
  BY <1>2 DEF InTask
<1>3. ASSUME NEW s \in {"succeeded", "failed", "skipped"}, Report(i, s)
      PROVE  InTask(i)'
  <2>1. s = IF i = i THEN s ELSE buf.last[i]
    OBVIOUS
  <2>2. buf'.last[i] = s \/ row'[i] = s
    BY <1>0, <1>3, <2>1, ReportAt
  <2> QED
    BY <1>3, <2>2 DEF InTask
<1>4. ASSUME NEW c \in Callers, Issue(c)
      PROVE  UNCHANGED <<pc, ahead, cur, buf>>
  BY <1>4 DEF Issue, ApplyRead, ResumeRead, Start, CancelRead, SkipCheck, RetryCheck,
     execVars, passVars
<1>5. ASSUME NEW c \in Callers, Command(c)
      PROVE  InTask(i)'
  <2>1. CASE Spawn(c)
    <3>1. cmd[c].snap = row
      BY <2>1 DEF Spawn, RowsKnown, PlanKnown, ReadsHold
    <3>2. i \in ahead'
      BY <1>0, <2>1, <3>1 DEF Spawn, ForwardRows
    <3> QED
      BY <3>2 DEF InTask
  <2> QED
    BY <1>2, <1>5, <2>1 DEF Command, Load, Register, Claim, LaunchFails, CancelSignal,
       CancelPendings, CancelOrphans, CancelRowsOf, CancelFinish, SkipWrite, SkipMark,
       RetryFlip, RetryPush, RetryUndo, execVars, passVars
<1>6. CASE Executor
  <2>1. CASE PassSkip
    <3>1. PICK j \in Items : ahead' = ahead \ {j} /\ Report(j, "skipped")
      BY <2>1 DEF PassSkip
    <3>2. UNCHANGED cur /\ pc = "pass"
      BY <2>1 DEF PassSkip
    <3> QED
      BY <1>1, <1>3, <3>1, <3>2 DEF InTask, Loop
  <2>2. CASE WorkPauses \/ WorkEnds
    <3>1. PICK s \in {"failed", "succeeded"} : Report(cur, s)
      BY <2>2 DEF WorkPauses, WorkEnds, Results
    <3>2. pc \in Loop /\ UNCHANGED ahead
      BY <2>2 DEF WorkPauses, WorkEnds, Loop
    <3> QED
      BY <1>1, <1>3, <3>1, <3>2 DEF InTask
  <2>3. CASE PassStart
    <3>1. ahead' = ahead \ {cur'} /\ UNCHANGED buf /\ cur = 0 /\ pc = "pass"
      BY <1>0, <2>3 DEF PassStart, Pick, RunShape
    <3> QED
      BY <3>1, PlanApplyAssumption DEF InTask, Items, Loop
  <2>4. CASE \/ PassCancelled \/ PassComplete \/ Drain \/ BatchCancelled \/ BatchStart
             \/ BatchUnknown \/ FinalFlush \/ Restore
    <3>1. cur = 0 /\ UNCHANGED ahead /\ pc \in Loop \cup {"flush", "restore"}
      BY <1>0, <2>4 DEF PassCancelled, PassComplete, Drain, BatchCancelled, BatchStart,
         BatchUnknown, FinalFlush, Restore, RunShape, Loop
    <3> QED
      BY <1>1, <3>1, PlanApplyAssumption DEF InTask, Items
  <2>5. CASE PauseRun
    BY <1>2, <2>5 DEF PauseRun, passVars
  <2>6. ~ (Dispatch \/ EndPendings \/ EndOrphans \/ EndCount \/ EndComplete \/ Release)
    BY DEF Dispatch, EndPendings, EndOrphans, HandlerCancels, EndCount, EndComplete,
       Release, TaskOver, Loop
  <2> QED
    BY <1>6, <2>1, <2>2, <2>3, <2>4, <2>5, <2>6 DEF Executor
<1>7. CASE Boot \/ UNCHANGED vars
  BY <1>2, <1>7 DEF Boot, BootSweep, BootList, BootItem, vars, execVars, passVars
<1>8. ~ Crash
  BY DEF Crash, TaskOver, Loop
<1> QED
  BY <1>2, <1>4, <1>5, <1>6, <1>7, <1>8 DEF Next

\* A handler that sweeps the `applying` rows has no `pending` one.
LEMMA HandlersHaveNone ==
  ASSUME RowsKnown, OutcomeShape, PendingLeft, [Next]_vars, ~ DbFails,
         NEW i \in Items, row'[i] = "pending"
  PROVE  pc' \notin {"orphans", "count", "complete"}
<1>0. /\ row \in [Items -> RowStates] /\ RunShape /\ Custody /\ row[i] = "pending"
      /\ pc \notin {"orphans", "count", "complete"}
  BY StillPending DEF RowsKnown, PlanKnown, RunKnown, TypeOK, DbTypeOK, PendingLeft
<1>1. ASSUME NEW c \in Callers, Issue(c) \/ Command(c)
      PROVE  pc' \in {pc, "pass"}
  BY <1>1 DEF Issue, ApplyRead, ResumeRead, Start, CancelRead, SkipCheck, RetryCheck,
     Command, Load, Register, Claim, Spawn, LaunchFails, CancelSignal, CancelPendings,
     CancelOrphans, CancelRowsOf, CancelFinish, SkipWrite, SkipMark, RetryFlip,
     RetryPush, RetryUndo, execVars, passVars
<1>2. CASE Executor
  <2>1. CASE Dispatch
    <3>1. pc = "restore"
      BY <2>1 DEF Dispatch
    <3>2. cur = 0 /\ buf = EmptyBuf
      BY <1>0, <3>1 DEF RunShape, Custody, BufferHeld, Loop
    <3>3. i \in ahead
      BY <1>0, <3>1, <3>2, PlanApplyAssumption DEF PendingLeft, InTask, EmptyBuf, Items
    <3>4. outcome \in {"cancelled", "paused"}
      BY <3>1, <3>3 DEF OutcomeShape, AfterLoop, RowsKnown, PlanKnown, RunKnown, TypeOK,
         ExecTypeOK
    <3> QED
      BY <2>1, <3>4 DEF Dispatch, TaskOver
  <2>2. ~ EndPendings
    BY <1>0 DEF EndPendings, HandlerCancels, CancelRows
  <2> QED
    BY <1>0, <1>2, <2>1, <2>2 DEF Executor, PassCancelled, PassSkip, PassStart, PassComplete,
       Drain, BatchCancelled, BatchStart, BatchUnknown, WorkPauses, WorkEnds, FinalFlush,
       Restore, PauseRun, EndOrphans, HandlerCancels, EndCount, EndComplete, Release,
       TaskOver, Halt, Pick, AfterBatch, passVars
<1> QED
  BY <1>0, <1>1, <1>2 DEF Next, Boot, BootSweep, BootList, BootItem, Crash, TaskOver, vars,
     execVars, passVars

\* Nor has a cancel that is through with them.
LEMMA CancelHasNone ==
  ASSUME OneUser, RowsKnown, PendingLeft, [Next]_vars, ~ DbFails,
         NEW i \in Items, row'[i] = "pending", NEW c \in Callers, cmd'[c].op = "cancel"
  PROVE  cmd'[c].at \notin {"orphans", "finish"}
<1>0. /\ row \in [Items -> RowStates] /\ cmd \in [Callers -> Commands]
      /\ row[i] = "pending" /\ \A d \in Callers : d = c
      /\ cmd[c].op = "cancel" => cmd[c].at \notin {"orphans", "finish"}
  BY StillPending DEF RowsKnown, PlanKnown, RunKnown, TypeOK, DbTypeOK, CmdTypeOK,
     PendingLeft, OneUser
<1>1. CASE UNCHANGED cmd
  BY <1>0, <1>1
<1>2. ASSUME Issue(c)
      PROVE  cmd'[c].at \notin {"orphans", "finish"}
  BY <1>0, <1>2 DEF Issue, ApplyRead, ResumeRead, Start, CancelRead, SkipCheck, RetryCheck,
     Begin, NoCmd
<1>3. ASSUME Command(c)
      PROVE  cmd'[c].at \notin {"orphans", "finish"}
  <2>1. CASE Return(c)
    BY <1>0, <2>1 DEF Return, NoCmd
  <2>2. ASSUME NEW where, where \notin {"orphans", "finish"}, Goto(c, where)
        PROVE  cmd'[c].at \notin {"orphans", "finish"}
    BY <1>0, <2>2 DEF Goto, Commands
  <2>3. CASE Load(c) \/ (Register(c) /\ ~ Return(c))
    BY <1>0, <2>3 DEF Load, Register, Commands
  <2>4. ~ CancelPendings(c) \/ Return(c)
    BY <1>0 DEF CancelPendings, CancelRowsOf, CancelRows
  <2>5. ~ CancelOrphans(c)
    BY <1>0 DEF CancelOrphans, CancelRowsOf, At
  <2> QED
    BY <1>3, <2>1, <2>2, <2>3, <2>4, <2>5 DEF Command, Claim, Spawn, LaunchFails,
       CancelSignal, CancelFinish, SkipWrite, SkipMark, RetryFlip, RetryPush, RetryUndo
<1>4. CASE Executor
  BY <1>1, <1>4 DEF Executor, PassCancelled, PassSkip, PassStart, PassComplete, Drain,
     BatchCancelled, BatchStart, BatchUnknown, WorkPauses, WorkEnds, FinalFlush,
     Restore, Dispatch, PauseRun, EndPendings, EndOrphans, HandlerCancels, EndCount,
     EndComplete, Release
<1>5. CASE Crash
  BY <1>5 DEF Crash, NoCmd
<1> QED
  BY <1>0, <1>1, <1>2, <1>3, <1>4, <1>5 DEF Next, Boot, BootSweep, BootList, BootItem, vars

\* Without failed writes, no step leaves a `pending` row to a plan that ends.
LEMMA PendingLeftStep ==
  ASSUME OneUser, RowsKnown, OutcomeShape, PendingLeft, [Next]_vars, ~ DbFails
  PROVE  PendingLeft'
<1> SUFFICES ASSUME NEW i \in Items, row'[i] = "pending"
             PROVE  /\ planState' \notin Terminal
                    /\ pc' \in Loop \cup {"flush", "restore"} => InTask(i)'
                    /\ pc' \notin {"orphans", "count", "complete"}
                    /\ \A c \in Callers : cmd'[c].op = "cancel"
                                            => cmd'[c].at \notin {"orphans", "finish"}
  BY DEF PendingLeft
<1>1. row[i] = "pending"
  BY StillPending
<1>2. planState' \notin Terminal
  BY <1>1, EndedBy DEF PendingLeft, EndComplete, CancelFinish, At
<1>3. pc' \in Loop \cup {"flush", "restore"} => InTask(i)'
  BY <1>1, HandedOn DEF PendingLeft
<1> QED
  BY <1>2, <1>3, HandlersHaveNone, CancelHasNone

\* FR-009, SC-002: at rest, a plan that has ended has no `pending` item, and the
\* counters of moved and cancelled items count their rows; one user, whatever he
\* skips, retries, cancels and resumes and however often the process crashes.
\* (A bulk cancellation that fails is logged and leaves the rows behind.)
THEOREM PlansSettle ==
  ASSUME BootRace = FALSE, \A c, d \in Callers : c = d, MaxDbFails = 0
  PROVE  Spec => []TerminalSettles
<1>1. Init => OutcomeShape /\ PendingLeft
  BY DEF Init, OutcomeShape, AfterLoop, PendingLeft, Terminal, Loop, NoCmd
<1>2. OneUser
  BY DEF OneUser
<1>3. RowsKnown /\ OutcomeShape /\ [Next]_vars => OutcomeShape'
  BY OutcomeShapeStep DEF RowsKnown, PlanKnown
<1>4. RowsKnown /\ OutcomeShape /\ PendingLeft /\ [Next]_vars => PendingLeft'
  BY <1>2, NoDbFails, PendingLeftStep DEF RowsKnown, PlanKnown, RunKnown
<1>5. PendingLeft /\ CountsMatch => TerminalSettles
  BY DEF PendingLeft, CountsMatch, RowsCount, TerminalSettles, RowsIn
<1> QED
  BY <1>1, <1>2, <1>3, <1>4, <1>5, RowsKnownInvariant, CountsMatchInvariant, PTL DEF Spec

-----------------------------------------------------------------------------
(***************************************************************************)
(* Every step of the task, of a command and of the boot task leaves it     *)
(* less to do, whoever issues what when.  Only a spawn or an accepted      *)
(* retry gives the task more, only a crash starts the boot task, and only  *)
(* a caller starts a command: between two commands and without a crash     *)
(* there are finitely many steps.  This is the half of RunEnds and         *)
(* RetrySettles that is not about fairness.                                *)
(***************************************************************************)

\* Where the task is, counted down to its end.
Place ==
  CASE pc = "work"                -> 12
    [] pc \in {"drain", "rework"} -> 11
    [] pc \in {"pass", "batch"}   -> 10
    [] pc = "flush"               -> 8
    [] pc = "restore"             -> 7
    [] pc = "pendings"            -> 6
    [] pc = "orphans"             -> 5
    [] pc = "count"               -> 4
    [] pc = "complete"            -> 3
    [] pc = "release"             -> 2
    [] OTHER                      -> 0

\* An item ahead or queued is worth more than one in the batch, and that more
\* than an orphan, which is worth more than one to be restored.
Drained == IF pc = "restore" THEN Cardinality(batch) ELSE 3 * Cardinality(batch)

ToPause == IF pausing THEN 1 ELSE 0

TaskLeft == Place + 4 * Cardinality(ahead) + 4 * Cardinality(queued)
                  + 2 * Cardinality(orphaned) + Drained + ToPause

BootLeft ==
  CASE bootPc = "sweep" -> N + 2
    [] bootPc = "list"  -> N + 1
    [] bootPc = "items" -> Cardinality(bootTodo)
    [] OTHER            -> 0

CommandLeft(c) ==
  CASE cmd[c].at = "idle"                                  -> 0
    [] cmd[c].at \in {"spawn", "finish", "mark", "undo"}   -> 1
    [] cmd[c].at \in {"claim", "orphans", "write", "push"} -> 2
    [] cmd[c].at \in {"register", "pendings", "flip"}      -> 3
    [] OTHER                                               -> 4

WindsDown ==
  /\ Executor => TaskLeft' < TaskLeft
  /\ TaskLeft' > TaskLeft => \E c \in Callers : Spawn(c) \/ RetryPush(c)
  /\ Boot => BootLeft' < BootLeft
  /\ BootLeft' > BootLeft => Crash
  /\ \A c \in Callers :
       /\ Command(c) => CommandLeft(c)' < CommandLeft(c)
       /\ CommandLeft(c)' > CommandLeft(c) => Issue(c)

\* One item less counts one less.
LEMMA OneLess ==
  ASSUME NEW S, S \subseteq Items, NEW i \in S
  PROVE  Cardinality(S \ {i}) = Cardinality(S) - 1
  BY ItemsFinite, FS_RemoveElement

\* Items put together are at most as many as before.
LEMMA TogetherAtMost ==
  ASSUME NEW S, NEW T, S \subseteq Items, T \subseteq Items
  PROVE  Cardinality(S \cup T) <= Cardinality(S) + Cardinality(T)
<1>1. /\ IsFiniteSet(S) /\ IsFiniteSet(T) /\ Cardinality(S) \in Nat /\ Cardinality(T) \in Nat
      /\ Cardinality(S \cap T) \in Nat
  BY ItemsFinite
<1>2. Cardinality(S \cup T) = Cardinality(S) + Cardinality(T) - Cardinality(S \cap T)
  BY <1>1, FS_Union
<1> QED
  BY <1>1, <1>2

\* What is left is a natural number.
LEMMA LeftType ==
  ASSUME TypeOK
  PROVE  /\ Cardinality(ahead) \in Nat /\ Cardinality(queued) \in Nat
         /\ Cardinality(orphaned) \in Nat /\ Cardinality(batch) \in Nat
         /\ Cardinality(bootTodo) \in Nat
         /\ Place \in Nat /\ Drained \in Nat /\ ToPause \in Nat
         /\ TaskLeft \in Nat /\ BootLeft \in Nat
<1>1. /\ Cardinality(ahead) \in Nat /\ Cardinality(queued) \in Nat
      /\ Cardinality(orphaned) \in Nat /\ Cardinality(batch) \in Nat
      /\ Cardinality(bootTodo) \in Nat
  BY ItemsFinite DEF TypeOK, ExecTypeOK, EntryTypeOK, RQ!QueueTypeOK, BootTypeOK
<1>2. Place \in Nat /\ ToPause \in Nat
  BY DEF Place, ToPause
<1>3. Drained \in Nat
  BY <1>1 DEF Drained
<1>4. BootLeft \in Nat
  BY <1>1, PlanApplyAssumption DEF BootLeft
<1> QED
  BY <1>1, <1>2, <1>3, <1>4 DEF TaskLeft

\* No item counts nothing.
LEMMA NoneLeft == Cardinality({}) = 0
  BY FS_EmptySet

\* The task's own steps.
LEMMA TaskWindsDown ==
  ASSUME TypeOK, TypeOK', RunShape, Executor
  PROVE  TaskLeft' < TaskLeft
<1>t. /\ ahead \subseteq Items /\ queued \subseteq Items /\ orphaned \subseteq Items
      /\ batch \subseteq Items
      /\ ahead' \subseteq Items /\ queued' \subseteq Items /\ orphaned' \subseteq Items
      /\ batch' \subseteq Items
  BY DEF TypeOK, ExecTypeOK, EntryTypeOK, RQ!QueueTypeOK
<1>1. /\ \E a \in Nat : a = Cardinality(ahead)
      /\ \E q \in Nat : q = Cardinality(queued)
      /\ \E o \in Nat : o = Cardinality(orphaned)
      /\ \E b \in Nat : b = Cardinality(batch)
      /\ \E a1 \in Nat : a1 = Cardinality(ahead')
      /\ \E q1 \in Nat : q1 = Cardinality(queued')
      /\ \E o1 \in Nat : o1 = Cardinality(orphaned')
      /\ \E b1 \in Nat : b1 = Cardinality(batch')
  BY <1>t, ItemsFinite
<1>2. PICK a \in Nat, q \in Nat, o \in Nat, b \in Nat,
           a1 \in Nat, q1 \in Nat, o1 \in Nat, b1 \in Nat :
        /\ a = Cardinality(ahead) /\ q = Cardinality(queued)
        /\ o = Cardinality(orphaned) /\ b = Cardinality(batch)
        /\ a1 = Cardinality(ahead') /\ q1 = Cardinality(queued')
        /\ o1 = Cardinality(orphaned') /\ b1 = Cardinality(batch')
  BY <1>1
<1>3. PICK p \in Nat, p1 \in Nat, d \in Nat, d1 \in Nat, t \in Nat, t1 \in Nat :
        /\ p = Place /\ p1 = Place' /\ t = ToPause /\ t1 = ToPause'
        /\ d = IF pc = "restore" THEN b ELSE 3 * b
        /\ d1 = IF pc' = "restore" THEN b1 ELSE 3 * b1
  <2>1. Place \in Nat /\ ToPause \in Nat
    BY DEF Place, ToPause
  <2>2. Place' \in Nat /\ ToPause' \in Nat
    BY DEF Place, ToPause
  <2> QED
    BY <2>1, <2>2
<1>s. /\ TaskLeft = p + 4 * a + 4 * q + 2 * o + d + t
      /\ TaskLeft' = p1 + 4 * a1 + 4 * q1 + 2 * o1 + d1 + t1
  BY <1>2, <1>3 DEF TaskLeft, Drained
<1>d. /\ d = IF pc = "restore" THEN b ELSE 3 * b
      /\ d1 = IF pc' = "restore" THEN b1 ELSE 3 * b1
      /\ pausing' = pausing => t1 = t
  BY <1>3 DEF ToPause
<1>f. t1 <= 1
  BY <1>3 DEF ToPause
<1>k. /\ ahead' = ahead => a1 = a
      /\ queued' = queued => q1 = q
      /\ orphaned' = orphaned => o1 = o
      /\ batch' = batch => b1 = b
  BY <1>2
<1>e. /\ (ahead' = {} => a1 = 0) /\ (queued' = {} => q1 = 0) /\ (orphaned' = {} => o1 = 0)
      /\ (batch' = {} => b1 = 0) /\ (batch = {} => b = 0)
      /\ (queued # {} => q > 0)
  <2>1. queued # {} => q # 0
    BY <1>t, <1>2, ItemsFinite, FS_EmptySet
  <2>2. queued # {} => q > 0
    BY <2>1
  <2>3. /\ ahead' = {} => a1 = 0
        /\ queued' = {} => q1 = 0
        /\ orphaned' = {} => o1 = 0
    BY <1>2, NoneLeft
  <2>4. (batch' = {} => b1 = 0) /\ (batch = {} => b = 0)
    BY <1>2, NoneLeft
  <2> QED
    BY <2>2, <2>3, <2>4
<1>h. ASSUME NEW how, NEW rest, Halt(how, rest), rest \in {{}, batch},
             UNCHANGED <<ahead, pausing>>, pc \in Loop
      PROVE  TaskLeft' < TaskLeft
  <2>1. /\ pc' = "flush" /\ batch' = {} /\ queued' = {}
        /\ orphaned' = (orphaned \cup rest) \cup queued
    BY <1>h DEF Halt, RQ!OrphanAndClose
  <2>2. Cardinality(orphaned \cup rest) <= o + b
    <3>1. Cardinality(orphaned \cup rest) <= o + Cardinality(rest)
      BY <1>t, <1>h, TogetherAtMost, <1>2
    <3>2. Cardinality(rest) \in {0, b}
      BY <1>h, NoneLeft, <1>2
    <3>3. Cardinality(orphaned \cup rest) \in Nat
      BY <1>t, <1>h, ItemsFinite
    <3> QED
      BY <3>1, <3>2, <3>3
  <2>3. o1 <= Cardinality(orphaned \cup rest) + q
    BY <1>t, <1>h, <2>1, TogetherAtMost, <1>2
  <2>4. Cardinality(orphaned \cup rest) \in Nat
    BY <1>t, <1>h, ItemsFinite
  <2>5. o1 <= o + b + q
    BY <2>2, <2>3, <2>4
  <2>6. p1 = 8 /\ p >= 10
    BY <1>h, <2>1, <1>3 DEF Place, Loop
  <2>7. d = 3 * b /\ d1 = 0
    BY <1>d, <1>e, <1>h, <2>1 DEF Loop
  <2>8. a1 = a /\ q1 = 0 /\ t1 = t
    BY <1>d, <1>k, <1>e, <1>h, <2>1
  <2> QED
    BY <1>s, <1>f, <2>5, <2>6, <2>7, <2>8
<1>4. CASE PassCancelled \/ BatchCancelled \/ WorkPauses
  BY <1>4, <1>h DEF PassCancelled, BatchCancelled, WorkPauses, Loop
<1>5. CASE PassSkip \/ PassStart
  <2>1. PICK i \in ahead : ahead' = ahead \ {i}
    BY <1>5 DEF PassSkip, PassStart, IsFirst
  <2>2. a1 = a - 1
    BY <1>t, <2>1, OneLess, <1>2
  <2>3. pc = "pass" /\ pc' \in {"pass", "work"} /\ UNCHANGED <<queued, orphaned, batch, pausing>>
    BY <1>5 DEF PassSkip, PassStart, Pick, queueVars
  <2>4. p = 10 /\ p1 <= 12
    BY <2>3, <1>3 DEF Place
  <2>5. /\ q1 = q /\ o1 = o /\ d = 3 * b /\ d1 = 3 * b /\ t1 = t
    BY <1>d, <1>k, <2>3
  <2> QED
    BY <1>s, <1>f, <2>2, <2>4, <2>5
<1>6. CASE PassComplete
  <2>1. /\ pc = "pass" /\ pc' = "flush"
        /\ UNCHANGED <<ahead, queued, orphaned, batch, pausing>>
    BY <1>6 DEF PassComplete, RQ!CloseIfEmpty
  <2>2. p = 10 /\ p1 = 8
    BY <2>1, <1>3 DEF Place
  <2> QED
    BY <1>s, <1>d, <1>k, <2>1, <2>2
<1>7. CASE Drain
  <2>1. /\ batch' = queued /\ queued' = {} /\ batch = {}
        /\ UNCHANGED <<ahead, orphaned, pausing>>
    BY <1>7 DEF Drain, RQ!DrainAll, RunShape
  <2>2. b1 = q
    BY <2>1, <1>2
  <2>3. CASE queued = {}
    <3>1. p = 11 /\ p1 = 10 /\ pc = "drain" /\ pc' = "pass"
      BY <1>7, <2>3, <1>3 DEF Drain, Place
    <3> QED
      BY <1>s, <1>d, <1>k, <1>e, <2>1, <2>2, <3>1
  <2>4. CASE queued # {}
    <3>1. p \in {10, 11} /\ p1 = 10 /\ pc \in {"pass", "drain"} /\ pc' = "batch"
      BY <1>7, <2>4, <1>3 DEF Drain, Place
    <3> QED
      BY <1>s, <1>d, <1>k, <1>e, <2>1, <2>2, <2>4, <3>1
  <2> QED
    BY <2>3, <2>4
<1>8. CASE BatchStart
  <2>1. PICK i \in batch : batch' = batch \ {i}
    BY <1>8 DEF BatchStart
  <2>2. b1 = b - 1
    BY <1>t, <2>1, OneLess, <1>2
  <2>3. pc = "batch" /\ pc' = "rework" /\ UNCHANGED <<ahead, queued, orphaned, pausing>>
    BY <1>8 DEF BatchStart, Pick, queueVars
  <2>4. p = 10 /\ p1 = 11
    BY <2>3, <1>3 DEF Place
  <2> QED
    BY <1>s, <1>d, <1>k, <2>2, <2>3, <2>4
<1>9. CASE BatchUnknown
  <2>1. PICK i \in batch : batch' = batch \ {i} /\ orphaned' = orphaned \cup {i}
    BY <1>9 DEF BatchUnknown, RQ!Orphan
  <2>2. b1 = b - 1
    BY <1>t, <2>1, OneLess, <1>2
  <2>3. o1 <= o + 1
    <3>1. IsFiniteSet(orphaned)
      BY <1>t, ItemsFinite
    <3>2. Cardinality(orphaned \cup {i}) \in {o, o + 1}
      BY <3>1, FS_AddElement, <1>2
    <3>3. o1 = Cardinality(orphaned \cup {i})
      BY <2>1, <1>2
    <3> QED
      BY <3>2, <3>3
  <2>4. pc = "batch" /\ pc' \in {"pass", "batch"} /\ UNCHANGED <<ahead, queued, pausing>>
    BY <1>9 DEF BatchUnknown, RQ!Orphan, AfterBatch
  <2>5. p = 10 /\ p1 = 10
    BY <2>4, <1>3 DEF Place
  <2>6. /\ a1 = a /\ q1 = q /\ d = 3 * b /\ d1 = 3 * b1 /\ t1 = t
    BY <1>d, <1>k, <2>4
  <2> QED
    BY <1>s, <1>f, <2>2, <2>3, <2>5, <2>6
<1>10. CASE WorkEnds
  <2>1. /\ pc \in {"work", "rework"}
        /\ pc' = IF pc = "work" THEN "drain" ELSE AfterBatch(batch)
        /\ UNCHANGED <<ahead, queued, orphaned, batch, pausing>>
    BY <1>10 DEF WorkEnds, queueVars
  <2>2. p1 < p
    BY <2>1, <1>3 DEF Place, AfterBatch
  <2>3. pc' # "restore" /\ pc # "restore"
    BY <2>1 DEF AfterBatch
  <2>4. a1 = a /\ q1 = q /\ o1 = o /\ d1 = d /\ t1 = t
    BY <1>d, <1>k, <2>1, <2>3
  <2> QED
    BY <1>s, <1>f, <2>2, <2>4
<1>11. CASE FinalFlush
  <2>1. /\ pc = "flush" /\ pc' = "restore" /\ batch = {} /\ batch' = orphaned /\ orphaned' = {}
        /\ UNCHANGED <<ahead, queued, pausing>>
    BY <1>11 DEF FinalFlush, RQ!TakeOrphaned, RunShape
  <2>2. b1 = o
    BY <2>1, <1>2
  <2>3. p = 8 /\ p1 = 7
    BY <2>1, <1>3 DEF Place
  <2> QED
    BY <1>s, <1>d, <1>k, <1>e, <2>1, <2>2, <2>3
<1>12. CASE Restore
  <2>1. PICK i \in batch : batch' = batch \ {i}
    BY <1>12 DEF Restore
  <2>2. b1 = b - 1
    BY <1>t, <2>1, OneLess, <1>2
  <2>3. pc = "restore" /\ UNCHANGED <<pc, ahead, queued, orphaned, pausing>>
    BY <1>12 DEF Restore, queueVars
  <2>4. p = 7 /\ p1 = 7
    BY <2>3, <1>3 DEF Place
  <2> QED
    BY <1>s, <1>d, <1>k, <2>2, <2>3, <2>4
<1>13. CASE Dispatch
  <2>1. /\ pc = "restore" /\ batch = {} /\ UNCHANGED batch
        /\ \/ pc' = "off" /\ ahead' = {} /\ queued' = {} /\ orphaned' = {}
           \/ pc' \in {"pendings", "orphans"} /\ UNCHANGED <<ahead, queued, orphaned, pausing>>
    BY <1>13 DEF Dispatch, DropGuard, TaskOver, RQ!DropQueue, queueVars
  <2>2. p = 7 /\ p1 <= 6 /\ (pc' = "off" => p1 = 0)
    BY <2>1, <1>3 DEF Place
  <2>3. d = 0 /\ d1 = 0
    BY <1>d, <1>k, <1>e, <2>1
  <2>4. CASE pc' = "off"
    <3>1. a1 = 0 /\ q1 = 0 /\ o1 = 0
      BY <1>e, <2>1, <2>4
    <3> QED
      BY <1>s, <1>f, <2>2, <2>3, <2>4, <3>1
  <2>5. CASE pc' # "off"
    <3>1. a1 = a /\ q1 = q /\ o1 = o /\ t1 = t
      BY <1>d, <1>k, <2>1, <2>5
    <3> QED
      BY <1>s, <1>f, <2>2, <2>3, <3>1
  <2> QED
    BY <2>4, <2>5
<1>14. CASE PauseRun
  <2>1. /\ pausing = TRUE /\ pausing' = FALSE
        /\ UNCHANGED <<pc, ahead, queued, orphaned, batch>>
    BY <1>14 DEF PauseRun, passVars, queueVars, TypeOK, ExecTypeOK
  <2>2. p1 = p /\ t = 1 /\ t1 = 0
    BY <2>1, <1>3 DEF Place, ToPause
  <2> QED
    BY <1>s, <1>d, <1>k, <2>1, <2>2
<1>15. CASE EndPendings \/ EndOrphans \/ EndCount \/ EndComplete
  <2>1. /\ <<pc, pc'>> \in {<<"pendings", "orphans">>, <<"orphans", "count">>,
                            <<"count", "complete">>, <<"complete", "release">>}
        /\ UNCHANGED <<ahead, queued, orphaned, batch, pausing>>
    BY <1>15 DEF EndPendings, EndOrphans, HandlerCancels, EndCount, EndComplete, queueVars
  <2>2. p1 < p
    BY <2>1, <1>3 DEF Place
  <2>3. /\ a1 = a /\ q1 = q /\ o1 = o /\ d = 3 * b /\ d1 = 3 * b /\ t1 = t
    BY <1>d, <1>k, <2>1
  <2> QED
    BY <1>s, <1>f, <2>2, <2>3
<1>16. CASE Release
  <2>1. /\ pc = "release" /\ pc' = "off" /\ ahead' = {} /\ queued' = {} /\ orphaned' = {}
        /\ UNCHANGED <<batch, pausing>>
    BY <1>16 DEF Release, DropGuard, TaskOver, RQ!DropQueue
  <2>2. p = 2 /\ p1 = 0
    BY <2>1, <1>3 DEF Place
  <2> QED
    BY <1>s, <1>d, <1>k, <1>e, <2>1, <2>2
<1> QED
  BY <1>4, <1>5, <1>6, <1>7, <1>8, <1>9, <1>10, <1>11, <1>12, <1>13, <1>14, <1>15, <1>16
     DEF Executor

\* What a step of nobody's task leaves of it.
LEMMA SameTask ==
  ASSUME TypeOK, UNCHANGED <<pc, ahead, batch, pausing>>,
         queued' \in {queued, {}}, orphaned' \in {orphaned, {}}
  PROVE  TaskLeft' <= TaskLeft
<1>1. UNCHANGED <<Place, Drained, ToPause>> /\ Cardinality(ahead)' = Cardinality(ahead)
  BY DEF Place, Drained, ToPause
<1>2. /\ Cardinality(queued)' \in {Cardinality(queued), 0}
      /\ Cardinality(orphaned)' \in {Cardinality(orphaned), 0}
  BY NoneLeft
<1> QED
  BY <1>1, <1>2, LeftType DEF TaskLeft

\* The boot task's steps, ...
LEMMA BootWindsDown ==
  ASSUME TypeOK, TypeOK', Boot
  PROVE  BootLeft' < BootLeft
<1>0. /\ Cardinality(bootTodo) \in Nat /\ bootTodo \subseteq Items /\ N \in Nat
      /\ Cardinality(bootTodo') \in Nat
  BY LeftType, ItemsFinite, PlanApplyAssumption DEF TypeOK, BootTypeOK
<1>1. CASE BootSweep
  BY <1>0, <1>1 DEF BootSweep, BootLeft
<1>2. CASE BootList
  <2>1. Cardinality(bootTodo') <= N
    <3>1. IsFiniteSet(Items) /\ Cardinality(Items) = N
      <4>1. 1 \in Int /\ N \in Int
        BY <1>0
      <4>2. /\ IsFiniteSet(1..N)
            /\ Cardinality(1..N) = IF 1 > N THEN 0 ELSE N - 1 + 1
        BY ONLY <4>1, FS_Interval, Zenon
      <4> QED
        BY <1>0, <4>2 DEF Items
    <3>2. bootTodo' \subseteq Items
      BY DEF TypeOK, BootTypeOK
    <3> QED
      BY <3>1, <3>2, FS_Subset
  <2> QED
    BY <1>0, <1>2, <2>1 DEF BootList, BootLeft
<1>3. CASE BootItem
  <2>1. PICK i \in bootTodo : bootTodo' = bootTodo \ {i} \/ bootPc' = "done"
    BY <1>3 DEF BootItem, IsFirst
  <2>2. Cardinality(bootTodo \ {i}) = Cardinality(bootTodo) - 1
    BY <1>0, OneLess
  <2>3. bootTodo' = bootTodo \ {i} => Cardinality(bootTodo') = Cardinality(bootTodo) - 1
    BY <2>2
  <2>4. Cardinality(bootTodo) >= 1
    <3>1. Cardinality(bootTodo \ {i}) \in Nat
      BY <1>0, ItemsFinite
    <3> QED
      BY <1>0, <2>2, <3>1
  <2>5. bootPc = "items" /\ bootPc' \in {"items", "done"}
    BY <1>3 DEF BootItem
  <2> QED
    BY <1>0, <2>1, <2>3, <2>4, <2>5 DEF BootLeft
<1> QED
  BY <1>1, <1>2, <1>3 DEF Boot

\* ... a command's, which also leaves the others where they are, ...
LEMMA CommandWindsDown ==
  ASSUME TypeOK, NEW c \in Callers, Command(c)
  PROVE  /\ CommandLeft(c)' < CommandLeft(c)
         /\ \A d \in Callers \ {c} : UNCHANGED cmd[d].at
<1>0. cmd \in [Callers -> Commands]
  BY DEF TypeOK, CmdTypeOK
<1>1. ASSUME NEW where, Goto(c, where)
      PROVE  cmd'[c].at = where /\ \A d \in Callers \ {c} : UNCHANGED cmd[d].at
  BY <1>0, <1>1 DEF Goto, Commands
<1>2. CASE Return(c)
  <2>1. cmd'[c].at = "idle" /\ \A d \in Callers \ {c} : UNCHANGED cmd[d].at
    BY <1>0, <1>2 DEF Return, NoCmd
  <2>2. /\ cmd[c].at # "idle"
    BY DEF Command, Load, Register, Claim, Spawn, LaunchFails, CancelSignal, CancelPendings,
       CancelOrphans, CancelRowsOf, CancelFinish, SkipWrite, SkipMark, RetryFlip, RetryPush,
       RetryUndo, At
  <2> QED
    BY <2>1, <2>2 DEF CommandLeft
<1>3. ASSUME NEW from, NEW to, cmd[c].at = from, cmd'[c].at = to,
             <<from, to>> \in {<<"load", "register">>, <<"register", "claim">>,
                <<"claim", "spawn">>, <<"paused", "pendings">>, <<"pendings", "orphans">>,
                <<"orphans", "finish">>, <<"write", "mark">>, <<"flip", "push">>,
                <<"push", "undo">>}
      PROVE  CommandLeft(c)' < CommandLeft(c)
  BY <1>3 DEF CommandLeft
<1>4. CASE Load(c)
  <2>1. cmd[c].at = "load" /\ cmd'[c].at = "register"
        /\ \A d \in Callers \ {c} : UNCHANGED cmd[d].at
    BY <1>0, <1>4 DEF Load, Commands
  <2> QED
    BY <1>3, <2>1
<1>5. CASE Register(c) /\ ~ Return(c)
  <2>1. cmd[c].at = "register" /\ cmd'[c].at = "claim"
        /\ \A d \in Callers \ {c} : UNCHANGED cmd[d].at
    BY <1>0, <1>5 DEF Register, Commands
  <2> QED
    BY <1>3, <2>1
<1>6. CASE Claim(c) /\ ~ Return(c)
  BY <1>1, <1>3, <1>6 DEF Claim
<1>7. CASE CancelSignal(c) /\ ~ Return(c)
  BY <1>1, <1>3, <1>7 DEF CancelSignal
<1>8. CASE (CancelPendings(c) \/ CancelOrphans(c)) /\ ~ Return(c)
  <2>1. /\ <<cmd[c].at, cmd'[c].at>> \in {<<"pendings", "orphans">>, <<"orphans", "finish">>}
        /\ \A d \in Callers \ {c} : UNCHANGED cmd[d].at
    BY <1>0, <1>8 DEF CancelPendings, CancelOrphans, CancelRowsOf, At, Commands
  <2> QED
    BY <1>3, <2>1
<1>9. CASE SkipWrite(c) /\ ~ Return(c)
  BY <1>1, <1>3, <1>9 DEF SkipWrite, At
<1>10. CASE RetryFlip(c) /\ ~ Return(c)
  BY <1>1, <1>3, <1>10 DEF RetryFlip, At
<1>11. CASE RetryPush(c) /\ ~ Return(c)
  BY <1>1, <1>3, <1>11 DEF RetryPush, At
<1> QED
  BY <1>2, <1>4, <1>5, <1>6, <1>7, <1>8, <1>9, <1>10, <1>11
     DEF Command, Spawn, LaunchFails, CancelFinish, SkipMark, RetryUndo

\* ... and those of everybody.
LEMMA WindsDownStep ==
  ASSUME TypeOK, TypeOK', RunShape, Next,
         TaskLeft \in Nat, BootLeft \in Nat, TaskLeft' \in Nat, BootLeft' \in Nat
  PROVE  WindsDown
<1>0. /\ TaskLeft \in Nat /\ BootLeft \in Nat /\ TaskLeft' \in Nat /\ BootLeft' \in Nat
  OBVIOUS
<1>1. Executor => TaskLeft' < TaskLeft
  BY TaskWindsDown
<1>2. Boot => BootLeft' < BootLeft
  BY BootWindsDown
<1>3. \A c \in Callers : Command(c) => CommandLeft(c)' < CommandLeft(c)
  BY CommandWindsDown
<1>4. TaskLeft' > TaskLeft => \E c \in Callers : Spawn(c) \/ RetryPush(c)
  <2>1. ASSUME NEW c \in Callers, Issue(c) \/ Command(c), ~ Spawn(c), ~ RetryPush(c)
        PROVE  TaskLeft' <= TaskLeft
    <3>1. UNCHANGED <<pc, ahead, batch, pausing>>
      BY <2>1 DEF Issue, ApplyRead, ResumeRead, Start, CancelRead, SkipCheck, RetryCheck,
         Command, Load, Register, Claim, LaunchFails, CancelSignal, CancelPendings,
         CancelOrphans, CancelRowsOf, CancelFinish, SkipWrite, SkipMark, RetryFlip,
         RetryUndo, execVars, passVars
    <3>2. queued' \in {queued, {}} /\ orphaned' \in {orphaned, {}}
      BY <2>1 DEF Issue, ApplyRead, ResumeRead, Start, CancelRead, SkipCheck, RetryCheck,
         Command, Load, Register, Claim, LaunchFails, CancelSignal, CancelPendings,
         CancelOrphans, CancelRowsOf, CancelFinish, SkipWrite, SkipMark, RetryFlip,
         RetryUndo, queueVars, DropGuard, RQ!NewQueue, RQ!DropQueue
    <3> QED
      BY <3>1, <3>2, SameTask
  <2>2. ASSUME Boot \/ UNCHANGED vars
        PROVE  TaskLeft' <= TaskLeft
    BY <2>2, SameTask DEF Boot, BootSweep, BootList, BootItem, vars, execVars, passVars,
       queueVars
  <2>3. ASSUME Crash
        PROVE  TaskLeft' <= TaskLeft
    <3>1. /\ pc' = "off" /\ ahead' = {} /\ batch' = {} /\ queued' = {} /\ orphaned' = {}
          /\ pausing' = FALSE
      BY <2>3 DEF Crash, TaskOver, DropGuard, RQ!DropQueue
    <3>2. TaskLeft' = 0
      BY <3>1, NoneLeft DEF TaskLeft, Place, Drained, ToPause
    <3> QED
      BY <1>0, <3>2
  <2> QED
    BY <1>0, <1>1, <2>1, <2>2, <2>3 DEF Next
<1>5. BootLeft' > BootLeft => Crash
  <2>1. ASSUME UNCHANGED bootVars
        PROVE  BootLeft' = BootLeft
    BY <2>1 DEF BootLeft, bootVars
  <2>2. ASSUME NEW c \in Callers, Issue(c) \/ Command(c)
        PROVE  UNCHANGED bootVars
    BY <2>2 DEF Issue, ApplyRead, ResumeRead, Start, CancelRead, SkipCheck, RetryCheck,
       Command, Load, Register, Claim, Spawn, LaunchFails, CancelSignal, CancelPendings,
       CancelOrphans, CancelRowsOf, CancelFinish, SkipWrite, SkipMark, RetryFlip, RetryPush,
       RetryUndo
  <2>3. ASSUME Executor
        PROVE  UNCHANGED bootVars
    BY <2>3 DEF Executor, PassCancelled, PassSkip, PassStart, PassComplete, Drain,
       BatchCancelled, BatchStart, BatchUnknown, WorkPauses, WorkEnds, FinalFlush,
       Restore, Dispatch, PauseRun, EndPendings, EndOrphans, HandlerCancels, EndCount,
       EndComplete, Release
  <2> QED
    BY <1>0, <1>2, <2>1, <2>2, <2>3 DEF Next, vars
<1>6. \A d \in Callers : CommandLeft(d)' > CommandLeft(d) => Issue(d)
  <2> SUFFICES ASSUME NEW d \in Callers, CommandLeft(d)' > CommandLeft(d) PROVE Issue(d)
    OBVIOUS
  <2>0. CommandLeft(d) \in Nat /\ CommandLeft(d)' \in Nat
    BY DEF CommandLeft
  <2>1. cmd'[d].at # cmd[d].at
    BY <2>0 DEF CommandLeft
  <2>2. ~ Crash
    BY <2>0 DEF Crash, NoCmd, CommandLeft
  <2>3. ASSUME NEW c \in Callers, Command(c)
        PROVE  FALSE
    BY <2>0, <2>1, <2>3, CommandWindsDown
  <2>4. ASSUME NEW c \in Callers, Issue(c), c # d
        PROVE  FALSE
    <3>1. cmd'[d] = cmd[d]
      BY <2>4 DEF Issue, ApplyRead, ResumeRead, Start, CancelRead, SkipCheck, RetryCheck,
         Begin, TypeOK, CmdTypeOK
    <3> QED
      BY <2>1, <3>1
  <2>5. ASSUME Executor \/ Boot
        PROVE  UNCHANGED cmd
    BY <2>5 DEF Executor, PassCancelled, PassSkip, PassStart, PassComplete, Drain,
       BatchCancelled, BatchStart, BatchUnknown, WorkPauses, WorkEnds, FinalFlush,
       Restore, Dispatch, PauseRun, EndPendings, EndOrphans, HandlerCancels, EndCount,
       EndComplete, Release, Boot, BootSweep, BootList, BootItem
  <2> QED
    BY <2>1, <2>2, <2>3, <2>4, <2>5 DEF Next, vars
<1> QED
  BY <1>1, <1>2, <1>3, <1>4, <1>5, <1>6 DEF WindsDown

\* FR-009: a run, a command and the boot task use up what they have to do, so
\* none of them goes on for ever; any users, crashes and failed writes.
THEOREM WorkRunsOut == Spec => [][WindsDown]_vars
<1> DEFINE LeftOK == TaskLeft \in Nat /\ BootLeft \in Nat
<1>3. TypeOK => LeftOK
  BY LeftType
<1>1. TypeOK /\ TypeOK' /\ LeftOK /\ LeftOK' /\ RunShape /\ [Next]_vars => [WindsDown]_vars
  BY WindsDownStep
<1>2. Kept => RunShape
  BY DEF Kept
<1> QED
  BY <1>1, <1>2, <1>3, TypeCorrect, KeptInvariant, PTL DEF Spec
=============================================================================
