-------------------------- MODULE ItemCustodyProofs -------------------------
(***************************************************************************)
(* Theorems of ItemCustody, for any kinds of item and any number of runs,  *)
(* failing calls, crashes and power losses.                                *)
(***************************************************************************)
EXTENDS ItemCustody, SequenceTheorems, TLAPS

-----------------------------------------------------------------------------
(* The committed states.  The proofs see the log through the set of its    *)
(* states and the last of them.                                            *)

Entry == [plan : PlanStates, item : ItemStates]
Entries == {log[n] : n \in 1 .. Len(log)}

\* The log holds at least one committed state.
LogOK == log \in Seq(Entry) /\ Len(log) > 0

\* The current state of the database is one of the committed ones.
LEMMA CurrentIsEntry ==
  ASSUME LogOK
  PROVE  db \in Entries /\ db \in Entry /\ Entries \subseteq Entry
<1>1. Len(log) \in Nat /\ Len(log) \in 1 .. Len(log)
  BY DEF LogOK
<1>2. \A n \in 1 .. Len(log) : log[n] \in Entry
  BY ElementOfSeq DEF LogOK
<1> QED
  BY <1>1, <1>2 DEF db, Entries

\* A commit adds a state, which becomes the current one.
LEMMA CommitLog ==
  ASSUME LogOK, NEW e \in Entry, log' = Append(log, e)
  PROVE  LogOK' /\ db' = e /\ Entries' \subseteq Entries \cup {e}
<1>1. /\ log' \in Seq(Entry) /\ Len(log') = Len(log) + 1
      /\ \A n \in 1 .. Len(log) : log'[n] = log[n]
      /\ log'[Len(log) + 1] = e
  BY AppendProperties DEF LogOK
<1>2. Len(log) \in Nat
  BY DEF LogOK
<1>3. LogOK' /\ db' = e
  BY <1>1, <1>2 DEF LogOK, db
<1>4. ASSUME NEW n \in 1 .. Len(log')
      PROVE  log'[n] \in Entries \cup {e}
  <2>1. n \in 1 .. Len(log) \/ n = Len(log) + 1
    BY <1>1, <1>2
  <2> QED
    BY <1>1, <2>1 DEF Entries
<1> QED
  BY <1>3, <1>4 DEF Entries

\* A checkpoint leaves the current state only.
LEMMA CheckpointLog ==
  ASSUME LogOK, log' = <<db>>
  PROVE  LogOK' /\ db' = db /\ Entries' = {db} /\ Entries' \subseteq Entries
<1>1. db \in Entries /\ db \in Entry
  BY CurrentIsEntry
<1>2. log' \in Seq(Entry) /\ Len(log') = 1 /\ log'[1] = db
  BY <1>1
<1> HIDE DEF db
<1>3. db' = db
  BY <1>2 DEF db
<1> QED
  BY <1>1, <1>2, <1>3 DEF LogOK, Entries

\* A cut leaves a first part, whose last state becomes the current one.
LEMMA CutLog ==
  ASSUME LogOK, NEW n \in 1 .. Len(log), log' = SubSeq(log, 1, n)
  PROVE  /\ LogOK' /\ db' = log[n] /\ Entries' \subseteq Entries
         /\ n = Len(log) => db' = db
<1>1. Len(log) \in Nat /\ \A i \in 1 .. Len(log) : log[i] \in Entry
  BY ElementOfSeq DEF LogOK
<1>2. /\ log' \in Seq(Entry)
      /\ Len(log') = IF 1 <= n THEN n - 1 + 1 ELSE 0
      /\ \A i \in 1 .. n - 1 + 1 : log'[i] = log[1 + i - 1]
  <2>1. \A i \in 1 .. n : log[i] \in Entry
    BY <1>1
  <2> QED
    BY <1>1, <2>1, SubSeqProperties
<1>3. Len(log') = n /\ \A i \in 1 .. n : log'[i] = log[i]
  BY <1>1, <1>2
<1>4. LogOK' /\ db' = log[n]
  BY <1>1, <1>2, <1>3 DEF LogOK, db
<1>5. Entries' \subseteq Entries
  BY <1>1, <1>3 DEF Entries
<1> QED
  BY <1>4, <1>5 DEF db

-----------------------------------------------------------------------------
(* Type correctness.                                                       *)

Steps == AllKinds \cup {"off", "sync", "run", "check", "delete", "undo", "write",
                        "done", "failed", "down", "reconcile"}

\* What a commit of a plan's or an item's state does to the log ...
LEMMA CommitPlanLog ==
  ASSUME LogOK, NEW s \in PlanStates, CommitPlan(s)
  PROVE  /\ LogOK' /\ db'.plan = s /\ db'.item = db.item
         /\ Entries' \subseteq Entries \cup {db'}
<1>1. db \in Entry
  BY CurrentIsEntry
<1> DEFINE e == [db EXCEPT !.plan = s]
<1>2. e \in Entry /\ e.plan = s /\ e.item = db.item
  BY <1>1 DEF Entry
<1>3. log' = Append(log, e)
  BY DEF CommitPlan
<1> HIDE DEF e
<1> QED
  BY <1>2, <1>3, CommitLog

LEMMA CommitItemLog ==
  ASSUME LogOK, NEW s \in ItemStates, CommitItem(s)
  PROVE  /\ LogOK' /\ db'.item = s /\ db'.plan = db.plan
         /\ Entries' \subseteq Entries \cup {db'}
<1>1. db \in Entry
  BY CurrentIsEntry
<1> DEFINE e == [db EXCEPT !.item = s]
<1>2. e \in Entry /\ e.item = s /\ e.plan = db.plan
  BY <1>1 DEF Entry
<1>3. log' = Append(log, e)
  BY DEF CommitItem
<1> HIDE DEF e
<1> QED
  BY <1>2, <1>3, CommitLog

\* ... so that it holds committed states after every step.
LEMMA LogStep ==
  ASSUME TypeOK, Next
  PROVE  LogOK'
<1>1. LogOK
  BY DEF TypeOK, LogOK, Entry
<1>2. CASE Claim \/ Leave \/ (BootSweep /\ db.plan = "applying")
  BY <1>1, <1>2, CommitPlanLog DEF Claim, Leave, BootSweep, PlanStates
<1>3. CASE Retry \/ Record \/ BootReconcile
  <2>1. UNCHANGED log \/ \E s \in ItemStates : CommitItem(s)
    BY <1>3 DEF Retry, Record, BootReconcile, ItemStates
  <2> QED
    BY <1>1, <2>1, CommitItemLog DEF LogOK
<1>4. CASE Sync \/ AutoCheckpoint
  BY <1>1, <1>4, CheckpointLog DEF Sync, AutoCheckpoint, LogOK
<1>5. CASE Crash \/ PowerLoss
  <2>1. PICK n \in 1 .. Len(log) : Cut(n)
    BY <1>1, <1>5 DEF Crash, PowerLoss, LogOK
  <2> QED
    BY <1>1, <2>1, CutLog DEF Cut
<1>6. CASE \/ Start \/ Check \/ Rename \/ Copy \/ DeleteSource \/ Undo \/ Make \/ WriteFirst
           \/ WriteRest \/ CallFails \/ Outsider \/ (BootSweep /\ db.plan # "applying")
  <2>1. UNCHANGED log
    BY <1>6 DEF Start, Check, Rename, Copy, DeleteSource, Undo, Make, WriteFirst, WriteRest,
                CallFails, Outsider, BootSweep
  <2> QED
    BY <1>1, <2>1 DEF LogOK
<1> QED
  BY <1>2, <1>3, <1>4, <1>5, <1>6 DEF Next

\* Every step keeps the two paths, the log and the steps well typed.
LEMMA TypeStep ==
  ASSUME TypeOK, [Next]_custodyVars
  PROVE  TypeOK'
<1>1. CASE Next
  <2>1. log' \in Seq([plan : PlanStates, item : ItemStates]) /\ Len(log') > 0
    BY <1>1, LogStep DEF LogOK, Entry
  <2>2. tries' \in Nat /\ fails' \in Nat /\ cuts' \in Nat
    BY <1>1 DEF Next, TypeOK, Claim, Sync, AutoCheckpoint, Start, Retry, Check, Rename, Copy,
       DeleteSource, Undo, Make, WriteFirst, WriteRest, CallFails, Record, Leave, Crash,
       PowerLoss, Cut, BootSweep, BootReconcile, Outsider, counts
  <2>3. src' \in {"none", "file"} /\ dst' \in {"none", "file", "part", "other"}
    BY <1>1 DEF Next, TypeOK, Claim, Sync, AutoCheckpoint, Start, Retry, Check, Rename, Copy,
       DeleteSource, Undo, Make, WriteFirst, WriteRest, CallFails, Record, Leave, Crash,
       PowerLoss, Cut, BootSweep, BootReconcile, Outsider, disk
  <2>4. kind' \in Kinds /\ halfBoot' \in BOOLEAN
    BY <1>1 DEF Next, TypeOK, Claim, Sync, AutoCheckpoint, Start, Retry, Check, Rename, Copy,
       DeleteSource, Undo, Make, WriteFirst, WriteRest, CallFails, Record, Leave, Crash,
       PowerLoss, Cut, BootSweep, BootReconcile, Outsider
  <2>5. pc' \in Steps
    <3>1. kind \in AllKinds
      BY CustodyAssumption DEF TypeOK
    <3> QED
      BY <1>1, <3>1 DEF Next, TypeOK, Claim, Sync, AutoCheckpoint, Start, Retry, Check, Rename,
         Copy, DeleteSource, Undo, Make, WriteFirst, WriteRest, CallFails, Record, Leave, Crash,
         PowerLoss, Cut, BootSweep, BootReconcile, Outsider, Goto, Steps
  <2> QED
    BY <2>1, <2>2, <2>3, <2>4, <2>5 DEF TypeOK, Steps
<1>2. CASE UNCHANGED custodyVars
  BY <1>2 DEF custodyVars, disk, counts, TypeOK
<1> QED
  BY <1>1, <1>2

\* An approved plan with its file at the source is well typed.
LEMMA TypeStarts ==
  ASSUME Init
  PROVE  TypeOK /\ Len(log) = 1 /\ db = [plan |-> "approved", item |-> "pending"]
<1> DEFINE first == [plan |-> "approved", item |-> "pending"]
<1>1. first \in [plan : PlanStates, item : ItemStates] /\ log = <<first>>
  BY DEF Init, PlanStates, ItemStates
<1> HIDE DEF first
<1>2. log \in Seq([plan : PlanStates, item : ItemStates]) /\ Len(log) = 1 /\ log[1] = first
  BY <1>1
<1>3. /\ kind \in Kinds /\ src = "file" /\ dst = "none" /\ pc = "off"
      /\ tries \in Nat /\ fails \in Nat /\ cuts \in Nat
  BY DEF Init
<1>4. halfBoot \in BOOLEAN
  BY DEF Init
<1>5. TypeOK
  BY <1>2, <1>3, <1>4 DEF TypeOK
<1> QED
  BY <1>2, <1>5 DEF db, first

\* The two paths, the log and the steps stay well typed.
THEOREM CustodyTypeCorrect == Spec => []TypeOK
<1>1. TypeOK /\ [Next]_custodyVars => TypeOK'
  BY TypeStep
<1> QED
  BY <1>1, TypeStarts, PTL DEF Spec

-----------------------------------------------------------------------------
(* Custody: what the step the executor is at says of the two paths.        *)

\* Where a run can be while it works on the item.
Busy == AllKinds \cup {"run", "check", "delete", "undo", "write", "done", "failed"}

\* The step fits the kind of the item, and the paths fit the step.
StepFits ==
  /\ pc \in AllKinds => pc = kind
  /\ pc \in {"delete", "undo"} => kind = "cross" /\ src = "file" /\ dst = "file"
  /\ pc = "write" => kind = "copy"
  /\ pc = "cross" => src = "file"
  /\ pc = "done" => Done

\* What the paths of each kind can hold.
PathsFit ==
  /\ kind \in AllKinds
  /\ kind \in {"create", "link", "copy"} => src = "file"
  /\ kind \notin Relocates \cup {"trash"} => dst # "other"
  /\ kind = "remove" => dst = "none"

\* No committed state says `succeeded` of an item whose effect is not there.
RecordedIsDone == \A e \in Entries : e.item = "succeeded" => Done

Custody == StepFits /\ PathsFit /\ NeverLost /\ RecordedIsDone

\* A system call acts on the paths as the item's kind says, and an effect that
\* is there stays.
LEMMA DiskStep ==
  ASSUME TypeOK, Custody,
         Rename \/ Copy \/ DeleteSource \/ Undo \/ Make \/ WriteFirst \/ WriteRest \/ Outsider
  PROVE  StepFits' /\ PathsFit' /\ NeverLost' /\ UNCHANGED log /\ (Done => Done')
<1>1. CASE Rename
  BY <1>1 DEF Rename, Goto, Custody, StepFits, PathsFit, NeverLost, Done, Relocates,
     Removes, AllKinds
<1>2. CASE Copy
  BY <1>2 DEF Copy, Goto, Custody, StepFits, PathsFit, NeverLost, Done, Relocates,
     Removes, AllKinds
<1>3. CASE DeleteSource
  BY <1>3 DEF DeleteSource, Goto, Custody, StepFits, PathsFit, NeverLost, Done, Relocates,
     Removes, AllKinds
<1>4. CASE Undo
  BY <1>4 DEF Undo, Goto, Custody, StepFits, PathsFit, NeverLost, Done, Relocates,
     Removes, AllKinds
<1>5. CASE Make
  BY <1>5 DEF Make, Goto, Custody, StepFits, PathsFit, NeverLost, Done, Relocates,
     Removes, AllKinds
<1>6. CASE WriteFirst
  BY <1>6 DEF WriteFirst, Goto, Custody, StepFits, PathsFit, NeverLost, Done, Relocates,
     Removes, AllKinds
<1>7. CASE WriteRest
  BY <1>7 DEF WriteRest, Goto, Custody, StepFits, PathsFit, NeverLost, Done, Relocates,
     Removes, AllKinds
<1>8. CASE Outsider
  BY <1>8 DEF Outsider, Goto, Custody, StepFits, PathsFit, NeverLost, Done, Relocates,
     Removes, AllKinds
<1> QED
  BY <1>1, <1>2, <1>3, <1>4, <1>5, <1>6, <1>7, <1>8

\* The other steps leave the paths alone.
LEMMA PathsKept ==
  ASSUME TypeOK, Custody,
         \/ Claim \/ Sync \/ AutoCheckpoint \/ Start \/ Retry \/ Check \/ CallFails \/ Record
         \/ Leave \/ Crash \/ PowerLoss \/ BootSweep \/ BootReconcile
  PROVE  StepFits' /\ PathsFit' /\ NeverLost' /\ UNCHANGED <<kind, src, dst>> /\ Done' = Done
<1>1. UNCHANGED <<kind, src, dst>>
  BY DEF Claim, Sync, AutoCheckpoint, Start, Retry, Check, CallFails, Record, Leave, Crash,
     PowerLoss, Cut, BootSweep, BootReconcile, disk
<1>2. PathsFit' /\ NeverLost' /\ Done' = Done
  BY <1>1 DEF Custody, PathsFit, NeverLost, Done
<1>3. StepFits'
  <2>1. CASE Check
    <3>1. pc' = kind \/ pc' = "failed"
      BY <2>1 DEF Check, Goto
    <3>2. pc' = kind /\ kind = "cross" => src = "file"
      BY <2>1 DEF Check, Goto, Refused, TypeOK
    <3> QED
      BY <1>1, <3>1, <3>2 DEF StepFits, Custody, PathsFit, AllKinds
  <2>2. CASE CallFails
    BY <1>1, <2>2 DEF CallFails, Goto, StepFits, Custody, AllKinds
  <2>3. CASE AutoCheckpoint
    BY <1>1, <1>2, <2>3 DEF AutoCheckpoint, StepFits, Custody
  <2>4. CASE \/ Claim \/ Sync \/ Start \/ Retry \/ Record \/ Leave \/ Crash \/ PowerLoss
             \/ BootSweep \/ BootReconcile
    <3>1. pc' \in {"sync", "run", "check", "off", "down", "reconcile"}
      BY <2>4 DEF Claim, Sync, Start, Retry, Record, Leave, Crash, PowerLoss, Cut, BootSweep,
         BootReconcile, Goto
    <3> QED
      BY <3>1 DEF StepFits, AllKinds
  <2> QED
    BY <2>1, <2>2, <2>3, <2>4
<1> QED
  BY <1>1, <1>2, <1>3

\* The record says `succeeded` only of an effect that is there.
LEMMA RecordStep ==
  ASSUME TypeOK, Custody,
         \/ Claim \/ Sync \/ AutoCheckpoint \/ Start \/ Retry \/ Check \/ CallFails \/ Record
         \/ Leave \/ Crash \/ PowerLoss \/ BootSweep \/ BootReconcile
  PROVE  RecordedIsDone'
<1>1. Done' = Done /\ LogOK /\ db \in Entries
  BY PathsKept, CurrentIsEntry DEF TypeOK, LogOK, Entry
<1>2. CASE Entries' \subseteq Entries
  BY <1>1, <1>2 DEF Custody, RecordedIsDone
<1>3. CASE UNCHANGED log
  BY <1>2, <1>3 DEF Entries
<1>4. ASSUME Entries' \subseteq Entries \cup {db'}, db'.item = "succeeded" => Done
      PROVE  RecordedIsDone'
  BY <1>1, <1>4 DEF Custody, RecordedIsDone
<1>5. CASE Claim \/ Leave \/ (BootSweep /\ db.plan = "applying")
  <2>1. db'.item = db.item /\ Entries' \subseteq Entries \cup {db'}
    BY <1>1, <1>5, CommitPlanLog DEF Claim, Leave, BootSweep, PlanStates
  <2>2. db.item = "succeeded" => Done
    BY <1>1 DEF Custody, RecordedIsDone
  <2> QED
    BY <1>4, <2>1, <2>2
<1>6. CASE Sync \/ AutoCheckpoint
  BY <1>1, <1>2, <1>3, <1>6, CheckpointLog DEF Sync, AutoCheckpoint
<1>7. CASE Crash \/ PowerLoss
  <2>1. PICK n \in 1 .. Len(log) : Cut(n)
    BY <1>1, <1>7 DEF Crash, PowerLoss, LogOK
  <2> QED
    BY <1>1, <1>2, <2>1, CutLog DEF Cut
<1>8. CASE Start \/ Check \/ CallFails \/ (BootSweep /\ db.plan # "applying")
  BY <1>3, <1>8 DEF Start, Check, CallFails, BootSweep
<1>9. CASE Retry
  <2>1. db'.item = "applying" /\ Entries' \subseteq Entries \cup {db'}
    BY <1>1, <1>9, CommitItemLog DEF Retry, ItemStates
  <2> QED
    BY <1>4, <2>1
<1>10. CASE Record
  <2>1. PICK s \in ItemStates : CommitItem(s) /\ (s = "succeeded" => pc = "done")
    BY <1>10 DEF Record, ItemStates
  <2>2. db'.item = s /\ Entries' \subseteq Entries \cup {db'}
    BY <1>1, <2>1, CommitItemLog
  <2> QED
    BY <1>4, <2>1, <2>2 DEF Custody, StepFits
<1>11. CASE BootReconcile
  <2>1. \/ UNCHANGED log
        \/ \E s \in ItemStates, resolved \in BOOLEAN :
             CommitItem(s) /\ (s = "succeeded" => Verdict(resolved) = "completed")
    BY <1>11 DEF BootReconcile, ItemStates
  <2>2. \A resolved \in BOOLEAN : Verdict(resolved) = "completed" => Done
    BY DEF Verdict, Present, Done, Custody, PathsFit, TypeOK, Relocates, Removes, AllKinds
  <2>3. ASSUME NEW s \in ItemStates, CommitItem(s), s = "succeeded" => Done
        PROVE  RecordedIsDone'
    <3>1. db'.item = s /\ Entries' \subseteq Entries \cup {db'}
      BY <1>1, <2>3, CommitItemLog
    <3> QED
      BY <1>4, <2>3, <3>1
  <2> QED
    BY <1>3, <2>1, <2>2, <2>3
<1> QED
  BY <1>5, <1>6, <1>7, <1>8, <1>9, <1>10, <1>11

\* Every step keeps custody.
LEMMA CustodyStep ==
  ASSUME TypeOK, Custody, [Next]_custodyVars
  PROVE  Custody'
<1>1. CASE \/ Rename \/ Copy \/ DeleteSource \/ Undo \/ Make \/ WriteFirst \/ WriteRest
           \/ Outsider
  <2>1. StepFits' /\ PathsFit' /\ NeverLost' /\ UNCHANGED log /\ (Done => Done')
    BY <1>1, DiskStep
  <2> QED
    BY <2>1 DEF Custody, RecordedIsDone, Entries
<1>2. CASE \/ Claim \/ Sync \/ AutoCheckpoint \/ Start \/ Retry \/ Check \/ CallFails \/ Record
           \/ Leave \/ Crash \/ PowerLoss \/ BootSweep \/ BootReconcile
  BY <1>2, PathsKept, RecordStep DEF Custody
<1>3. CASE UNCHANGED custodyVars
  BY <1>3 DEF custodyVars, disk, counts, Custody, StepFits, PathsFit, NeverLost, RecordedIsDone,
     Entries, Done
<1> QED
  BY <1>1, <1>2, <1>3 DEF Next

\* Custody holds in every reachable state.
LEMMA AlwaysCustody == Spec => [](TypeOK /\ Custody)
<1>1. Init => TypeOK /\ Custody
  <2> SUFFICES ASSUME Init
               PROVE  TypeOK /\ Custody
    OBVIOUS
  <2>1. TypeOK /\ log = << [plan |-> "approved", item |-> "pending"] >>
    BY TypeStarts DEF Init
  <2>2. StepFits /\ NeverLost
    BY DEF Init, StepFits, NeverLost, AllKinds, Relocates
  <2>3. PathsFit
    BY CustodyAssumption DEF Init, PathsFit, AllKinds, Relocates
  <2>4. RecordedIsDone
    <3>1. \A e \in Entries : e = [plan |-> "approved", item |-> "pending"]
      BY <2>1 DEF Entries
    <3> QED
      BY <3>1 DEF RecordedIsDone
  <2> QED
    BY <2>1, <2>2, <2>3, <2>4 DEF Custody
<1>2. TypeOK /\ Custody /\ [Next]_custodyVars => (TypeOK /\ Custody)'
  BY TypeStep, CustodyStep
<1> QED
  BY <1>1, <1>2, PTL DEF Spec

\* Constitution V of the product, for every sequence of failing calls, crashes
\* and power losses: a file that is moved is at its source or its destination.
THEOREM FileIsNeverLost == Spec => []NeverLost
<1>1. Custody => NeverLost
  BY DEF Custody
<1> QED
  BY <1>1, AlwaysCustody, PTL

-----------------------------------------------------------------------------
(* The item keeps the promise of ItemEffect.                               *)

\* The effect happens once, stays, and is recorded only when it happened.
THEOREM ItemEffectKept == Spec => KeepsCustody
<1>1. Init => Effect!Init
  <2>1. Init => ~ Done
    BY DEF Init, Done
  <2> QED
    BY <2>1, TypeStarts DEF Effect!Init
<1>2. TypeOK /\ Custody /\ [Next]_custodyVars => [Effect!Next]_<<Done, db.item>>
  <2> SUFFICES ASSUME TypeOK, Custody, [Next]_custodyVars
               PROVE  [Effect!Next]_<<Done, db.item>>
    OBVIOUS
  <2>1. TypeOK' /\ Custody'
    BY TypeStep, CustodyStep
  <2>2. CASE \/ Rename \/ Copy \/ DeleteSource \/ Undo \/ Make \/ WriteFirst \/ WriteRest
             \/ Outsider
    <3>1. UNCHANGED log /\ (Done => Done')
      BY <2>2, DiskStep
    <3>2. db'.item = db.item
      BY <3>1 DEF db
    <3>3. CASE ~ Done /\ Done'
      <4>1. Done' = TRUE
        BY <3>3 DEF Done
      <4> QED
        BY <3>2, <3>3, <4>1 DEF Effect!Next, Effect!Do
    <3>4. CASE Done \/ ~ Done'
      <4>1. Done' = Done
        BY <3>1, <3>4 DEF Done
      <4> QED
        BY <3>2, <4>1
    <3> QED
      BY <3>3, <3>4
  <2>3. CASE \/ Claim \/ Sync \/ AutoCheckpoint \/ Start \/ Retry \/ Check \/ CallFails
             \/ Record \/ Leave \/ Crash \/ PowerLoss \/ BootSweep \/ BootReconcile
    <3>1. Done' = Done
      BY <2>3, PathsKept
    <3>2. (db \in Entries /\ db \in Entry)'
      <4>1. LogOK'
        BY <2>1 DEF TypeOK, LogOK, Entry
      <4>2. /\ Len(log') \in Nat /\ Len(log') \in 1 .. Len(log')
            /\ \A n \in 1 .. Len(log') : log'[n] \in Entry
        BY <4>1, ElementOfSeq DEF LogOK
      <4> QED
        BY <4>2 DEF db, Entries
    <3>3. db'.item \in Effect!Records
      BY <3>2 DEF Entry, ItemStates, Effect!Records
    <3>4. db'.item = "succeeded" => Done
      BY <2>1, <3>1, <3>2 DEF Custody, RecordedIsDone
    <3> QED
      BY <3>1, <3>3, <3>4 DEF Effect!Next, Effect!Note
  <2>4. CASE UNCHANGED custodyVars
    BY <2>4 DEF custodyVars, disk, counts, Done, db
  <2> QED
    BY <2>2, <2>3, <2>4 DEF Next
<1> QED
  BY <1>1, <1>2, AlwaysCustody, PTL DEF Spec, KeepsCustody, Effect!Spec

-----------------------------------------------------------------------------
(* Intent.  This is what the checkpoint is for, so its failure is ruled    *)
(* out.                                                                    *)

\* The item's effect, or a part of it, is on disk.
Touched == src = "none" \/ dst \in {"file", "part"}

\* A run that works, or has left its mark, is known to every committed state;
\* and while a run is under way the plan is `applying`.
Known ==
  /\ pc \in Busy \/ Touched => \A e \in Entries : e.plan # "approved"
  /\ pc \in Busy \cup {"sync"} => db.plan = "applying"

\* Every step keeps the intent ahead of the effect.
LEMMA KnownStep ==
  ASSUME SyncFails = FALSE, TypeOK, Known, [Next]_custodyVars
  PROVE  Known'
<1>1. LogOK /\ db \in Entries /\ kind \in AllKinds
  BY CurrentIsEntry, CustodyAssumption DEF TypeOK, LogOK, Entry
<1>2. CASE \/ Start \/ Check \/ CallFails \/ Rename \/ Copy \/ DeleteSource \/ Undo \/ Make
           \/ WriteFirst \/ WriteRest
  <2>1. pc \in Busy /\ pc' \in Busy
    BY <1>1, <1>2, CustodyAssumption DEF Start, Check, CallFails, Rename, Copy, DeleteSource, Undo,
       Make, WriteFirst, WriteRest, Goto, Busy, AllKinds,
       Removes
  <2>2. UNCHANGED log
    BY <1>2 DEF Start, Check, CallFails, Rename, Copy, DeleteSource, Undo, Make, WriteFirst,
       WriteRest
  <2> QED
    BY <2>1, <2>2 DEF Known, Entries, db
<1>3. CASE Claim
  <2>1. db'.plan = "applying" /\ Entries' \subseteq Entries \cup {db'}
    BY <1>1, <1>3, CommitPlanLog DEF Claim, PlanStates
  <2>2. pc' = "sync" /\ Touched' = Touched
    BY <1>3 DEF Claim, Goto, disk, Touched
  <2> QED
    BY <2>1, <2>2 DEF Known, Busy, AllKinds
<1>4. CASE Sync
  <2>1. log' = <<db>> /\ pc = "sync" /\ pc' = "run"
    BY <1>4 DEF Sync, Goto
  <2>2. db' = db /\ Entries' = {db}
    BY <1>1, <2>1, CheckpointLog
  <2> QED
    BY <2>1, <2>2 DEF Known
<1>5. CASE AutoCheckpoint
  <2>1. db' = db /\ Entries' \subseteq Entries
    BY <1>1, <1>5, CheckpointLog DEF AutoCheckpoint
  <2>2. pc' = pc /\ Touched' = Touched
    BY <1>5 DEF AutoCheckpoint, disk, Touched
  <2> QED
    BY <2>1, <2>2 DEF Known
<1>6. CASE Retry \/ Record \/ BootReconcile
  <2>1. \/ UNCHANGED log
        \/ db'.plan = db.plan /\ Entries' \subseteq Entries \cup {db'}
    <3>1. UNCHANGED log \/ \E s \in ItemStates : CommitItem(s)
      BY <1>6 DEF Retry, Record, BootReconcile, ItemStates
    <3> QED
      BY <1>1, <3>1, CommitItemLog
  <2>2. Touched' = Touched
    BY <1>6 DEF Retry, Record, BootReconcile, disk, Touched
  <2>3. pc \in Busy \/ pc' = "off"
    BY <1>6 DEF Retry, Record, BootReconcile, Goto, Busy
  <2>4. "off" \notin Busy \cup {"sync"}
    BY DEF Busy, AllKinds
  <2>5. CASE UNCHANGED log
    BY <2>2, <2>3, <2>4, <2>5 DEF Known, Entries, db
  <2>6. CASE db'.plan = db.plan /\ Entries' \subseteq Entries \cup {db'}
    BY <1>1, <2>2, <2>3, <2>4, <2>6 DEF Known
  <2> QED
    BY <2>1, <2>5, <2>6
<1>7. CASE Leave \/ (BootSweep /\ db.plan = "applying")
  <2>1. db'.plan # "approved" /\ Entries' \subseteq Entries \cup {db'}
    BY <1>1, <1>7, CommitPlanLog DEF Leave, BootSweep, PlanStates
  <2>2. pc' \notin Busy \cup {"sync"} /\ Touched' = Touched
    BY <1>7 DEF Leave, BootSweep, Goto, disk, Touched, Busy, AllKinds
  <2> QED
    BY <2>1, <2>2 DEF Known
<1>8. CASE Crash \/ PowerLoss
  <2>1. PICK n \in 1 .. Len(log) : Cut(n)
    BY <1>1, <1>8 DEF Crash, PowerLoss, LogOK
  <2>2. Entries' \subseteq Entries
    BY <1>1, <2>1, CutLog DEF Cut
  <2>3. pc' \notin Busy \cup {"sync"} /\ Touched' = Touched
    BY <2>1 DEF Cut, Goto, disk, Touched, Busy, AllKinds
  <2> QED
    BY <2>2, <2>3 DEF Known
<1>9. CASE Outsider \/ (BootSweep /\ db.plan # "applying")
  <2>1. UNCHANGED log /\ pc' \notin Busy \cup {"sync"} /\ (Touched' => Touched)
    BY <1>9 DEF Outsider, BootSweep, Goto, disk, Touched, Busy, AllKinds
  <2> QED
    BY <2>1 DEF Known, Entries, db
<1>10. CASE UNCHANGED custodyVars
  BY <1>10 DEF custodyVars, disk, counts, Known, Touched, Entries, db
<1> QED
  BY <1>2, <1>3, <1>4, <1>5, <1>6, <1>7, <1>8, <1>9, <1>10 DEF Next

\* If the checkpoint of the intent does not fail, no power loss leaves a
\* database that does not know of a run that touched the file system.
THEOREM IntentComesFirst ==
  ASSUME SyncFails = FALSE
  PROVE  Spec => []IntentBeforeEffect
<1>1. Init => Known
  BY TypeStarts DEF Init, Known, Touched, Busy, AllKinds
<1>2. TypeOK /\ Known /\ [Next]_custodyVars => (TypeOK /\ Known)'
  BY TypeStep, KnownStep
<1>3. Known => IntentBeforeEffect
  BY DEF Known, Touched, Entries, IntentBeforeEffect
<1>4. Init => TypeOK
  BY TypeStarts
<1> QED
  BY <1>1, <1>2, <1>3, <1>4, PTL DEF Spec

-----------------------------------------------------------------------------
(* What the resume finds.  The checkpoint does not fail here either: a     *)
(* database that lost the intent would start the item again.               *)

Fresh == db.item = "pending" /\ ~ halfBoot

\* An item that is still to be run, or was left to the resume by a pause or by
\* boot reconciliation, has not touched the disk.
Left ==
  /\ pc \in {"sync", "run", "check"} /\ Fresh => ~ Touched
  /\ pc \in {"off", "down"} /\ db.plan = "paused" /\ Fresh => ~ Touched

\* A cut leaves a plan paused only where it was paused before.
LEMMA LeftByCut ==
  ASSUME TypeOK, Known, Left, Crash \/ PowerLoss
  PROVE  Left'
<1>1. LogOK
  BY DEF TypeOK, LogOK, Entry
<1>2. PICK n \in 1 .. Len(log) : Cut(n)
  BY <1>1 DEF Crash, PowerLoss, LogOK
<1>3. pc' = "down" /\ Touched' = Touched
  BY <1>2 DEF Cut, Goto, disk, Touched
<1>4. CASE halfBoot'
  BY <1>3, <1>4 DEF Left, Fresh
<1>5. CASE ~ halfBoot'
  <2>1. ~ halfBoot /\ pc # "reconcile" /\ (n < Len(log) => log[n].plan # "paused")
    BY <1>2, <1>5 DEF Cut, TypeOK
  <2>2. db' = log[n] /\ (n = Len(log) => db' = db)
    BY <1>1, <1>2, CutLog DEF Cut
  <2>3. CASE n = Len(log) /\ db.plan = "paused"
    <3>1. pc \in {"off", "down"}
      BY <2>1, <2>3 DEF Known, TypeOK, Busy
    <3> QED
      BY <1>3, <2>1, <2>2, <2>3, <3>1 DEF Left, Fresh
  <2>4. CASE db'.plan # "paused"
    BY <1>3, <2>4 DEF Left
  <2>5. n < Len(log) \/ n = Len(log)
    BY <1>1 DEF LogOK
  <2> QED
    BY <2>1, <2>2, <2>3, <2>4, <2>5
<1> QED
  BY <1>4, <1>5

\* Boot reconciliation leaves an item pending only if its paths are as they were.
LEMMA LeftByBoot ==
  ASSUME TypeOK, Custody, BootReconcile
  PROVE  Left'
<1>1. LogOK
  BY DEF TypeOK, LogOK, Entry
<1>2. pc' = "off" /\ UNCHANGED <<src, dst>>
  BY DEF BootReconcile, Goto, disk
<1>3. PICK resolved \in BOOLEAN :
        IF db.item \in {"pending", "applying"} /\ Verdict(resolved) # "not_started"
        THEN CommitItem(IF Verdict(resolved) = "completed" THEN "succeeded" ELSE "failed")
        ELSE UNCHANGED log
  BY DEF BootReconcile
<1>4. CASE db.item \in {"pending", "applying"} /\ Verdict(resolved) # "not_started"
  <2>1. PICK s \in {"succeeded", "failed"} : CommitItem(s)
    BY <1>3, <1>4
  <2>2. db'.item = s
    BY <1>1, <2>1, CommitItemLog DEF ItemStates
  <2> QED
    BY <1>2, <2>1, <2>2 DEF Left, Fresh
<1>5. CASE db.item \notin {"pending", "applying"}
  <2>1. db' = db
    BY <1>3, <1>5 DEF db
  <2> QED
    BY <1>2, <1>5, <2>1 DEF Left, Fresh
<1>6. CASE Verdict(resolved) = "not_started"
  <2>1. ~ Touched
    BY <1>6 DEF Verdict, Present, Touched, Custody, PathsFit, TypeOK, Relocates, AllKinds
  <2> QED
    BY <1>2, <2>1 DEF Left, Touched
<1> QED
  BY <1>4, <1>5, <1>6

\* Every step leaves to the resume only what is untouched.
LEMMA LeftStep ==
  ASSUME TypeOK, Custody, Known, Left, [Next]_custodyVars
  PROVE  Left'
<1>1. LogOK /\ db \in Entries /\ kind \in AllKinds
  BY CurrentIsEntry, CustodyAssumption DEF TypeOK, LogOK, Entry
<1>2. CASE Claim
  <2>1. db'.item = db.item /\ pc' = "sync" /\ Touched' = Touched /\ halfBoot' = halfBoot
    BY <1>1, <1>2, CommitPlanLog DEF Claim, Goto, disk, Touched, PlanStates
  <2>2. CASE db.plan = "approved"
    BY <1>1, <2>1, <2>2 DEF Known, Left
  <2>3. CASE db.plan = "paused"
    BY <1>2, <2>1, <2>3 DEF Claim, Left, Fresh
  <2> QED
    BY <1>2, <2>2, <2>3 DEF Claim
<1>3. CASE Sync \/ AutoCheckpoint
  <2>1. db' = db
    BY <1>1, <1>3, CheckpointLog DEF Sync, AutoCheckpoint, db
  <2>2. Touched' = Touched /\ halfBoot' = halfBoot /\ (pc' = pc \/ (pc = "sync" /\ pc' = "run"))
    BY <1>3 DEF Sync, AutoCheckpoint, Goto, disk, Touched
  <2> QED
    BY <2>1, <2>2 DEF Left, Fresh
<1>4. CASE Start
  BY <1>4 DEF Start, Goto, disk, Left, Fresh, Touched, db
<1>5. CASE Retry \/ Record
  <2>1. PICK s \in {"applying", "succeeded", "failed"} : CommitItem(s)
    BY <1>5 DEF Retry, Record
  <2>2. db'.item = s
    BY <1>1, <2>1, CommitItemLog DEF ItemStates
  <2>3. pc' \in {"check", "run"}
    BY <1>5 DEF Retry, Record, Goto
  <2> QED
    BY <2>1, <2>2, <2>3 DEF Left, Fresh
<1>6. CASE \/ Check \/ CallFails \/ Rename \/ Copy \/ DeleteSource \/ Undo \/ Make \/ WriteFirst
           \/ WriteRest
  <2>1. pc' \in AllKinds \cup {"failed", "undo", "done", "delete", "write"}
    BY <1>1, <1>6 DEF Check, CallFails, Rename, Copy, DeleteSource, Undo, Make, WriteFirst,
       WriteRest, Goto
  <2> QED
    BY <2>1 DEF Left, AllKinds
<1>7. CASE Leave
  <2>1. db'.item = db.item /\ pc' = "off" /\ pc = "run"
    BY <1>1, <1>7, CommitPlanLog DEF Leave, Goto, PlanStates
  <2>2. Touched' = Touched /\ halfBoot' = halfBoot
    BY <1>7 DEF Leave, disk, Touched
  <2> QED
    BY <2>1, <2>2 DEF Left, Fresh
<1>8. CASE Crash \/ PowerLoss
  BY <1>8, LeftByCut
<1>9. CASE BootSweep
  <2>1. CASE pc' = "reconcile"
    BY <2>1 DEF Left
  <2>2. CASE pc' # "reconcile"
    BY <1>9, <2>2 DEF BootSweep, Goto, disk, Left, Fresh, Touched, db
  <2> QED
    BY <2>1, <2>2
<1>10. CASE BootReconcile
  BY <1>10, LeftByBoot
<1>11. CASE Outsider
  BY <1>11 DEF Outsider, Left, Fresh, Touched, db
<1>12. CASE UNCHANGED custodyVars
  BY <1>12 DEF custodyVars, disk, counts, Left, Fresh, Touched, db
<1> QED
  BY <1>2, <1>3, <1>4, <1>5, <1>6, <1>7, <1>8, <1>9, <1>10, <1>11, <1>12 DEF Next

\* If the checkpoint of the intent does not fail, what boot reconciliation or a
\* pause leaves to the resume has not been started: no effect is run twice.
THEOREM ResumeFindsItUntouched ==
  ASSUME SyncFails = FALSE
  PROVE  Spec => []LeftIsUntouched
<1>1. Init => Known /\ Left
  BY TypeStarts DEF Init, Known, Left, Fresh, Touched, Busy, AllKinds
<1>2. Known /\ Left /\ TypeOK /\ Custody /\ [Next]_custodyVars => (Known /\ Left)'
  BY KnownStep, LeftStep
<1>3. TypeOK /\ Left => LeftIsUntouched
  BY DEF TypeOK, Left, Fresh, Touched, LeftIsUntouched
<1> QED
  BY <1>1, <1>2, <1>3, AlwaysCustody, PTL DEF Spec
=============================================================================
