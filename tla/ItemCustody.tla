---------------------------- MODULE ItemCustody -----------------------------
(***************************************************************************)
(* Custody of one plan item across a crash or a power loss: the executor's *)
(* system calls on the file (fs/executor ops), the commits that record     *)
(* what was intended and what came out (persistence/plans), and boot       *)
(* reconciliation, which judges by the file system what the record does    *)
(* not say (fs/executor reconcile, app/core plan_apply::reconcile).        *)
(*                                                                         *)
(* The database is the sequence of states committed since the last         *)
(* checkpoint: with synchronous = NORMAL a power loss cuts that sequence   *)
(* anywhere, a crash of the process leaves it alone.  What the file system *)
(* has done stays done.                                                    *)
(***************************************************************************)
EXTENDS Naturals, Sequences

CONSTANTS
  Kinds,      \* the kinds of item considered
  SyncFails,  \* TRUE: the checkpoint of the intent may fail
  MaxRuns,    \* bound: applies and resumes
  MaxFails,   \* bound: failing system calls
  MaxCuts     \* bound: crashes and power losses

(* rename: a move or archive within a volume; cross: one between volumes;  *)
(* trash: an archive item of a plan whose destination is the system trash; *)
(* remove: delete; create: mkdir or write_manifest; link: a symbolic or    *)
(* hard link; copy: a link item materialised as a copy.                    *)
AllKinds == {"rename", "cross", "trash", "remove", "create", "link", "copy"}

ASSUME CustodyAssumption ==
  /\ Kinds \subseteq AllKinds
  /\ SyncFails \in BOOLEAN
  /\ MaxRuns \in Nat
  /\ MaxFails \in Nat
  /\ MaxCuts \in Nat

VARIABLES
  kind,     \* the item's kind
  src,      \* what the source path holds
  dst,      \* what the destination path holds
  log,      \* the committed states since the last checkpoint, which is first
  pc,       \* where the executor or the boot task is
  halfBoot, \* history: a cut kept the sweep of a boot and not its verdict
  tries,    \* runs started
  fails,    \* system calls that failed
  cuts      \* crashes and power losses

disk == <<src, dst>>
counts == <<tries, fails, cuts>>
custodyVars == <<kind, src, dst, log, pc, halfBoot, tries, fails, cuts>>

Relocates == {"rename", "cross"}
Removes == {"trash", "remove"}

PlanStates == {"approved", "applying", "paused", "ended"}
ItemStates == {"pending", "applying", "succeeded", "failed"}

Init ==
  /\ kind \in Kinds
  /\ src = "file"
  /\ dst = "none"
  /\ log = << [plan |-> "approved", item |-> "pending"] >>
  /\ pc = "off"
  /\ halfBoot = FALSE
  /\ tries = 0
  /\ fails = 0
  /\ cuts = 0

(* The current state of the database. *)
db == log[Len(log)]

CommitPlan(s) == log' = Append(log, [db EXCEPT !.plan = s])
CommitItem(s) == log' = Append(log, [db EXCEPT !.item = s])

Goto(step) == pc' = step

-----------------------------------------------------------------------------
(* The run. *)

\* (mutant) the intent is committed and not synced
ClaimUnsynced ==
  /\ pc = "off"
  /\ db.plan \in {"approved", "paused"}
  /\ tries < MaxRuns
  /\ tries' = tries + 1
  /\ CommitPlan("applying")
  /\ Goto("run")
  /\ UNCHANGED <<kind, disk, halfBoot, fails, cuts>>

(* cas_approved_to_applying, resume_run: the intent is committed, ... *)
Claim ==
  /\ pc = "off"
  /\ db.plan \in {"approved", "paused"}
  /\ tries < MaxRuns
  /\ tries' = tries + 1
  /\ CommitPlan("applying")
  /\ Goto("sync")
  /\ UNCHANGED <<kind, disk, halfBoot, fails, cuts>>

(* ... and synced by checkpoint_intent, whose failure is only logged. *)
Sync ==
  /\ pc = "sync"
  /\ \/ log' = <<db>>
     \/ SyncFails /\ UNCHANGED log
  /\ Goto("run")
  /\ UNCHANGED <<kind, disk, halfBoot, counts>>

(* SQLite checkpoints on its own as well. *)
AutoCheckpoint ==
  /\ Len(log) > 1
  /\ log' = <<db>>
  /\ UNCHANGED <<kind, disk, pc, halfBoot, counts>>

(* The loop takes a pending item, ... *)
Start ==
  /\ pc = "run"
  /\ db.item = "pending"
  /\ Goto("check")
  /\ UNCHANGED <<kind, disk, log, halfBoot, counts>>

(* ... or a failed one whose retry was accepted, which sets the row. *)
Retry ==
  /\ pc = "run"
  /\ db.item = "failed"
  /\ tries < MaxRuns
  /\ tries' = tries + 1
  /\ CommitItem("applying")
  /\ Goto("check")
  /\ UNCHANGED <<kind, disk, halfBoot, fails, cuts>>

(* check_cas (a missing source) and each operation's look at the           *)
(* destination.  mkdir and write_manifest accept what they would make.     *)
Refused ==
  \/ kind # "create" /\ src = "none"
  \/ kind \in Relocates \cup {"link", "copy"} /\ dst # "none"
  \/ kind = "create" /\ dst = "other"

Check ==
  /\ pc = "check"
  /\ Goto(IF Refused THEN "failed" ELSE kind)
  /\ UNCHANGED <<kind, disk, log, halfBoot, counts>>

(* move_file: rename, which between volumes answers EXDEV. *)
Rename ==
  /\ pc = "rename"
  /\ src' = "none"
  /\ dst' = "file"
  /\ Goto("done")
  /\ UNCHANGED <<kind, log, halfBoot, counts>>

\* (mutant) the source is deleted before the copy is in place
CopyDeletesFirst ==
  /\ pc = "cross"
  /\ src' = "none"
  /\ Goto("create")
  /\ UNCHANGED <<kind, dst, log, halfBoot, counts>>

(* atomic_copy: the bytes go to a temporary file nobody looks at, which is *)
(* renamed into place.                                                     *)
Copy ==
  /\ pc = "cross"
  /\ dst' = "file"
  /\ Goto("delete")
  /\ UNCHANGED <<kind, src, log, halfBoot, counts>>

(* The source's deletion ends a move between volumes and is all there is   *)
(* to a delete item; to the source's path, a move to the trash is no more. *)
DeleteSource ==
  /\ pc \in {"delete"} \cup Removes
  /\ src' = "none"
  /\ Goto("done")
  /\ UNCHANGED <<kind, dst, log, halfBoot, counts>>

(* If it fails the copy is taken back. *)
Undo ==
  /\ pc = "undo"
  /\ dst' = "none"
  /\ Goto("failed")
  /\ UNCHANGED <<kind, src, log, halfBoot, counts>>

(* mkdir, the marker's rename, symlink, hard_link. *)
Make ==
  /\ pc \in {"create", "link"}
  /\ dst' = "file"
  /\ Goto("done")
  /\ UNCHANGED <<kind, src, log, halfBoot, counts>>

(* create_link copies straight to the destination. *)
WriteFirst ==
  /\ pc = "copy"
  /\ dst' = "part"
  /\ Goto("write")
  /\ UNCHANGED <<kind, src, log, halfBoot, counts>>

WriteRest ==
  /\ pc = "write"
  /\ dst' = "file"
  /\ Goto("done")
  /\ UNCHANGED <<kind, src, log, halfBoot, counts>>

(* A system call fails: a failed deletion leads to the undo, a failed undo *)
(* leaves both copies.                                                     *)
CallFails ==
  /\ pc \in Kinds \cup {"delete", "undo", "write"}
  /\ fails < MaxFails
  /\ fails' = fails + 1
  /\ Goto(IF pc = "delete" THEN "undo" ELSE "failed")
  /\ UNCHANGED <<kind, disk, log, halfBoot, tries, cuts>>

(* The outcome is flushed. *)
Record ==
  /\ pc \in {"done", "failed"}
  /\ CommitItem(IF pc = "done" THEN "succeeded" ELSE "failed")
  /\ Goto("run")
  /\ UNCHANGED <<kind, disk, halfBoot, counts>>

(* The run ends, or pauses at any item. *)
Leave ==
  /\ pc = "run"
  /\ \/ db.item # "pending" /\ CommitPlan("ended")
     \/ CommitPlan("paused")
  /\ Goto("off")
  /\ UNCHANGED <<kind, disk, halfBoot, counts>>

-----------------------------------------------------------------------------
(* Cuts, boot and the world outside. *)

(* A cut leaves the first n of the committed states. *)
Cut(n) ==
  /\ cuts < MaxCuts
  /\ cuts' = cuts + 1
  /\ Goto("down")
  /\ log' = SubSeq(log, 1, n)
  /\ halfBoot' = (halfBoot \/ pc = "reconcile" \/ (n < Len(log) /\ log[n].plan = "paused"))
  /\ UNCHANGED <<kind, disk, tries, fails>>

Crash == Cut(Len(log))

PowerLoss == \E n \in 1 .. Len(log) : Cut(n)

(* sweep_crashed_applying_plans: only the plans it pauses are reconciled. *)
BootSweep ==
  /\ pc = "down"
  /\ \/ /\ db.plan = "applying"
        /\ CommitPlan("paused")
        /\ Goto("reconcile")
     \/ /\ db.plan # "applying"
        /\ Goto("off")
        /\ UNCHANGED log
  /\ UNCHANGED <<kind, disk, halfBoot, counts>>

Present(path) == path # "none"

\* (mutant) a destination is proof enough of a completed relocation
VerdictByDestination(resolved) ==
  CASE ~ resolved -> "ambiguous"
    [] kind \in Relocates \cup {"trash"} -> IF Present(dst) THEN "completed" ELSE "not_started"
    [] kind = "remove" -> IF Present(src) THEN "not_started" ELSE "completed"
    [] OTHER -> IF Present(dst) THEN "completed" ELSE "not_started"

\* (mutant) a source that is gone is left to the resume
VerdictLeavesGone(resolved) ==
  CASE ~ resolved -> "ambiguous"
    [] kind \in Relocates \cup {"trash"} ->
         IF Present(src) /\ Present(dst) THEN "ambiguous" ELSE "not_started"
    [] kind = "remove" -> IF Present(src) THEN "not_started" ELSE "completed"
    [] OTHER -> IF Present(dst) THEN "completed" ELSE "not_started"

(* classify, for paths that could be resolved or not.  shape_for goes by   *)
(* the action: an item for the trash is an `archive` and judged as a       *)
(* relocation, so that once it is gone it is ambiguous.                    *)
Verdict(resolved) ==
  CASE ~ resolved -> "ambiguous"
    [] kind \in Relocates \cup {"trash"} ->
         (CASE ~ Present(src) /\ Present(dst) -> "completed"
            [] Present(src) /\ ~ Present(dst) -> "not_started"
            [] OTHER -> "ambiguous")
    [] kind = "remove" -> IF Present(src) THEN "not_started" ELSE "completed"
    [] OTHER -> IF Present(dst) THEN "completed" ELSE "not_started"

(* reconcile_crashed_plans, list_unreconciled_items,                       *)
(* record_reconciled_outcome.  resolve finds no path for an item without a *)
(* root (every item of an archive or cleanup plan of a project), for one   *)
(* whose root is gone and for one whose root cannot be looked up; nor is   *)
(* there an archive path in a plan made for the trash.                     *)
BootReconcile ==
  /\ pc = "reconcile"
  /\ \E resolved \in BOOLEAN :
       IF db.item \in {"pending", "applying"} /\ Verdict(resolved) # "not_started"
       THEN CommitItem(IF Verdict(resolved) = "completed" THEN "succeeded" ELSE "failed")
       ELSE UNCHANGED log
  /\ Goto("off")
  /\ UNCHANGED <<kind, disk, halfBoot, counts>>

(* While nothing runs, another program puts a file at the destination.     *)
(* (At the destination of a `create`, `link` or `copy` item Verdict would  *)
(* take it for the item's effect.)                                         *)
Outsider ==
  /\ pc \in {"off", "down"}
  /\ kind \in Relocates \cup {"trash"}
  /\ dst = "none"
  /\ dst' = "other"
  /\ UNCHANGED <<kind, src, log, pc, halfBoot, counts>>

Next ==
  \/ Claim
  \/ Sync
  \/ AutoCheckpoint
  \/ Start
  \/ Retry
  \/ Check
  \/ Rename
  \/ Copy
  \/ DeleteSource
  \/ Undo
  \/ Make
  \/ WriteFirst
  \/ WriteRest
  \/ CallFails
  \/ Record
  \/ Leave
  \/ Crash
  \/ PowerLoss
  \/ BootSweep
  \/ BootReconcile
  \/ Outsider

Spec == Init /\ [][Next]_custodyVars

-----------------------------------------------------------------------------
(* Properties. *)

(* Type invariant: the two paths, the committed states, the steps. *)
TypeOK ==
  /\ kind \in Kinds
  /\ src \in {"none", "file"}
  /\ dst \in {"none", "file", "part", "other"}
  /\ log \in Seq([plan : PlanStates, item : ItemStates]) /\ Len(log) > 0
  /\ pc \in AllKinds \cup {"off", "sync", "run", "check", "delete", "undo", "write",
                           "done", "failed", "down", "reconcile"}
  /\ halfBoot \in BOOLEAN
  /\ tries \in Nat
  /\ fails \in Nat
  /\ cuts \in Nat

(* Constitution V of the product: whatever call fails and wherever the     *)
(* power goes, a file that is moved is at its source or its destination.   *)
NeverLost == kind \in Relocates => src = "file" \/ dst = "file"

(* The item's effect, as far as boot reconciliation can see it. *)
Done == IF kind \in Relocates \cup Removes THEN src = "none" ELSE dst \in {"file", "part"}

(* checkpoint_intent: once the executor has touched the file system, no    *)
(* power loss leaves a database that does not know of the run.             *)
IntentBeforeEffect ==
  src = "none" \/ dst \in {"file", "part"} =>
    \A n \in 1 .. Len(log) : log[n].plan # "approved"

(* What boot reconciliation leaves to the resume has not been started, so  *)
(* a resume does not run an effect twice.  (A cut between the sweep and    *)
(* the reconciliation breaks it: the next boot sweeps nothing.)            *)
LeftIsUntouched ==
  pc = "off" /\ db.plan = "paused" /\ db.item = "pending" /\ ~ halfBoot =>
    src = "file" /\ dst \in {"none", "other"}

Effect == INSTANCE ItemEffect WITH done <- Done, record <- db.item

(* The item keeps the promise of ItemEffect: done once, never undone, and  *)
(* recorded as succeeded, by the executor or by boot, only when done.      *)
KeepsCustody == Effect!Spec
=============================================================================
