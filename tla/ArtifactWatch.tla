---------------------------- MODULE ArtifactWatch ----------------------------
(***************************************************************************)
(* The watcher of one project's output folder (apps/desktop watcher.rs,    *)
(* fs/inventory artifact_watcher, workflow/artifacts, app/lifecycle        *)
(* artifact).  Attaching compares the folder with the rows of              *)
(* processing_artifacts, starts an OS watcher and its forward task, and    *)
(* registers both; a detach that overtakes it leaves a tombstone.  The     *)
(* forward task debounces the events of a bounded channel, and compares    *)
(* again when events were lost.                                            *)
(*                                                                         *)
(* Attachers are the calls of attach_project_watcher that may be under way *)
(* at once (the drawer's, the volume sweep's, the refresh command's), each *)
(* with the watcher it makes.                                              *)
(***************************************************************************)
EXTENDS Naturals, Sequences, FiniteSets

CONSTANTS
  Files,       \* paths under the project's folder with a watched extension
  Dirs,        \* its directories
  DirOf,       \* the directory of each file
  NameOf,      \* the base name of each file, in lower case
  Attachers,
  None,
  ChanSize,    \* capacity of the event channel
  MaxChanges,  \* bound: writes and removals of files
  MaxDetaches, \* bound: detach commands
  MaxErrors,   \* bound: errors of the OS watchers
  MaxFaults    \* bound: failed statements, unread directories and crashes

ASSUME WatchAssumption ==
  /\ DirOf \in [Files -> Dirs]
  /\ None \notin Attachers \cup Files
  /\ ChanSize \in Nat \ {0}
  /\ {MaxChanges, MaxDetaches, MaxErrors, MaxFaults} \subseteq Nat

VARIABLES
  disk,      \* size of each file, 0 if there is none
  row,       \* processing_artifacts.state
  entry,     \* the attacher whose watcher is registered
  tombstone, \* detach_requested
  slot,      \* each attacher: where it is, and its scan
  chan,      \* the channel of each watcher
  over,      \* its overflow flag
  pend,      \* sizes of the files its forward task debounces, 0 for none
  work,      \* the detect call its forward task is in
  telling,   \* the rows its task has inserted and not yet announced
  count,     \* changes, detaches and faults so far
  announced, \* history: artifact.detected events of each file
  unsaid,    \* history: files whose announcement was lost
  absent,    \* history: files that were absent since they had a row
  owed,      \* history: files without a row that each watcher saw written
  detached   \* history: a detach came after the last attach began

watchVars == <<disk, row, entry, tombstone, slot, chan, over, pend, work, telling,
               count, announced, unsaid, absent, owed, detached>>
told == <<announced, unsaid>>
rows == <<row, told, absent, owed>>
feed == <<chan, over, pend, work, telling>>

RowStates == {"none", "present", "missing", "user_resolved_missing"}
Sizes == 0..2
Nothing == [f \in Files |-> 0]
NoWork == [at |-> "idle", file |-> None, todo |-> {}]
NoScan == [known |-> {}, dirs |-> {}, found |-> {}, unread |-> {}, new |-> {}, had |-> {}]

(* A slot is an attach call up to "insert", then its forward task; `scan`  *)
(* is the step of the comparison either of them is in.                     *)
Idle == [at |-> "idle", scan |-> "off", s |-> NoScan]

Init ==
  /\ disk \in [Files -> {0, 1}]
  /\ row = [f \in Files |-> "none"]
  /\ entry = None
  /\ tombstone = FALSE
  /\ slot = [a \in Attachers |-> Idle]
  /\ chan = [a \in Attachers |-> <<>>]
  /\ over = [a \in Attachers |-> FALSE]
  /\ pend = [a \in Attachers |-> Nothing]
  /\ work = [a \in Attachers |-> NoWork]
  /\ telling = [a \in Attachers |-> {}]
  /\ count = [changes |-> 0, detaches |-> 0, errors |-> 0, faults |-> 0]
  /\ announced = [f \in Files |-> 0]
  /\ unsaid = {}
  /\ absent = {}
  /\ owed = [a \in Attachers |-> {}]
  /\ detached = FALSE

OnDisk(f) == disk[f] # 0

(* The OS watcher runs from its start until the entry is dropped. *)
Watching(a) == slot[a].at \in {"insert", "live"}

Fault ==
  /\ count.faults < MaxFaults
  /\ count' = [count EXCEPT !.faults = @ + 1]

-----------------------------------------------------------------------------
(* The folder and the OS watcher. *)

\* (mutant) a full channel drops the event and tells nobody
SendSilent(evt) ==
  /\ chan' = [a \in Attachers |-> IF Watching(a) /\ Len(chan[a]) < ChanSize
                                  THEN Append(chan[a], evt) ELSE chan[a]]
  /\ over' = over

(* try_send to every watcher there is: a full channel sets the flag. *)
Send(evt) ==
  /\ chan' = [a \in Attachers |-> IF Watching(a) /\ Len(chan[a]) < ChanSize
                                  THEN Append(chan[a], evt) ELSE chan[a]]
  /\ over' = [a \in Attachers |-> over[a] \/ (Watching(a) /\ Len(chan[a]) = ChanSize)]

Change(f, size) ==
  /\ count.changes < MaxChanges
  /\ count' = [count EXCEPT !.changes = @ + 1]
  /\ disk' = [disk EXCEPT ![f] = size]
  /\ UNCHANGED <<row, entry, tombstone, slot, pend, work, telling, told, detached>>

Paid(S) == owed' = [a \in Attachers |-> owed[a] \ S]

(* A tool creates the file or writes more of it. *)
Write(f, size) ==
  /\ size # disk[f]
  /\ Change(f, size)
  /\ Send([kind |-> "modified", file |-> f])
  /\ owed' = [a \in Attachers |-> IF Watching(a) /\ row[f] = "none"
                                  THEN owed[a] \cup {f} ELSE owed[a]]
  /\ UNCHANGED absent

Remove(f) ==
  /\ OnDisk(f)
  /\ Change(f, 0)
  /\ Send([kind |-> "removed", file |-> f])
  /\ absent' = IF row[f] # "none" THEN absent \cup {f} ELSE absent
  /\ Paid({f})

(* The OS watcher of `a` loses a write and reports an error: if the channel *)
(* is full, that is lost as well and nobody will look.                      *)
WriteLost(a, f, size) ==
  /\ Watching(a)
  /\ size # disk[f]
  /\ count.changes < MaxChanges
  /\ count.errors < MaxErrors
  /\ count' = [count EXCEPT !.changes = @ + 1, !.errors = @ + 1]
  /\ disk' = [disk EXCEPT ![f] = size]
  /\ \/ /\ Len(chan[a]) < ChanSize
        /\ chan' = [chan EXCEPT ![a] = Append(@, [kind |-> "rescan", file |-> None])]
        /\ owed' = IF row[f] = "none" THEN [owed EXCEPT ![a] = @ \cup {f}] ELSE owed
     \/ Len(chan[a]) = ChanSize /\ UNCHANGED <<chan, owed>>
  /\ UNCHANGED <<row, entry, tombstone, slot, over, pend, work, telling, told, absent,
                 detached>>

-----------------------------------------------------------------------------
(* run_attach_reconciliation. *)

Scanning(a, step) == slot[a].scan = step

StartScan(a, at) ==
  slot' = [slot EXCEPT ![a].at = at, ![a].scan = "list", ![a].s = NoScan]

(* The comparison is over: an attach goes on to start the OS watcher, a    *)
(* forward task to its loop.                                               *)
AfterScan(a) == IF slot[a].at = "scan" THEN "start" ELSE slot[a].at

ScanList(a) ==
  /\ Scanning(a, "list")
  /\ slot' = [slot EXCEPT ![a].scan = "walk", ![a].s.dirs = Dirs,
                          ![a].s.known = {f \in Files : row[f] = "present"}]
  /\ UNCHANGED <<disk, rows, entry, tombstone, feed, count, detached>>

(* The walk reads one directory, or fails to and goes on. *)
WalkDir(a, d) ==
  /\ Scanning(a, "walk")
  /\ d \in slot[a].s.dirs
  /\ slot' = [slot EXCEPT ![a].s.dirs = @ \ {d},
                          ![a].s.found = @ \cup {f \in Files : DirOf[f] = d /\ OnDisk(f)}]
  /\ UNCHANGED <<disk, rows, entry, tombstone, feed, count, detached>>

WalkUnreadable(a, d) ==
  /\ Scanning(a, "walk")
  /\ d \in slot[a].s.dirs
  /\ Fault
  /\ slot' = [slot EXCEPT ![a].s.dirs = @ \ {d}, ![a].s.unread = @ \cup {d}]
  /\ UNCHANGED <<disk, rows, entry, tombstone, feed, detached>>

Names(S) == {NameOf[f] : f \in S}

(* Rows and files are matched by base name alone. *)
Gone(s) ==
  {f \in s.known : NameOf[f] \notin Names(s.found) /\ DirOf[f] \notin s.unread}

New(s) == {f \in s.found : NameOf[f] \notin Names(s.known) /\ OnDisk(f)}

\* (mutant) the rows are listed after the walk
MarkMissingNow(a) ==
  LET s == [slot[a].s EXCEPT !.known = {f \in Files : row[f] = "present"}]
  IN /\ Scanning(a, "walk")
     /\ s.dirs = {}
     /\ row' = [f \in Files |-> IF f \in Gone(s) THEN "missing" ELSE row[f]]
     /\ slot' = [slot EXCEPT ![a].scan = "look", ![a].s.new = New(s)]
     /\ UNCHANGED <<disk, entry, tombstone, feed, count, told, absent, owed, detached>>

(* The phases: stat the new files and mark the rows that are gone, ...     *)
MarkMissing(a) ==
  LET s == slot[a].s
  IN /\ Scanning(a, "walk")
     /\ s.dirs = {}
     /\ row' = [f \in Files |-> IF f \in Gone(s) THEN "missing" ELSE row[f]]
     /\ slot' = [slot EXCEPT ![a].scan = "look", ![a].s.new = New(s)]
     /\ UNCHANGED <<disk, entry, tombstone, feed, count, told, absent, owed, detached>>

(* ... look up the rows of the new files, ...                              *)
LookUp(a) ==
  /\ Scanning(a, "look")
  /\ slot' = [slot EXCEPT ![a].scan = "insert",
                          ![a].s.had = {f \in slot[a].s.new : row[f] # "none"}]
  /\ UNCHANGED <<disk, rows, entry, tombstone, feed, count, detached>>

\* (mutant) an insert that was ignored is announced like the others
RecordAll(a, S) ==
  /\ row' = [f \in Files |-> IF f \in S /\ row[f] = "none" THEN "present" ELSE row[f]]
  /\ telling' = [telling EXCEPT ![a] = @ \cup S]
  /\ absent' = absent \cup {f \in S : row[f] = "none" /\ ~ OnDisk(f)}
  /\ Paid(S)

(* INSERT OR IGNORE of the files in S by the task of `a`: the rows that    *)
(* landed are committed, and still to be announced.                        *)
Record(a, S) ==
  LET landed == {f \in S : row[f] = "none"}
  IN /\ row' = [f \in Files |-> IF f \in landed THEN "present" ELSE row[f]]
     /\ telling' = [telling EXCEPT ![a] = @ \cup landed]
     /\ absent' = absent \cup {f \in landed : ~ OnDisk(f)}
     /\ Paid(landed)

(* The events of the rows the task inserted, in one publication; ...       *)
Announce(a) ==
  /\ announced' = [f \in Files |-> announced[f] + (IF f \in telling[a] THEN 1 ELSE 0)]
  /\ telling' = [telling EXCEPT ![a] = {}]
  /\ UNCHANGED unsaid

(* ... or they are lost: nothing keeps them for another attempt.           *)
Silence(a) ==
  /\ unsaid' = unsaid \cup telling[a]
  /\ telling' = [telling EXCEPT ![a] = {}]
  /\ UNCHANGED announced

(* ... and insert those that had none, in one transaction.  The others are *)
(* updated in place, which leaves their state as it is.                    *)
InsertNew(a) ==
  /\ Scanning(a, "insert")
  /\ Record(a, slot[a].s.new \ slot[a].s.had)
  /\ slot' = [slot EXCEPT ![a].scan = "tell", ![a].s = NoScan]
  /\ UNCHANGED <<disk, entry, tombstone, chan, over, pend, work, count, told, detached>>

EndScan(a) == slot' = [slot EXCEPT ![a].at = AfterScan(a), ![a].scan = "off", ![a].s = NoScan]

(* The rows are read again, to tell which inserts landed, and those are    *)
(* announced.                                                              *)
ScanTell(a) ==
  /\ Scanning(a, "tell")
  /\ Announce(a)
  /\ EndScan(a)
  /\ UNCHANGED <<disk, row, entry, tombstone, chan, over, pend, work, count, absent, owed,
                 detached>>

(* A phase that fails is logged and the next one runs; a failed list ends  *)
(* the comparison, and with it an attach.  The inserts roll back together, *)
(* but once they are committed a failed reading or publication leaves the  *)
(* rows without their events.                                              *)
ScanFails(a) ==
  /\ Fault
  /\ \/ /\ Scanning(a, "list")
        /\ slot' = [slot EXCEPT ![a] = IF @.at = "scan" THEN Idle
                                       ELSE [@ EXCEPT !.scan = "off"]]
        /\ UNCHANGED <<telling, told>>
     \/ /\ Scanning(a, "walk") /\ slot[a].s.dirs = {}
        /\ slot' = [slot EXCEPT ![a].scan = "look", ![a].s.new = New(slot[a].s)]
        /\ UNCHANGED <<telling, told>>
     \/ /\ slot[a].scan \in {"look", "insert"}
        /\ EndScan(a)
        /\ UNCHANGED <<telling, told>>
     \/ Scanning(a, "tell") /\ EndScan(a) /\ Silence(a)
  /\ UNCHANGED <<disk, row, entry, tombstone, chan, over, pend, work, absent, owed, detached>>

Scan(a) ==
  \/ ScanList(a)
  \/ \E d \in Dirs : WalkDir(a, d)
  \/ MarkMissing(a)
  \/ LookUp(a)
  \/ InsertNew(a)
  \/ ScanTell(a)

-----------------------------------------------------------------------------
(* attach_project_watcher and detach_project_watcher. *)

(* Nothing is done for a project that has an entry. *)
AttachBegin(a) ==
  /\ slot[a] = Idle
  /\ entry = None
  /\ tombstone' = FALSE
  /\ detached' = FALSE
  /\ StartScan(a, "scan")
  /\ UNCHANGED <<disk, rows, entry, feed, count>>

(* The folder is not there, or the OS watcher cannot be started. *)
AttachGivesUp(a) ==
  /\ \/ slot[a].at = "scan" /\ Scanning(a, "list")
     \/ slot[a].at = "start"
  /\ slot' = [slot EXCEPT ![a] = Idle]
  /\ UNCHANGED <<disk, rows, entry, tombstone, feed, count, detached>>

AttachStart(a) ==
  /\ slot[a].at = "start"
  /\ slot' = [slot EXCEPT ![a].at = "insert"]
  /\ UNCHANGED <<disk, rows, entry, tombstone, feed, count, detached>>

(* A watcher is dropped with its channel and whatever its task held, the   *)
(* announcement of a row it has just made included.                        *)
Discard(a) ==
  /\ slot' = [slot EXCEPT ![a] = Idle]
  /\ chan' = [chan EXCEPT ![a] = <<>>]
  /\ over' = [over EXCEPT ![a] = FALSE]
  /\ pend' = [pend EXCEPT ![a] = Nothing]
  /\ work' = [work EXCEPT ![a] = NoWork]
  /\ Silence(a)
  /\ owed' = [owed EXCEPT ![a] = {}]

\* (mutant) the tombstone is not looked at
AttachInsertAnyway(a) ==
  /\ slot[a].at = "insert"
  /\ \/ entry # None /\ Discard(a) /\ UNCHANGED <<entry, tombstone>>
     \/ /\ entry = None
        /\ entry' = a
        /\ slot' = [slot EXCEPT ![a].at = "live"]
        /\ UNCHANGED <<tombstone, feed, told, owed>>
  /\ UNCHANGED <<disk, row, count, absent, detached>>

(* The second critical section: another attach was first, a detach came    *)
(* meanwhile, or the watcher is registered.                                *)
AttachInsert(a) ==
  /\ slot[a].at = "insert"
  /\ \/ entry # None /\ Discard(a) /\ UNCHANGED <<entry, tombstone>>
     \/ entry = None /\ tombstone /\ tombstone' = FALSE /\ Discard(a) /\ UNCHANGED entry
     \/ /\ entry = None /\ ~ tombstone
        /\ entry' = a
        /\ slot' = [slot EXCEPT ![a].at = "live"]
        /\ UNCHANGED <<tombstone, feed, told, owed>>
  /\ UNCHANGED <<disk, row, count, absent, detached>>

Detach ==
  /\ count.detaches < MaxDetaches
  /\ count' = [count EXCEPT !.detaches = @ + 1]
  /\ detached' = TRUE
  /\ \/ entry # None /\ entry' = None /\ Discard(entry) /\ UNCHANGED tombstone
     \/ entry = None /\ tombstone' = TRUE /\ UNCHANGED <<entry, slot, feed, told, owed>>
  /\ UNCHANGED <<disk, row, absent>>

(* The process ends and is started again: the table is all there is left.  *)
Crash ==
  /\ Fault
  /\ entry' = None
  /\ tombstone' = FALSE
  /\ slot' = [a \in Attachers |-> Idle]
  /\ chan' = [a \in Attachers |-> <<>>]
  /\ over' = [a \in Attachers |-> FALSE]
  /\ pend' = [a \in Attachers |-> Nothing]
  /\ work' = [a \in Attachers |-> NoWork]
  /\ telling' = [a \in Attachers |-> {}]
  /\ unsaid' = unsaid \cup UNION {telling[a] : a \in Attachers}
  /\ owed' = [a \in Attachers |-> {}]
  /\ UNCHANGED <<disk, row, announced, absent, detached>>

-----------------------------------------------------------------------------
(* The forward task. *)

InLoop(a) == Watching(a) /\ slot[a].scan = "off" /\ work[a].at = "idle"

Rescan(a) ==
  /\ pend' = [pend EXCEPT ![a] = Nothing]
  /\ StartScan(a, slot[a].at)

(* record_raw_event, or a rescan. *)
Receive(a) ==
  LET evt == Head(chan[a])
  IN /\ InLoop(a) /\ work[a].todo = {}
     /\ chan[a] # <<>>
     /\ chan' = [chan EXCEPT ![a] = Tail(@)]
     /\ \/ evt.kind = "rescan" /\ Rescan(a)
        \/ /\ evt.kind = "removed"
           /\ pend' = [pend EXCEPT ![a][evt.file] = 0]
           /\ UNCHANGED slot
        \/ /\ evt.kind = "modified"
           /\ pend' = [pend EXCEPT ![a][evt.file] = IF OnDisk(evt.file) THEN disk[evt.file] ELSE @]
           /\ UNCHANGED slot
     /\ UNCHANGED <<disk, rows, entry, tombstone, over, work, telling, count, detached>>

(* A tick of the debounce timer: lost events first, else the files whose   *)
(* window has elapsed.                                                     *)
Tick(a) ==
  /\ InLoop(a) /\ work[a].todo = {}
  /\ \/ over[a] /\ over' = [over EXCEPT ![a] = FALSE] /\ Rescan(a) /\ UNCHANGED work
     \/ /\ ~ over[a]
        /\ \E S \in (SUBSET {f \in Files : pend[a][f] # 0}) \ {{}} :
             work' = [work EXCEPT ![a].todo = S]
        /\ UNCHANGED <<over, pend, slot>>
  /\ UNCHANGED <<disk, rows, entry, tombstone, chan, telling, count, detached>>

(* sweep_pending_artifacts: a file that has gone is dropped, one that has  *)
(* changed is re-armed, one that is stable is detected.                    *)
SweepFile(a, f) ==
  /\ InLoop(a)
  /\ f \in work[a].todo
  /\ LET stable == OnDisk(f) /\ disk[f] = pend[a][f]
     IN /\ pend' = [pend EXCEPT ![a][f] = IF stable THEN 0 ELSE disk[f]]
        /\ work' = [work EXCEPT ![a] = IF stable
                      THEN [at |-> "look", file |-> f, todo |-> work[a].todo \ {f}]
                      ELSE [work[a] EXCEPT !.todo = @ \ {f}]]
  /\ UNCHANGED <<disk, rows, entry, tombstone, slot, chan, over, telling, count, detached>>

Loop(w) == [w EXCEPT !.at = "idle", !.file = None]

(* detect: a file with a row is updated in place, ...                      *)
DetectLook(a) ==
  /\ work[a].at = "look"
  /\ work' = [work EXCEPT ![a] = IF row[work[a].file] # "none" THEN Loop(@)
                                 ELSE [@ EXCEPT !.at = "insert"]]
  /\ UNCHANGED <<disk, rows, entry, tombstone, slot, chan, over, pend, telling, count,
                 detached>>

(* ... one without is inserted, unless somebody was faster, ...            *)
DetectInsert(a) ==
  /\ work[a].at = "insert"
  /\ Record(a, {work[a].file})
  /\ work' = [work EXCEPT ![a] = IF row[@.file] = "none" THEN [@ EXCEPT !.at = "tell"]
                                 ELSE Loop(@)]
  /\ UNCHANGED <<disk, entry, tombstone, slot, chan, over, pend, count, told, detached>>

(* ... and announced.                                                      *)
DetectTell(a) ==
  /\ work[a].at = "tell"
  /\ Announce(a)
  /\ work' = [work EXCEPT ![a] = Loop(@)]
  /\ UNCHANGED <<disk, row, entry, tombstone, slot, chan, over, pend, count, absent, owed,
                 detached>>

(* A failed statement is logged, a failed publication is not; the file is  *)
(* no longer pending.                                                      *)
DetectFails(a) ==
  /\ Fault
  /\ work' = [work EXCEPT ![a] = Loop(@)]
  /\ \/ work[a].at \in {"look", "insert"} /\ UNCHANGED <<telling, told>>
     \/ work[a].at = "tell" /\ Silence(a)
  /\ UNCHANGED <<disk, row, entry, tombstone, slot, chan, over, pend, absent, owed, detached>>

Forward(a) ==
  \/ Receive(a)
  \/ Tick(a)
  \/ \E f \in Files : SweepFile(a, f)
  \/ DetectLook(a)
  \/ DetectInsert(a)
  \/ DetectTell(a)

-----------------------------------------------------------------------------
(* artifact.mark_resolved *)
Resolve(f) ==
  /\ row[f] = "missing"
  /\ row' = [row EXCEPT ![f] = "user_resolved_missing"]
  /\ UNCHANGED <<disk, entry, tombstone, slot, feed, count, told, absent, owed, detached>>

Task(a) == Scan(a) \/ Forward(a)

Next ==
  \/ \E a \in Attachers :
       \/ Task(a)
       \/ AttachBegin(a) \/ AttachGivesUp(a) \/ AttachStart(a) \/ AttachInsert(a)
       \/ ScanFails(a) \/ DetectFails(a)
       \/ \E d \in Dirs : WalkUnreadable(a, d)
       \/ \E f \in Files, size \in Sizes \ {0} : WriteLost(a, f, size)
  \/ \E f \in Files : Remove(f) \/ Resolve(f) \/ \E size \in Sizes \ {0} : Write(f, size)
  \/ Detach
  \/ Crash

Spec == Init /\ [][Next]_watchVars

(* The runtime polls a forward task, and the attach it belongs to, until it *)
(* ends; nobody owes a change, a command or a fault.                        *)
FairSpec == Spec /\ \A a \in Attachers : WF_watchVars(Task(a))

-----------------------------------------------------------------------------
(* Properties. *)

(* Type invariant: the table, the registry, the watchers and their tasks. *)
TypeOK ==
  /\ disk \in [Files -> Sizes]
  /\ row \in [Files -> RowStates]
  /\ entry \in Attachers \cup {None}
  /\ tombstone \in BOOLEAN
  /\ slot \in [Attachers ->
       [at : {"idle", "scan", "start", "insert", "live"},
        scan : {"off", "list", "walk", "look", "insert", "tell"},
        s : [known : SUBSET Files, dirs : SUBSET Dirs, found : SUBSET Files,
             unread : SUBSET Dirs, new : SUBSET Files, had : SUBSET Files]]]
  /\ chan \in [Attachers -> Seq([kind : {"modified", "removed", "rescan"},
                                  file : Files \cup {None}])]
  /\ \A a \in Attachers : Len(chan[a]) <= ChanSize
  /\ over \in [Attachers -> BOOLEAN]
  /\ pend \in [Attachers -> [Files -> Sizes]]
  /\ work \in [Attachers -> [at : {"idle", "look", "insert", "tell"},
                              file : Files \cup {None}, todo : SUBSET Files]]
  /\ telling \in [Attachers -> SUBSET Files]
  /\ count \in [changes : Nat, detaches : Nat, errors : Nat, faults : Nat]
  /\ announced \in [Files -> Nat]
  /\ unsaid \subseteq Files
  /\ absent \subseteq Files
  /\ owed \in [Attachers -> SUBSET Files]
  /\ detached \in BOOLEAN

(* The row is there, but its event is not: still to come, or lost for good *)
(* by a fault, by the crash or with a watcher that was dropped.            *)
Untold(f) == f \in unsaid \/ \E a \in Attachers : f \in telling[a]

(* Live events, rescans and the comparisons of two attaches may find the   *)
(* same file at the same time, and each of them inserts, learns whether    *)
(* its row landed and announces it in steps of its own: no file is         *)
(* announced without a row or more than once, a row is left without its    *)
(* event only by what Untold names, and an event that was lost is not made *)
(* up for (detect and detect_batch skip the events of an insert that was   *)
(* ignored).                                                               *)
AnnouncedAtMostOnce ==
  \A f \in Files : announced[f] = (IF row[f] = "none" \/ Untold(f) THEN 0 ELSE 1)

(* A row is marked missing only if its file was absent at some time since  *)
(* the row was made: neither a directory that could not be read nor a file *)
(* recorded while the walk was under way reads as a loss.                  *)
MissingWasAbsent ==
  \A f \in Files : row[f] \in {"missing", "user_resolved_missing"} => f \in absent

(* detach_project_watcher: an attach under way when the detach comes does  *)
(* not leave a watcher behind.  With one attach at a time: of two, the     *)
(* first one takes the tombstone and the second registers its watcher.     *)
DetachHolds == detached => entry = None

(* A file written under a running watcher gets its row, unless it goes     *)
(* away or the watcher is dropped: through the debounce, a full channel    *)
(* and the errors the OS watcher could report.                             *)
WrittenIsRecorded ==
  \A a \in Attachers, f \in Files : (f \in owed[a]) ~> (f \notin owed[a])
=============================================================================
