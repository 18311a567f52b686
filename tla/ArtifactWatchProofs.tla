-------------------------- MODULE ArtifactWatchProofs ------------------------
(***************************************************************************)
(* Theorems of ArtifactWatch, for any folder, attaches, channel and number *)
(* of changes and faults.                                                  *)
(***************************************************************************)
EXTENDS ArtifactWatch, SequenceTheorems, TLAPS

-----------------------------------------------------------------------------
(* Type correctness.                                                       *)

ScanRow == [known : SUBSET Files, dirs : SUBSET Dirs, found : SUBSET Files,
            unread : SUBSET Dirs, new : SUBSET Files, had : SUBSET Files]

SlotRow == [at : {"idle", "scan", "start", "insert", "live"},
            scan : {"off", "list", "walk", "look", "insert", "tell"},
            s : ScanRow]

Event == [kind : {"modified", "removed", "rescan"}, file : Files \cup {None}]

WorkRow == [at : {"idle", "look", "insert", "tell"}, file : Files \cup {None}, todo : SUBSET Files]

CountRow == [changes : Nat, detaches : Nat, errors : Nat, faults : Nat]

\* A detect call has a file.
WorkFits == \A a \in Attachers : work[a].at # "idle" => work[a].file \in Files

\* The watcher is off the channel's capacity by no event.
ChanOK == /\ chan \in [Attachers -> Seq(Event)]
          /\ \A a \in Attachers : Len(chan[a]) <= ChanSize

\* A write or a removal reaches the watchers.
LEMMA SendTypes ==
  ASSUME ChanOK, over \in [Attachers -> BOOLEAN], NEW evt \in Event, Send(evt)
  PROVE  ChanOK' /\ over' \in [Attachers -> BOOLEAN]
<1>1. ASSUME NEW a \in Attachers
      PROVE  chan'[a] \in Seq(Event) /\ Len(chan'[a]) <= ChanSize
  <2>1. CASE Watching(a) /\ Len(chan[a]) < ChanSize
    <3>1. chan'[a] = Append(chan[a], evt)
      BY <2>1 DEF Send
    <3>2. chan'[a] \in Seq(Event) /\ Len(chan'[a]) = Len(chan[a]) + 1
      BY <3>1, AppendProperties DEF ChanOK
    <3>3. Len(chan[a]) \in Nat /\ ChanSize \in Nat
      BY WatchAssumption DEF ChanOK
    <3> QED
      BY <2>1, <3>2, <3>3
  <2>2. CASE ~ (Watching(a) /\ Len(chan[a]) < ChanSize)
    BY <2>2 DEF Send, ChanOK
  <2> QED
    BY <2>1, <2>2
<1>2. over' \in [Attachers -> BOOLEAN]
  BY DEF Send
<1>3. chan' = [a \in Attachers |-> chan'[a]]
  BY DEF Send
<1>4. chan' \in [Attachers -> Seq(Event)]
  BY <1>1, <1>3
<1> QED
  BY <1>1, <1>2, <1>4 DEF ChanOK

\* What is recorded stays typed.
LEMMA RecordTypes ==
  ASSUME TypeOK, NEW a \in Attachers, NEW S \in SUBSET Files, Record(a, S)
  PROVE  /\ row' \in [Files -> RowStates] /\ telling' \in [Attachers -> SUBSET Files]
         /\ absent' \subseteq Files /\ owed' \in [Attachers -> SUBSET Files]
<1>1. row' \in [Files -> RowStates]
  BY DEF Record, TypeOK, RowStates
<1>2. telling' \in [Attachers -> SUBSET Files]
  BY DEF Record, TypeOK
<1>3. absent' \subseteq Files
  BY DEF Record, TypeOK
<1>4. owed' \in [Attachers -> SUBSET Files]
  BY DEF Record, Paid, TypeOK
<1> QED
  BY <1>1, <1>2, <1>3, <1>4

\* The registry, the folder and the counts.
LEMMA RegistryTypes ==
  ASSUME TypeOK, Next
  PROVE  /\ disk' \in [Files -> Sizes] /\ entry' \in Attachers \cup {None}
         /\ tombstone' \in BOOLEAN /\ detached' \in BOOLEAN /\ count' \in CountRow
<1>1. disk' \in [Files -> Sizes]
  <2>1. \/ UNCHANGED disk
        \/ \E f \in Files, size \in Sizes : disk' = [disk EXCEPT ![f] = size]
    <3>1. ASSUME NEW f \in Files, Remove(f)
          PROVE  \E size \in Sizes : disk' = [disk EXCEPT ![f] = size]
      BY <3>1 DEF Remove, Change, Sizes
    <3>2. ASSUME NEW f \in Files, NEW size \in Sizes \ {0},
                 Write(f, size) \/ \E a \in Attachers : WriteLost(a, f, size)
          PROVE  disk' = [disk EXCEPT ![f] = size]
      BY <3>2 DEF Write, WriteLost, Change
    <3>3. ASSUME NEW a \in Attachers, Scan(a)
          PROVE  UNCHANGED disk
      BY <3>3 DEF Scan, ScanList, WalkDir, MarkMissing, LookUp, InsertNew, ScanTell
    <3>4. ASSUME NEW a \in Attachers, Forward(a)
          PROVE  UNCHANGED disk
      BY <3>4 DEF Forward, Receive, Tick, SweepFile, DetectLook, DetectInsert, DetectTell
    <3>5. ASSUME NEW a \in Attachers,
                 \/ AttachBegin(a) \/ AttachGivesUp(a) \/ AttachStart(a) \/ AttachInsert(a)
                 \/ ScanFails(a) \/ DetectFails(a) \/ \E d \in Dirs : WalkUnreadable(a, d)
          PROVE  UNCHANGED disk
      BY <3>5 DEF AttachBegin, AttachGivesUp, AttachStart, AttachInsert, ScanFails,
         DetectFails, WalkUnreadable
    <3>6. ASSUME NEW f \in Files, Resolve(f)
          PROVE  UNCHANGED disk
      BY <3>6 DEF Resolve
    <3>7. CASE Detach \/ Crash
      BY <3>7 DEF Detach, Crash
    <3> QED
      BY <3>1, <3>2, <3>3, <3>4, <3>5, <3>6, <3>7 DEF Next, Task, Sizes
  <2> QED
    BY <2>1 DEF TypeOK
<1>2. entry' \in Attachers \cup {None}
  <2>1. ASSUME NEW a \in Attachers, AttachInsert(a)
        PROVE  entry' = entry \/ entry' = a
    BY <2>1 DEF AttachInsert
  <2>2. CASE Detach
    BY <2>2 DEF Detach, TypeOK
  <2>3. ASSUME NEW a \in Attachers,
               \/ Task(a) \/ AttachBegin(a) \/ AttachGivesUp(a) \/ AttachStart(a)
               \/ ScanFails(a) \/ DetectFails(a) \/ \E d \in Dirs : WalkUnreadable(a, d)
        PROVE  UNCHANGED entry
    BY <2>3 DEF Task, Scan, Forward, ScanList, WalkDir, WalkUnreadable, MarkMissing, LookUp,
       InsertNew, ScanTell, ScanFails, AttachBegin, AttachGivesUp, AttachStart,
       Receive, Tick, SweepFile, DetectLook, DetectInsert, DetectTell, DetectFails
  <2>4. ASSUME NEW f \in Files, Remove(f) \/ Resolve(f)
        PROVE  UNCHANGED entry
    BY <2>4 DEF Remove, Change, Resolve
  <2>5. ASSUME NEW f \in Files, NEW size \in Sizes,
               Write(f, size) \/ \E a \in Attachers : WriteLost(a, f, size)
        PROVE  UNCHANGED entry
    BY <2>5 DEF Write, Change, WriteLost
  <2>6. UNCHANGED entry \/ Detach \/ Crash \/ \E a \in Attachers : AttachInsert(a)
    BY <2>3, <2>4, <2>5 DEF Next
  <2>7. CASE Crash
    BY <2>7 DEF Crash
  <2> QED
    BY <2>1, <2>2, <2>6, <2>7 DEF TypeOK
<1>3. tombstone' \in BOOLEAN /\ detached' \in BOOLEAN
  <2>1. tombstone \in BOOLEAN /\ detached \in BOOLEAN
    BY DEF TypeOK
  <2>2. ASSUME NEW a \in Attachers, Scan(a)
        PROVE  UNCHANGED <<tombstone, detached>>
    BY <2>2 DEF Scan, ScanList, WalkDir, MarkMissing, LookUp, InsertNew, ScanTell
  <2>3. ASSUME NEW a \in Attachers, Forward(a)
        PROVE  UNCHANGED <<tombstone, detached>>
    BY <2>3 DEF Forward, Receive, Tick, SweepFile, DetectLook, DetectInsert, DetectTell
  <2>4. ASSUME NEW a \in Attachers, AttachBegin(a) \/ AttachInsert(a)
        PROVE  tombstone' \in BOOLEAN /\ detached' \in BOOLEAN
    BY <2>1, <2>4 DEF AttachBegin, AttachInsert
  <2>5. ASSUME NEW a \in Attachers,
               \/ AttachGivesUp(a) \/ AttachStart(a)
               \/ ScanFails(a) \/ DetectFails(a) \/ \E d \in Dirs : WalkUnreadable(a, d)
        PROVE  UNCHANGED <<tombstone, detached>>
    BY <2>5 DEF AttachGivesUp, AttachStart, ScanFails, DetectFails, WalkUnreadable
  <2>6. ASSUME NEW f \in Files, Remove(f) \/ Resolve(f)
        PROVE  UNCHANGED <<tombstone, detached>>
    BY <2>6 DEF Remove, Resolve, Change
  <2>7. ASSUME NEW f \in Files, NEW size \in Sizes,
               Write(f, size) \/ \E a \in Attachers : WriteLost(a, f, size)
        PROVE  UNCHANGED <<tombstone, detached>>
    BY <2>7 DEF Write, WriteLost, Change
  <2>8. CASE Detach \/ Crash
    BY <2>1, <2>8 DEF Detach, Crash
  <2> QED
    BY <2>1, <2>2, <2>3, <2>4, <2>5, <2>6, <2>7, <2>8 DEF Next, Task
<1>4. count' \in CountRow
  <2>1. count \in CountRow /\ count.changes + 1 \in Nat /\ count.detaches + 1 \in Nat
        /\ count.errors + 1 \in Nat /\ count.faults + 1 \in Nat
    BY DEF TypeOK, CountRow
  <2>2. \/ UNCHANGED count \/ Fault
        \/ count' = [count EXCEPT !.changes = count.changes + 1]
        \/ count' = [count EXCEPT !.detaches = count.detaches + 1]
        \/ count' = [count EXCEPT !.changes = count.changes + 1, !.errors = count.errors + 1]
    <3>1. ASSUME NEW f \in Files, Remove(f) \/ \E size \in Sizes \ {0} : Write(f, size)
          PROVE  count' = [count EXCEPT !.changes = count.changes + 1]
      BY <3>1 DEF Remove, Write, Change
    <3>2. ASSUME NEW a \in Attachers, NEW f \in Files, NEW size \in Sizes, WriteLost(a, f, size)
          PROVE  count' = [count EXCEPT !.changes = count.changes + 1,
                                        !.errors = count.errors + 1]
      BY <3>2 DEF WriteLost
    <3>3. CASE Detach
      BY <3>3 DEF Detach
    <3>4. ASSUME NEW a \in Attachers, Scan(a)
          PROVE  UNCHANGED count
      BY <3>4 DEF Scan, ScanList, WalkDir, MarkMissing, LookUp, InsertNew, ScanTell
    <3>5. ASSUME NEW a \in Attachers, Forward(a)
          PROVE  UNCHANGED count
      BY <3>5 DEF Forward, Receive, Tick, SweepFile, DetectLook, DetectInsert, DetectTell
    <3>6. ASSUME NEW a \in Attachers,
                 \/ AttachBegin(a) \/ AttachGivesUp(a) \/ AttachStart(a) \/ AttachInsert(a)
                 \/ ScanFails(a) \/ DetectFails(a) \/ \E d \in Dirs : WalkUnreadable(a, d)
          PROVE  UNCHANGED count \/ Fault
      BY <3>6 DEF AttachBegin, AttachGivesUp, AttachStart, AttachInsert, ScanFails,
         DetectFails, WalkUnreadable
    <3>7. ASSUME NEW f \in Files, Resolve(f)
          PROVE  UNCHANGED count
      BY <3>7 DEF Resolve
    <3>8. CASE Crash
      BY <3>8 DEF Crash
    <3> QED
      BY <3>1, <3>2, <3>3, <3>4, <3>5, <3>6, <3>7, <3>8 DEF Next, Task
  <2> QED
    BY <2>1, <2>2 DEF Fault, CountRow
<1> QED
  BY <1>1, <1>2, <1>3, <1>4

\* The attach calls and their scans.
LEMMA SlotTypes ==
  ASSUME TypeOK, Next
  PROVE  slot' \in [Attachers -> SlotRow]
<1> DEFINE Good == slot' \in [Attachers -> SlotRow]
<1>1. slot \in [Attachers -> SlotRow] /\ Idle \in SlotRow /\ NoScan \in ScanRow
  BY DEF TypeOK, SlotRow, ScanRow, Idle, NoScan
<1>2. ASSUME NEW a \in Attachers, NEW at \in {slot[a].at, "scan", "start", "insert", "live"},
             NEW step \in {"off", "list", "walk", "look", "insert", "tell"}, NEW r \in ScanRow,
             slot' = [slot EXCEPT ![a].at = at, ![a].scan = step, ![a].s = r]
      PROVE  Good
  BY <1>1, <1>2 DEF SlotRow
<1>3. ASSUME NEW a \in Attachers, slot' = [slot EXCEPT ![a] = Idle]
      PROVE  Good
  BY <1>1, <1>3
<1>4. ASSUME NEW a \in Attachers, NEW at \in {"insert", "live"},
             slot' = [slot EXCEPT ![a].at = at]
      PROVE  Good
  BY <1>1, <1>4 DEF SlotRow
<1>5. ASSUME NEW a \in Attachers, ScanList(a)
      PROVE  Good
  <2>1. PICK K \in SUBSET Files :
          slot' = [slot EXCEPT ![a].scan = "walk", ![a].s.dirs = Dirs, ![a].s.known = K]
    BY <1>5 DEF ScanList
  <2>2. slot[a] \in SlotRow /\ slot[a].s \in ScanRow
    BY <1>1 DEF SlotRow
  <2>3. [slot[a].s EXCEPT !.dirs = Dirs, !.known = K] \in ScanRow
    BY <2>2 DEF ScanRow
  <2>4. slot'[a] = [slot[a] EXCEPT !.scan = "walk",
                                   !.s = [slot[a].s EXCEPT !.dirs = Dirs, !.known = K]]
    BY <1>1, <2>1, <2>2 DEF SlotRow, ScanRow
  <2>5. slot'[a] \in SlotRow
    BY <2>2, <2>3, <2>4 DEF SlotRow
  <2> QED
    BY <1>1, <2>1, <2>5
<1>6. ASSUME NEW a \in Attachers, NEW d \in Dirs, WalkDir(a, d) \/ WalkUnreadable(a, d)
      PROVE  Good
  <2>1. slot[a] \in SlotRow /\ slot[a].s \in ScanRow
    BY <1>1 DEF SlotRow
  <2>2. PICK F \in SUBSET Files :
          \/ slot' = [slot EXCEPT ![a].s.dirs = @ \ {d}, ![a].s.found = @ \cup F]
          \/ slot' = [slot EXCEPT ![a].s.dirs = @ \ {d}, ![a].s.unread = @ \cup {d}]
    BY <1>6 DEF WalkDir, WalkUnreadable
  <2>3. /\ [slot[a].s EXCEPT !.dirs = @ \ {d}, !.found = @ \cup F] \in ScanRow
        /\ [slot[a].s EXCEPT !.dirs = @ \ {d}, !.unread = @ \cup {d}] \in ScanRow
    BY <2>1 DEF ScanRow
  <2>4. PICK r \in ScanRow : slot'[a] = [slot[a] EXCEPT !.s = r]
    <3>1. CASE slot' = [slot EXCEPT ![a].s.dirs = @ \ {d}, ![a].s.found = @ \cup F]
      <4>1. slot'[a] = [slot[a] EXCEPT !.s = [slot[a].s EXCEPT !.dirs = @ \ {d},
                                                              !.found = @ \cup F]]
        BY <1>1, <2>1, <3>1 DEF SlotRow, ScanRow
      <4> QED
        BY <2>3, <4>1
    <3>2. CASE slot' = [slot EXCEPT ![a].s.dirs = @ \ {d}, ![a].s.unread = @ \cup {d}]
      <4>1. slot'[a] = [slot[a] EXCEPT !.s = [slot[a].s EXCEPT !.dirs = @ \ {d},
                                                              !.unread = @ \cup {d}]]
        BY <1>1, <2>1, <3>2 DEF SlotRow, ScanRow
      <4> QED
        BY <2>3, <4>1
    <3> QED
      BY <2>2, <3>1, <3>2
  <2>5. slot'[a] \in SlotRow
    BY <2>1, <2>4 DEF SlotRow
  <2> QED
    BY <1>1, <2>2, <2>5
<1>7. ASSUME NEW a \in Attachers, MarkMissing(a) \/ LookUp(a) \/ ScanFails(a)
      PROVE  Good
  <2>1. New(slot[a].s) \in SUBSET Files
    BY <1>1 DEF New, SlotRow, ScanRow
  <2>2. {f \in slot[a].s.new : row[f] # "none"} \in SUBSET Files
    BY <1>1 DEF SlotRow, ScanRow
  <2>a. slot[a] \in SlotRow /\ slot[a].s \in ScanRow
    BY <1>1 DEF SlotRow
  <2>b. ASSUME NEW N \in SUBSET Files,
               slot' = [slot EXCEPT ![a].scan = "look", ![a].s.new = N]
        PROVE  Good
    <3>1. [slot[a].s EXCEPT !.new = N] \in ScanRow
      BY <2>a DEF ScanRow
    <3>2. slot'[a] = [slot[a] EXCEPT !.scan = "look", !.s = [slot[a].s EXCEPT !.new = N]]
      BY <1>1, <2>a, <2>b DEF SlotRow, ScanRow
    <3>3. slot'[a] \in SlotRow
      BY <2>a, <3>1, <3>2 DEF SlotRow
    <3> QED
      BY <1>1, <2>b, <3>3
  <2>3. CASE MarkMissing(a)
    BY <2>1, <2>b, <2>3 DEF MarkMissing
  <2>4. CASE LookUp(a)
    <3>1. PICK H \in SUBSET Files :
            slot' = [slot EXCEPT ![a].scan = "insert", ![a].s.had = H]
      BY <2>2, <2>4 DEF LookUp
    <3>2. [slot[a].s EXCEPT !.had = H] \in ScanRow
      BY <2>a DEF ScanRow
    <3>3. slot'[a] = [slot[a] EXCEPT !.scan = "insert", !.s = [slot[a].s EXCEPT !.had = H]]
      BY <1>1, <2>a, <3>1 DEF SlotRow, ScanRow
    <3>4. slot'[a] \in SlotRow
      BY <2>a, <3>2, <3>3 DEF SlotRow
    <3> QED
      BY <1>1, <3>1, <3>4
  <2>5. CASE ScanFails(a)
    <3>1. slot[a] \in SlotRow
      BY <1>1
    <3>2. CASE slot' = [slot EXCEPT ![a] = IF @.at = "scan" THEN Idle ELSE [@ EXCEPT !.scan = "off"]]
      BY <1>1, <3>1, <3>2 DEF SlotRow
    <3>3. CASE slot' = [slot EXCEPT ![a].scan = "look", ![a].s.new = New(slot[a].s)]
      BY <2>1, <2>b, <3>3
    <3>4. CASE slot' = [slot EXCEPT ![a].at = AfterScan(a), ![a].scan = "off", ![a].s = NoScan]
      BY <1>2, <3>4, <1>1 DEF AfterScan
    <3> QED
      BY <2>5, <3>2, <3>3, <3>4 DEF ScanFails, EndScan
  <2> QED
    BY <1>7, <2>3, <2>4, <2>5
<1>8. ASSUME NEW a \in Attachers, InsertNew(a) \/ ScanTell(a)
      PROVE  Good
  <2>1. CASE InsertNew(a)
    <3>1. [slot[a] EXCEPT !.scan = "tell", !.s = NoScan] \in SlotRow
      BY <1>1 DEF SlotRow
    <3>2. slot' = [slot EXCEPT ![a] = [slot[a] EXCEPT !.scan = "tell", !.s = NoScan]]
      BY <1>1, <2>1 DEF InsertNew
    <3> QED
      BY <1>1, <3>1, <3>2
  <2>2. CASE ScanTell(a)
    BY <1>1, <1>2, <2>2 DEF ScanTell, EndScan, AfterScan
  <2> QED
    BY <1>8, <2>1, <2>2
<1>9. ASSUME NEW a \in Attachers, AttachBegin(a) \/ Receive(a) \/ Tick(a)
      PROVE  Good
  <2>1. CASE UNCHANGED slot
    BY <1>1, <2>1
  <2>2. CASE StartScan(a, "scan") \/ StartScan(a, slot[a].at)
    BY <1>1, <1>2, <2>2 DEF StartScan
  <2> QED
    BY <1>9, <2>1, <2>2 DEF AttachBegin, Receive, Tick, Rescan
<1>10. ASSUME NEW a \in Attachers, AttachGivesUp(a) \/ AttachStart(a) \/ AttachInsert(a)
       PROVE  Good
  BY <1>3, <1>4, <1>10 DEF AttachGivesUp, AttachStart, AttachInsert, Discard
<1>11. CASE Detach
  <2>1. UNCHANGED slot \/ (entry \in Attachers /\ slot' = [slot EXCEPT ![entry] = Idle])
    BY <1>11 DEF Detach, Discard, TypeOK
  <2> QED
    BY <1>1, <1>3, <2>1
<1>12. CASE UNCHANGED slot
  BY <1>1, <1>12
<1>13. CASE Crash
  BY <1>1, <1>13 DEF Crash
<1> QED
  BY <1>5, <1>6, <1>7, <1>8, <1>9, <1>10, <1>11, <1>12, <1>13 DEF Next, Task, Scan, Forward, SweepFile,
     DetectLook, DetectInsert, DetectTell, DetectFails, Resolve, Write, Remove, WriteLost, Change

\* The channels and their flags.
LEMMA ChanTypes ==
  ASSUME TypeOK, Next
  PROVE  ChanOK' /\ over' \in [Attachers -> BOOLEAN]
<1> DEFINE Good == ChanOK' /\ over' \in [Attachers -> BOOLEAN]
<1>1. ChanOK /\ over \in [Attachers -> BOOLEAN]
  BY DEF TypeOK, ChanOK, Event
<1>2. ASSUME NEW f \in Files, Remove(f) \/ \E size \in Sizes \ {0} : Write(f, size)
      PROVE  Good
  <2>1. PICK evt \in Event : Send(evt)
    BY <1>2 DEF Remove, Write, Event
  <2> QED
    BY <1>1, <2>1, SendTypes
<1>3. ASSUME NEW a \in Attachers, NEW f \in Files, NEW size \in Sizes, WriteLost(a, f, size)
      PROVE  Good
  <2>1. UNCHANGED over
    BY <1>3 DEF WriteLost
  <2>2. CASE UNCHANGED chan
    BY <1>1, <2>1, <2>2 DEF ChanOK
  <2>3. CASE /\ Len(chan[a]) < ChanSize
             /\ chan' = [chan EXCEPT ![a] = Append(@, [kind |-> "rescan", file |-> None])]
    <3>1. [kind |-> "rescan", file |-> None] \in Event
      BY DEF Event
    <3>2. PICK c : c = Append(chan[a], [kind |-> "rescan", file |-> None])
      OBVIOUS
    <3>3. c \in Seq(Event) /\ Len(c) = Len(chan[a]) + 1
      BY <1>1, <3>1, <3>2, AppendProperties DEF ChanOK
    <3>4. Len(chan[a]) \in Nat /\ ChanSize \in Nat
      BY <1>1, WatchAssumption DEF ChanOK
    <3>5. chan' = [chan EXCEPT ![a] = c] /\ Len(c) <= ChanSize
      BY <2>3, <3>2, <3>3, <3>4
    <3> QED
      BY <1>1, <2>1, <3>3, <3>5 DEF ChanOK
  <2> QED
    BY <1>3, <2>2, <2>3 DEF WriteLost
<1>4. ASSUME NEW a \in Attachers, chan' = [chan EXCEPT ![a] = <<>>]
      PROVE  ChanOK'
  <2>1. <<>> \in Seq(Event) /\ Len(<<>>) = 0 /\ 0 <= ChanSize
    BY EmptySeq, WatchAssumption
  <2> QED
    BY <1>1, <1>4, <2>1 DEF ChanOK
<1>5. ASSUME NEW a \in Attachers, AttachInsert(a)
      PROVE  Good
  BY <1>1, <1>4, <1>5 DEF AttachInsert, Discard, feed, ChanOK
<1>6. CASE Detach
  <2>1. \/ UNCHANGED <<chan, over>>
        \/ \E a \in Attachers : /\ chan' = [chan EXCEPT ![a] = <<>>]
                                /\ over' = [over EXCEPT ![a] = FALSE]
    BY <1>6 DEF Detach, Discard, feed, TypeOK
  <2> QED
    BY <1>1, <1>4, <2>1 DEF ChanOK
<1>7. ASSUME NEW a \in Attachers, Receive(a)
      PROVE  Good
  <2>1. chan[a] # <<>> /\ UNCHANGED over
    BY <1>7 DEF Receive
  <2>2. PICK c : c = Tail(chan[a])
    OBVIOUS
  <2>3. c \in Seq(Event) /\ Len(c) = Len(chan[a]) - 1
    BY <1>1, <2>1, <2>2, HeadTailProperties DEF ChanOK
  <2>4. chan' = [chan EXCEPT ![a] = c]
    BY <1>7, <2>2 DEF Receive
  <2>5. Len(chan[a]) \in Nat /\ ChanSize \in Nat
    BY <1>1, WatchAssumption DEF ChanOK
  <2> QED
    BY <1>1, <2>1, <2>3, <2>4, <2>5 DEF ChanOK
<1>8. ASSUME NEW a \in Attachers, Tick(a)
      PROVE  Good
  BY <1>1, <1>8 DEF Tick, ChanOK
<1>9. CASE UNCHANGED <<chan, over>>
  BY <1>1, <1>9 DEF ChanOK
<1>10. CASE Crash
  <2>1. <<>> \in Seq(Event) /\ Len(<<>>) = 0 /\ 0 <= ChanSize
    BY EmptySeq, WatchAssumption
  <2> QED
    BY <1>10, <2>1 DEF Crash, ChanOK
<1>11. ASSUME NEW a \in Attachers, Scan(a) \/ AttachBegin(a) \/ AttachGivesUp(a) \/ AttachStart(a)
       PROVE  UNCHANGED <<chan, over>>
  BY <1>11 DEF Scan, ScanList, WalkDir, MarkMissing, LookUp, InsertNew, ScanTell, AttachBegin,
     AttachGivesUp, AttachStart, feed
<1>12. ASSUME NEW a \in Attachers, \/ ScanFails(a) \/ DetectFails(a)
                                   \/ \E d \in Dirs : WalkUnreadable(a, d)
                                   \/ \E f \in Files : SweepFile(a, f)
                                   \/ DetectLook(a) \/ DetectInsert(a) \/ DetectTell(a)
       PROVE  UNCHANGED <<chan, over>>
  BY <1>12 DEF ScanFails, DetectFails, WalkUnreadable, SweepFile, DetectLook, DetectInsert,
     DetectTell, feed
<1>13. ASSUME NEW f \in Files, Resolve(f)
       PROVE  UNCHANGED <<chan, over>>
  BY <1>13 DEF Resolve, feed
<1> QED
  BY <1>2, <1>3, <1>5, <1>6, <1>7, <1>8, <1>9, <1>10, <1>11, <1>12, <1>13
     DEF Next, Task, Forward, Sizes

\* The forward tasks.
LEMMA TaskTypes ==
  ASSUME TypeOK, WorkFits, Next
  PROVE  /\ pend' \in [Attachers -> [Files -> Sizes]] /\ work' \in [Attachers -> WorkRow]
         /\ WorkFits'
<1> DEFINE Good == /\ pend' \in [Attachers -> [Files -> Sizes]]
                   /\ work' \in [Attachers -> WorkRow]
                   /\ WorkFits'
<1>1. /\ pend \in [Attachers -> [Files -> Sizes]] /\ work \in [Attachers -> WorkRow]
      /\ disk \in [Files -> Sizes]
      /\ Nothing \in [Files -> Sizes] /\ NoWork \in WorkRow
  BY DEF TypeOK, WorkRow, Nothing, NoWork, Sizes
<1>2. ASSUME NEW a \in Attachers, NEW q \in [Files -> Sizes], NEW w \in WorkRow,
             pend' = pend \/ pend' = [pend EXCEPT ![a] = q],
             work' = work \/ work' = [work EXCEPT ![a] = w],
             w.at # "idle" => w.file \in Files
      PROVE  Good
  BY <1>1, <1>2 DEF WorkFits
<1>3. ASSUME NEW a \in Attachers, pend' = [pend EXCEPT ![a] = Nothing],
             work' = [work EXCEPT ![a] = NoWork]
      PROVE  Good
  BY <1>1, <1>2, <1>3 DEF NoWork
<1>4. CASE UNCHANGED <<pend, work>>
  BY <1>1, <1>4 DEF WorkFits
<1>5. ASSUME NEW a \in Attachers, AttachInsert(a)
      PROVE  Good
  BY <1>3, <1>4, <1>5 DEF AttachInsert, Discard, feed
<1>6. CASE Detach
  BY <1>3, <1>4, <1>6 DEF Detach, Discard, feed, TypeOK
<1>7. ASSUME NEW a \in Attachers, Receive(a)
      PROVE  Good
  <2>1. UNCHANGED work
    BY <1>7 DEF Receive
  <2>2. CASE Rescan(a)
    BY <1>1, <2>1, <2>2 DEF Rescan, WorkFits
  <2>3. CASE \/ pend' = [pend EXCEPT ![a][Head(chan[a]).file] = 0]
             \/ pend' = [pend EXCEPT ![a][Head(chan[a]).file] =
                           IF OnDisk(Head(chan[a]).file) THEN disk[Head(chan[a]).file] ELSE @]
    <3>1. PICK f : f = Head(chan[a]).file
      OBVIOUS
    <3>2. pend[a] \in [Files -> Sizes] /\ 0 \in Sizes
      BY <1>1 DEF Sizes
    <3>3. [pend[a] EXCEPT ![f] = 0] \in [Files -> Sizes]
      BY <3>2
    <3>4. [pend[a] EXCEPT ![f] = IF OnDisk(f) THEN disk[f] ELSE @] \in [Files -> Sizes]
      BY <1>1, <3>2
    <3>5. \/ pend' = [pend EXCEPT ![a] = [pend[a] EXCEPT ![f] = 0]]
          \/ pend' = [pend EXCEPT ![a] = [pend[a] EXCEPT ![f] =
                                            IF OnDisk(f) THEN disk[f] ELSE @]]
      BY <2>3, <3>1
    <3>6. pend' \in [Attachers -> [Files -> Sizes]]
      BY <1>1, <3>3, <3>4, <3>5
    <3> QED
      BY <1>1, <2>1, <3>6 DEF WorkFits
  <2> QED
    BY <1>7, <2>2, <2>3 DEF Receive
<1>8. ASSUME NEW a \in Attachers, Tick(a)
      PROVE  Good
  <2>1. CASE Rescan(a) /\ UNCHANGED work
    BY <1>1, <2>1 DEF Rescan, WorkFits
  <2>2. ASSUME NEW S \in SUBSET Files, work' = [work EXCEPT ![a].todo = S], UNCHANGED pend
        PROVE  Good
    <3>1. [work[a] EXCEPT !.todo = S] \in WorkRow
      BY <1>1 DEF WorkRow
    <3>2. work' = [work EXCEPT ![a] = [work[a] EXCEPT !.todo = S]]
      BY <2>2
    <3>3. /\ [work[a] EXCEPT !.todo = S].at = work[a].at
          /\ [work[a] EXCEPT !.todo = S].file = work[a].file
      BY <1>1 DEF WorkRow
    <3> QED
      BY <1>1, <1>2, <2>2, <3>1, <3>2, <3>3 DEF WorkFits
  <2> QED
    BY <1>8, <2>1, <2>2 DEF Tick
<1>9. ASSUME NEW a \in Attachers, NEW f \in Files, SweepFile(a, f)
      PROVE  Good
  <2> DEFINE look == [at |-> "look", file |-> f, todo |-> work[a].todo \ {f}]
             skip == [work[a] EXCEPT !.todo = work[a].todo \ {f}]
  <2>1. /\ look \in WorkRow /\ look.file \in Files
        /\ skip \in WorkRow /\ skip.at = work[a].at /\ skip.file = work[a].file
    BY <1>1 DEF WorkRow
  <2>2. work' = [work EXCEPT ![a] = look] \/ work' = [work EXCEPT ![a] = skip]
    <3>1. CASE OnDisk(f) /\ disk[f] = pend[a][f]
      BY <1>9, <3>1 DEF SweepFile
    <3>2. CASE ~ (OnDisk(f) /\ disk[f] = pend[a][f])
      BY <1>9, <3>2 DEF SweepFile
    <3> QED
      BY <3>1, <3>2
  <2>3. pend' \in [Attachers -> [Files -> Sizes]]
    BY <1>1, <1>9 DEF SweepFile, Sizes
  <2> HIDE DEF look, skip
  <2> QED
    BY <1>1, <2>1, <2>2, <2>3 DEF WorkFits
<1>10. ASSUME NEW a \in Attachers,
              DetectLook(a) \/ DetectInsert(a) \/ DetectTell(a) \/ DetectFails(a)
       PROVE  Good
  <2> DEFINE insert == [work[a] EXCEPT !.at = "insert"]
             tell == [work[a] EXCEPT !.at = "tell"]
  <2>1. /\ Loop(work[a]) \in WorkRow /\ Loop(work[a]).at = "idle"
        /\ insert \in WorkRow /\ insert.file = work[a].file
        /\ tell \in WorkRow /\ tell.file = work[a].file
    BY <1>1 DEF WorkRow, Loop
  <2>2. work[a].file \in Files /\ UNCHANGED pend
    BY <1>10 DEF DetectLook, DetectInsert, DetectTell, DetectFails, WorkFits
  <2>3. \/ work' = [work EXCEPT ![a] = Loop(work[a])]
        \/ work' = [work EXCEPT ![a] = insert]
        \/ work' = [work EXCEPT ![a] = tell]
    BY <1>10 DEF DetectLook, DetectInsert, DetectTell, DetectFails
  <2> HIDE DEF insert, tell
  <2> QED
    BY <1>1, <1>2, <2>1, <2>2, <2>3
<1>11. ASSUME NEW a \in Attachers,
              \/ Scan(a) \/ AttachBegin(a) \/ AttachGivesUp(a) \/ AttachStart(a)
              \/ ScanFails(a) \/ \E d \in Dirs : WalkUnreadable(a, d)
       PROVE  UNCHANGED <<pend, work>>
  BY <1>11 DEF Scan, ScanList, WalkDir, WalkUnreadable, MarkMissing, LookUp, InsertNew, ScanTell,
     ScanFails, AttachBegin, AttachGivesUp, AttachStart, feed
<1>12. ASSUME NEW f \in Files, \/ Remove(f) \/ Resolve(f)
                               \/ \E size \in Sizes \ {0} : \/ Write(f, size)
                                                            \/ \E a \in Attachers :
                                                                 WriteLost(a, f, size)
       PROVE  UNCHANGED <<pend, work>>
  BY <1>12 DEF Remove, Resolve, Write, WriteLost, Change, feed
<1>13. CASE Crash
  BY <1>1, <1>13 DEF Crash, WorkFits, NoWork
<1> QED
  BY <1>4, <1>5, <1>6, <1>7, <1>8, <1>9, <1>10, <1>11, <1>12, <1>13 DEF Next, Task, Forward

\* What an insert step does, and whose.
LEMMA Records ==
  ASSUME TypeOK, WorkFits, NEW a \in Attachers, InsertNew(a) \/ DetectInsert(a)
  PROVE  (\E S \in SUBSET Files : Record(a, S)) /\ UNCHANGED told
<1>1. CASE InsertNew(a)
  <2>1. slot[a].s.new \ slot[a].s.had \in SUBSET Files
    BY DEF TypeOK
  <2> QED
    BY <1>1, <2>1 DEF InsertNew
<1>2. CASE DetectInsert(a)
  <2>1. {work[a].file} \in SUBSET Files
    BY <1>2 DEF DetectInsert, WorkFits
  <2> QED
    BY <1>2, <2>1 DEF DetectInsert
<1> QED
  BY <1>1, <1>2

\* A step leaves the table and its history alone, or is one of a few.
LEMMA TableMoves ==
  ASSUME TypeOK, WorkFits, Next
  PROVE  \/ UNCHANGED <<row, absent>>
         \/ \E f \in Files : Remove(f)
         \/ \E a \in Attachers, S \in SUBSET Files : Record(a, S)
         \/ \E a \in Attachers : MarkMissing(a)
         \/ \E f \in Files : Resolve(f)
<1>1. ASSUME NEW a \in Attachers,
             \/ ScanList(a) \/ LookUp(a) \/ ScanTell(a) \/ Receive(a) \/ Tick(a)
             \/ DetectLook(a) \/ DetectTell(a)
             \/ AttachBegin(a) \/ AttachGivesUp(a) \/ AttachStart(a) \/ AttachInsert(a)
             \/ ScanFails(a) \/ DetectFails(a)
             \/ \E d \in Dirs : WalkDir(a, d) \/ WalkUnreadable(a, d)
             \/ \E f \in Files : SweepFile(a, f)
      PROVE  UNCHANGED <<row, absent>>
  BY <1>1 DEF ScanList, WalkDir, WalkUnreadable, LookUp, ScanTell, ScanFails, AttachBegin,
     AttachGivesUp, AttachStart, AttachInsert, Receive, Tick, SweepFile, DetectLook, DetectTell,
     DetectFails, rows
<1>2. ASSUME NEW f \in Files, NEW size \in Sizes,
             Write(f, size) \/ \E a \in Attachers : WriteLost(a, f, size)
      PROVE  UNCHANGED <<row, absent>>
  BY <1>2 DEF Write, WriteLost, Change
<1>3. ASSUME Detach \/ Crash
      PROVE  UNCHANGED <<row, absent>>
  BY <1>3 DEF Detach, Crash
<1> QED
  BY <1>1, <1>2, <1>3, Records DEF Next, Task, Scan, Forward

\* The announcements stay as they are, or those of one task are due, made or
\* lost, or the process ends.
LEMMA TellingMoves ==
  ASSUME TypeOK, WorkFits, Next
  PROVE  \/ UNCHANGED <<telling, told>>
         \/ \E a \in Attachers, S \in SUBSET Files : Record(a, S) /\ UNCHANGED told
         \/ \E a \in Attachers : (Announce(a) \/ Silence(a)) /\ UNCHANGED row
         \/ Crash
<1>1. ASSUME NEW a \in Attachers,
             \/ ScanList(a) \/ LookUp(a) \/ MarkMissing(a) \/ Receive(a) \/ Tick(a)
             \/ DetectLook(a) \/ AttachBegin(a) \/ AttachGivesUp(a) \/ AttachStart(a)
             \/ \E d \in Dirs : WalkDir(a, d) \/ WalkUnreadable(a, d)
             \/ \E f \in Files : SweepFile(a, f)
      PROVE  UNCHANGED <<telling, told>>
  BY <1>1 DEF ScanList, WalkDir, WalkUnreadable, LookUp, MarkMissing, AttachBegin,
     AttachGivesUp, AttachStart, Receive, Tick, SweepFile, DetectLook, rows, feed
<1>2. ASSUME NEW a \in Attachers,
             \/ ScanTell(a) \/ DetectTell(a) \/ ScanFails(a) \/ DetectFails(a) \/ AttachInsert(a)
      PROVE  \/ UNCHANGED <<telling, told>>
             \/ (Announce(a) \/ Silence(a)) /\ UNCHANGED row
  BY <1>2 DEF ScanTell, DetectTell, ScanFails, DetectFails, AttachInsert, Discard, feed
<1>3. ASSUME NEW f \in Files, NEW size \in Sizes,
             Write(f, size) \/ \E a \in Attachers : WriteLost(a, f, size)
      PROVE  UNCHANGED <<telling, told>>
  BY <1>3 DEF Write, WriteLost, Change
<1>4. ASSUME NEW f \in Files, Remove(f) \/ Resolve(f)
      PROVE  UNCHANGED <<telling, told>>
  BY <1>4 DEF Remove, Resolve, Change, feed
<1>5. CASE Detach
  <2>1. \/ UNCHANGED <<telling, told>>
        \/ entry \in Attachers /\ Silence(entry) /\ UNCHANGED row
    BY <1>5 DEF Detach, Discard, feed, TypeOK
  <2> QED
    BY <2>1
<1> QED
  BY <1>1, <1>2, <1>3, <1>4, <1>5, Records DEF Next, Task, Scan, Forward

\* What is still to be announced, what was and what was lost.
LEMMA TellingTypes ==
  ASSUME TypeOK, WorkFits, Next
  PROVE  /\ telling' \in [Attachers -> SUBSET Files] /\ announced' \in [Files -> Nat]
         /\ unsaid' \subseteq Files
<1>1. /\ telling \in [Attachers -> SUBSET Files] /\ announced \in [Files -> Nat]
      /\ unsaid \subseteq Files
  BY DEF TypeOK
<1>2. ASSUME NEW a \in Attachers, Announce(a)
      PROVE  /\ telling' \in [Attachers -> SUBSET Files] /\ announced' \in [Files -> Nat]
             /\ unsaid' \subseteq Files
  <2>1. \A f \in Files : announced[f] + 0 \in Nat /\ announced[f] + 1 \in Nat
    BY <1>1
  <2>2. announced' \in [Files -> Nat]
    BY <1>2, <2>1 DEF Announce
  <2> QED
    BY <1>1, <1>2, <2>2 DEF Announce
<1>3. ASSUME NEW a \in Attachers, Silence(a)
      PROVE  /\ telling' \in [Attachers -> SUBSET Files] /\ UNCHANGED announced
             /\ unsaid' \subseteq Files
  BY <1>1, <1>3 DEF Silence
<1>4. CASE Crash
  BY <1>1, <1>4 DEF Crash
<1> QED
  BY <1>1, <1>2, <1>3, <1>4, RecordTypes, TellingMoves DEF told

\* The table and its history.
LEMMA TableTypes ==
  ASSUME TypeOK, WorkFits, Next
  PROVE  row' \in [Files -> RowStates] /\ absent' \subseteq Files
<1>1. row \in [Files -> RowStates] /\ absent \subseteq Files
  BY DEF TypeOK
<1>2. ASSUME NEW f \in Files, Remove(f)
      PROVE  UNCHANGED row /\ absent' \in {absent, absent \cup {f}}
  BY <1>2 DEF Remove, Change
<1>3. ASSUME NEW f \in Files, Resolve(f)
      PROVE  UNCHANGED absent /\ row' \in [Files -> RowStates]
  BY <1>1, <1>3 DEF Resolve, RowStates
<1>4. ASSUME NEW a \in Attachers, MarkMissing(a)
      PROVE  UNCHANGED absent /\ row' \in [Files -> RowStates]
  BY <1>1, <1>4 DEF MarkMissing, RowStates
<1> QED
  BY <1>1, <1>2, <1>3, <1>4, RecordTypes, TableMoves

\* The files the watchers owe a row.
LEMMA OwedTypes ==
  ASSUME TypeOK, WorkFits, Next
  PROVE  owed' \in [Attachers -> SUBSET Files]
<1> DEFINE Good == owed' \in [Attachers -> SUBSET Files]
<1>1. owed \in [Attachers -> SUBSET Files]
  BY DEF TypeOK
<1>2. ASSUME NEW f \in Files, Remove(f) \/ \E size \in Sizes : Write(f, size)
      PROVE  Good
  BY <1>1, <1>2 DEF Remove, Write, Paid
<1>3. ASSUME NEW a \in Attachers, NEW f \in Files, NEW size \in Sizes, WriteLost(a, f, size)
      PROVE  Good
  BY <1>1, <1>3 DEF WriteLost
<1>4. ASSUME NEW a \in Attachers, InsertNew(a) \/ DetectInsert(a)
      PROVE  Good
  BY <1>1, <1>4 DEF InsertNew, DetectInsert, Record, Paid
<1>5. ASSUME NEW a \in Attachers, AttachInsert(a)
      PROVE  Good
  BY <1>1, <1>5 DEF AttachInsert, Discard
<1>6. CASE Detach \/ Crash
  BY <1>1, <1>6 DEF Detach, Discard, Crash
<1>7. ASSUME NEW a \in Attachers,
             \/ ScanList(a) \/ LookUp(a) \/ Receive(a) \/ Tick(a) \/ DetectLook(a)
             \/ ScanTell(a) \/ DetectTell(a)
             \/ AttachBegin(a) \/ AttachGivesUp(a) \/ AttachStart(a)
             \/ ScanFails(a) \/ DetectFails(a) \/ MarkMissing(a)
             \/ \E d \in Dirs : WalkDir(a, d) \/ WalkUnreadable(a, d)
             \/ \E f \in Files : SweepFile(a, f)
      PROVE  UNCHANGED owed
  BY <1>7 DEF ScanList, WalkDir, WalkUnreadable, LookUp, MarkMissing, ScanTell, ScanFails,
     AttachBegin, AttachGivesUp, AttachStart, Receive, Tick, SweepFile, DetectLook, DetectTell,
     DetectFails, rows
<1>8. ASSUME NEW f \in Files, Resolve(f)
      PROVE  UNCHANGED owed
  BY <1>8 DEF Resolve
<1> QED
  BY <1>1, <1>2, <1>3, <1>4, <1>5, <1>6, <1>7, <1>8 DEF Next, Task, Scan, Forward

Typed == TypeOK /\ WorkFits

LEMMA TypedStep ==
  ASSUME Typed, [Next]_watchVars
  PROVE  Typed'
<1>1. CASE Next
  <2>1. TypeOK'
    BY <1>1, RegistryTypes, SlotTypes, ChanTypes, TaskTypes, TellingTypes, TableTypes,
       OwedTypes
       DEF Typed, TypeOK, SlotRow, ScanRow, ChanOK, Event, WorkRow, CountRow
  <2> QED
    BY <1>1, <2>1, TaskTypes DEF Typed
<1>2. CASE UNCHANGED watchVars
  BY <1>2 DEF watchVars, Typed, TypeOK, WorkFits
<1> QED
  BY <1>1, <1>2

LEMMA TypedStarts ==
  ASSUME Init
  PROVE  Typed
<1>1. /\ slot \in [Attachers -> SlotRow] /\ work \in [Attachers -> WorkRow]
      /\ pend \in [Attachers -> [Files -> Sizes]]
  BY DEF Init, Idle, NoScan, SlotRow, ScanRow, NoWork, WorkRow, Nothing, Sizes
<1>2. ChanOK
  <2>1. <<>> \in Seq(Event) /\ Len(<<>>) = 0 /\ 0 <= ChanSize
    BY EmptySeq, WatchAssumption
  <2> QED
    BY <2>1 DEF Init, ChanOK
<1>3. disk \in [Files -> Sizes] /\ row \in [Files -> RowStates] /\ announced \in [Files -> Nat]
  BY DEF Init, Sizes, RowStates
<1>4. entry \in Attachers \cup {None} /\ over \in [Attachers -> BOOLEAN] /\ count \in CountRow
  BY DEF Init, CountRow
<1>5. /\ absent \subseteq Files /\ owed \in [Attachers -> SUBSET Files]
      /\ unsaid \subseteq Files /\ telling \in [Attachers -> SUBSET Files]
  BY DEF Init
<1>6. tombstone \in BOOLEAN
  BY DEF Init
<1>7. detached \in BOOLEAN
  BY DEF Init
<1>8. TypeOK
  BY <1>1, <1>2, <1>3, <1>4, <1>5, <1>6, <1>7 DEF TypeOK, SlotRow, ScanRow, WorkRow, ChanOK,
     Event, CountRow
<1> QED
  BY <1>8 DEF Typed, WorkFits, Init, NoWork

\* The table, the registry, the watchers and their tasks stay well typed.
THEOREM WatchTypeCorrect == Spec => []TypeOK
<1>1. Typed => TypeOK
  BY DEF Typed
<1> QED
  BY <1>1, TypedStep, TypedStarts, PTL DEF Spec

-----------------------------------------------------------------------------
(* What a scan has seen.                                                   *)

\* A scan knows rows only; each of their files is still to be looked for, could
\* not be looked for, was found or was absent.
ScanSees ==
  \A a \in Attachers : slot[a].scan = "walk" =>
    \A f \in slot[a].s.known :
      /\ row[f] # "none"
      /\ \/ DirOf[f] \in slot[a].s.dirs \cup slot[a].s.unread
         \/ f \in slot[a].s.found
         \/ f \in absent

\* A file that has a row and is not there has been absent.
Vanished == \A f \in Files : row[f] # "none" /\ ~ OnDisk(f) => f \in absent

\* What is to be announced, by one task, and what was never announced is a row;
\* and no announcement that was lost is still to come.
Telling ==
  /\ \A a \in Attachers : \A f \in telling[a] : row[f] # "none" /\ f \notin unsaid
  /\ \A a, b \in Attachers : \A f \in telling[a] : f \in telling[b] => a = b
  /\ \A f \in unsaid : row[f] # "none"

Seen == ScanSees /\ Vanished /\ MissingWasAbsent /\ Telling /\ AnnouncedAtMostOnce

\* The rows a scan marks are of files that were absent.
LEMMA GoneWasAbsent ==
  ASSUME Typed, Seen, NEW a \in Attachers, MarkMissing(a), NEW f \in Gone(slot[a].s)
  PROVE  f \in Files /\ row[f] # "none" /\ f \in absent
<1>1. /\ f \in slot[a].s.known /\ NameOf[f] \notin Names(slot[a].s.found)
      /\ DirOf[f] \notin slot[a].s.unread
  BY DEF Gone
<1>2. slot[a].scan = "walk" /\ slot[a].s.dirs = {}
  BY DEF MarkMissing, Scanning
<1>3. f \notin slot[a].s.found
  BY <1>1 DEF Names
<1>4. slot[a].s.known \subseteq Files
  BY DEF Typed, TypeOK
<1> QED
  BY <1>1, <1>2, <1>3, <1>4 DEF Seen, ScanSees

\* A row stays a row, and what was absent has been.
LEMMA RowsStay ==
  ASSUME Typed, [Next]_watchVars
  PROVE  /\ \A f \in Files : row[f] # "none" => row'[f] # "none"
         /\ absent \subseteq absent'
<1>1. row \in [Files -> RowStates]
  BY DEF Typed, TypeOK
<1>2. ASSUME NEW a \in Attachers, NEW S \in SUBSET Files, Record(a, S)
      PROVE  /\ \A f \in Files : row[f] # "none" => row'[f] # "none"
             /\ absent \subseteq absent'
  BY <1>2 DEF Record
<1>3. ASSUME NEW a \in Attachers, MarkMissing(a)
      PROVE  /\ \A f \in Files : row[f] # "none" => row'[f] # "none"
             /\ absent \subseteq absent'
  BY <1>3 DEF MarkMissing
<1>4. ASSUME NEW f \in Files, Remove(f) \/ Resolve(f)
      PROVE  /\ \A g \in Files : row[g] # "none" => row'[g] # "none"
             /\ absent \subseteq absent'
  BY <1>1, <1>4 DEF Remove, Change, Resolve
<1>5. CASE UNCHANGED <<row, absent>>
  BY <1>5
<1>6. CASE UNCHANGED watchVars
  BY <1>6 DEF watchVars
<1> QED
  BY <1>2, <1>3, <1>4, <1>5, <1>6, TableMoves DEF Typed

\* A scan that is in its walk was there before, and looked into one directory or
\* did nothing; or it has just listed the rows.
LEMMA ScanMoves ==
  ASSUME Typed, [Next]_watchVars, NEW b \in Attachers, slot'[b].scan = "walk"
  PROVE  \/ slot[b].scan = "walk" /\ slot'[b].s = slot[b].s
         \/ ScanList(b)
         \/ \E d \in Dirs : WalkDir(b, d) \/ WalkUnreadable(b, d)
<1> DEFINE Kept == slot[b].scan = "walk" /\ slot'[b].s = slot[b].s
<1>1. slot \in [Attachers -> SlotRow] /\ Idle.scan = "off"
  BY DEF Typed, TypeOK, SlotRow, ScanRow, Idle
<1>2. CASE UNCHANGED slot
  BY <1>2
<1>3. ASSUME NEW a \in Attachers, ~ (a = b)
      PROVE  /\ ScanList(a) => slot'[b] = slot[b]
             /\ \A d \in Dirs : WalkDir(a, d) \/ WalkUnreadable(a, d) => slot'[b] = slot[b]
  BY <1>1, <1>3 DEF ScanList, WalkDir, WalkUnreadable
<1>4. ASSUME NEW a \in Attachers, \/ MarkMissing(a) \/ LookUp(a)
                                  \/ InsertNew(a) \/ ScanTell(a)
      PROVE  Kept
  BY <1>1, <1>4 DEF MarkMissing, LookUp, InsertNew, ScanTell, EndScan, SlotRow
<1>5. ASSUME NEW a \in Attachers, ScanFails(a)
      PROVE  Kept
  <2>1. CASE slot' = [slot EXCEPT ![a] = IF slot[a].at = "scan" THEN Idle
                                         ELSE [slot[a] EXCEPT !.scan = "off"]]
    BY <1>1, <2>1 DEF SlotRow
  <2>2. CASE slot' = [slot EXCEPT ![a].scan = "look", ![a].s.new = New(slot[a].s)]
    BY <1>1, <2>2 DEF SlotRow
  <2>3. CASE slot' = [slot EXCEPT ![a].at = AfterScan(a), ![a].scan = "off", ![a].s = NoScan]
    BY <1>1, <2>3 DEF SlotRow
  <2> QED
    BY <1>5, <2>1, <2>2, <2>3 DEF ScanFails, EndScan
<1>6. ASSUME NEW a \in Attachers, AttachBegin(a) \/ Receive(a) \/ Tick(a)
      PROVE  Kept
  <2>1. UNCHANGED slot \/ StartScan(a, "scan") \/ StartScan(a, slot[a].at)
    BY <1>6 DEF AttachBegin, Receive, Tick, Rescan
  <2> QED
    BY <1>1, <2>1 DEF StartScan, SlotRow
<1>7. ASSUME NEW a \in Attachers, slot' = [slot EXCEPT ![a] = Idle]
      PROVE  Kept
  BY <1>1, <1>7
<1>8. ASSUME NEW a \in Attachers, NEW at, slot' = [slot EXCEPT ![a].at = at]
      PROVE  Kept
  BY <1>1, <1>8 DEF SlotRow
<1>9. ASSUME NEW a \in Attachers, AttachGivesUp(a) \/ AttachStart(a) \/ AttachInsert(a)
      PROVE  Kept
  BY <1>7, <1>8, <1>9 DEF AttachGivesUp, AttachStart, AttachInsert, Discard
<1>10. CASE Detach
  <2>1. UNCHANGED slot \/ (entry \in Attachers /\ slot' = [slot EXCEPT ![entry] = Idle])
    BY <1>10 DEF Detach, Discard, Typed, TypeOK
  <2> QED
    BY <1>7, <2>1
<1>11. ASSUME NEW a \in Attachers, \/ \E f \in Files : SweepFile(a, f)
                                  \/ DetectLook(a) \/ DetectInsert(a) \/ DetectTell(a)
                                  \/ DetectFails(a)
       PROVE  UNCHANGED slot
  BY <1>11 DEF SweepFile, DetectLook, DetectInsert, DetectTell, DetectFails
<1>12. ASSUME NEW f \in Files, \/ Remove(f) \/ Resolve(f)
                               \/ \E size \in Sizes \ {0} : \/ Write(f, size)
                                                            \/ \E a \in Attachers :
                                                                 WriteLost(a, f, size)
       PROVE  UNCHANGED slot
  BY <1>12 DEF Remove, Resolve, Write, WriteLost, Change
<1>13. CASE UNCHANGED watchVars
  BY <1>2, <1>13 DEF watchVars
<1>14. CASE Crash
  BY <1>1, <1>14 DEF Crash
<1> QED
  BY <1>2, <1>3, <1>4, <1>5, <1>6, <1>9, <1>10, <1>11, <1>12, <1>13, <1>14 DEF Next, Task, Scan, Forward

\* What a scan knows, has found and has not found stays true.
LEMMA ScanSeesStep ==
  ASSUME Typed, Seen, [Next]_watchVars
  PROVE  ScanSees'
<1> SUFFICES ASSUME NEW a \in Attachers, slot'[a].scan = "walk", NEW f \in slot'[a].s.known
             PROVE  /\ row'[f] # "none"
                    /\ \/ DirOf[f] \in slot'[a].s.dirs \cup slot'[a].s.unread
                       \/ f \in slot'[a].s.found
                       \/ f \in absent'
  BY DEF ScanSees
<1>1. slot \in [Attachers -> SlotRow] /\ slot[a].s \in ScanRow
  BY DEF Typed, TypeOK, SlotRow, ScanRow
<1>2. f \in Files
  BY TypedStep DEF Typed, TypeOK
<1>3. CASE slot[a].scan = "walk" /\ slot'[a].s = slot[a].s
  BY <1>2, <1>3, RowsStay DEF Seen, ScanSees
<1>4. CASE ScanList(a)
  <2>1. /\ slot'[a].s.known = {g \in Files : row[g] = "present"} /\ slot'[a].s.dirs = Dirs
        /\ row' = row
    BY <1>1, <1>4 DEF ScanList, rows, SlotRow, ScanRow
  <2> QED
    BY <1>2, <2>1, WatchAssumption
<1>5. ASSUME NEW d \in Dirs, WalkDir(a, d)
      PROVE  /\ row'[f] # "none"
             /\ \/ DirOf[f] \in slot'[a].s.dirs \cup slot'[a].s.unread
                \/ f \in slot'[a].s.found
                \/ f \in absent'
  <2>1. /\ slot'[a].s.known = slot[a].s.known /\ slot'[a].s.dirs = slot[a].s.dirs \ {d}
        /\ slot'[a].s.unread = slot[a].s.unread
        /\ slot'[a].s.found = slot[a].s.found \cup {g \in Files : DirOf[g] = d /\ OnDisk(g)}
        /\ row' = row /\ absent' = absent /\ slot[a].scan = "walk"
    BY <1>1, <1>5 DEF WalkDir, Scanning, rows, SlotRow, ScanRow
  <2>2. row[f] # "none"
    BY <2>1 DEF Seen, ScanSees
  <2>3. CASE DirOf[f] = d
    BY <1>2, <2>1, <2>2, <2>3 DEF Seen, Vanished
  <2>4. CASE DirOf[f] # d
    BY <1>2, <2>1, <2>4 DEF Seen, ScanSees
  <2> QED
    BY <2>1, <2>2, <2>3, <2>4
<1>6. ASSUME NEW d \in Dirs, WalkUnreadable(a, d)
      PROVE  /\ row'[f] # "none"
             /\ \/ DirOf[f] \in slot'[a].s.dirs \cup slot'[a].s.unread
                \/ f \in slot'[a].s.found
                \/ f \in absent'
  <2>1. /\ slot'[a].s.known = slot[a].s.known /\ slot'[a].s.dirs = slot[a].s.dirs \ {d}
        /\ slot'[a].s.unread = slot[a].s.unread \cup {d}
        /\ slot'[a].s.found = slot[a].s.found
        /\ row' = row /\ absent' = absent /\ slot[a].scan = "walk"
    BY <1>1, <1>6 DEF WalkUnreadable, Scanning, rows, SlotRow, ScanRow
  <2> QED
    BY <1>2, <2>1 DEF Seen, ScanSees
<1> QED
  BY <1>3, <1>4, <1>5, <1>6, ScanMoves

\* A row's file that is not there has been absent.
LEMMA VanishedStep ==
  ASSUME Typed, Seen, [Next]_watchVars
  PROVE  Vanished'
<1>1. disk \in [Files -> Sizes] /\ row \in [Files -> RowStates]
  BY DEF Typed, TypeOK
<1>2. ASSUME NEW f \in Files, Remove(f)
      PROVE  Vanished'
  BY <1>1, <1>2 DEF Remove, Change, Seen, Vanished, OnDisk
<1>3. ASSUME NEW f \in Files, NEW size \in Sizes \ {0},
             Write(f, size) \/ \E a \in Attachers : WriteLost(a, f, size)
      PROVE  Vanished'
  <2>1. /\ disk' = [disk EXCEPT ![f] = size] /\ size # 0 /\ UNCHANGED <<row, absent>>
    BY <1>3 DEF Write, WriteLost, Change
  <2> QED
    BY <1>1, <2>1 DEF Seen, Vanished, OnDisk
<1>4. ASSUME NEW a \in Attachers, NEW S \in SUBSET Files, Record(a, S), UNCHANGED disk
      PROVE  Vanished'
  BY <1>1, <1>4 DEF Record, Seen, Vanished, OnDisk
<1>5. ASSUME NEW a \in Attachers, MarkMissing(a)
      PROVE  Vanished'
  <2>1. UNCHANGED <<disk, absent>> /\ \A f \in Files : row'[f] # "none" => row[f] # "none"
    BY <1>5, GoneWasAbsent DEF MarkMissing
  <2> QED
    BY <2>1 DEF Seen, Vanished, OnDisk
<1>6. ASSUME NEW f \in Files, Resolve(f)
      PROVE  Vanished'
  BY <1>1, <1>6 DEF Resolve, Seen, Vanished, OnDisk
<1>7. CASE UNCHANGED <<disk, row, absent>>
  BY <1>7 DEF Seen, Vanished, OnDisk
<1>8. \/ UNCHANGED disk
      \/ \E f \in Files : Remove(f)
      \/ \E f \in Files, size \in Sizes \ {0} :
           Write(f, size) \/ \E a \in Attachers : WriteLost(a, f, size)
  <2>1. ASSUME NEW a \in Attachers,
               \/ Task(a) \/ AttachBegin(a) \/ AttachGivesUp(a) \/ AttachStart(a)
               \/ AttachInsert(a)
               \/ ScanFails(a) \/ DetectFails(a) \/ \E d \in Dirs : WalkUnreadable(a, d)
        PROVE  UNCHANGED disk
    BY <2>1 DEF Task, Scan, Forward, ScanList, WalkDir, WalkUnreadable, MarkMissing, LookUp,
       InsertNew, ScanTell, ScanFails, AttachBegin, AttachGivesUp, AttachStart, AttachInsert,
       Receive, Tick, SweepFile, DetectLook, DetectInsert, DetectTell, DetectFails
  <2>2. CASE Detach \/ Crash \/ \E f \in Files : Resolve(f)
    BY <2>2 DEF Detach, Crash, Resolve
  <2>3. CASE UNCHANGED watchVars
    BY <2>3 DEF watchVars
  <2> QED
    BY <2>1, <2>2, <2>3 DEF Next
<1>9. CASE UNCHANGED watchVars
  BY <1>7, <1>9 DEF watchVars
<1> QED
  BY <1>2, <1>3, <1>4, <1>5, <1>6, <1>7, <1>8, <1>9, TableMoves DEF Typed

\* A row marked missing is of a file that was absent.
LEMMA MissingStep ==
  ASSUME Typed, Seen, [Next]_watchVars
  PROVE  MissingWasAbsent'
<1>1. row \in [Files -> RowStates] /\ absent \subseteq absent'
  BY RowsStay DEF Typed, TypeOK
<1>2. \A f \in Files : row'[f] \in {"missing", "user_resolved_missing"} =>
        row[f] \in {"missing", "user_resolved_missing"} \/ f \in absent
  <2>1. ASSUME NEW a \in Attachers, NEW S \in SUBSET Files, Record(a, S)
        PROVE  \A f \in Files : row'[f] \in {row[f], "present"}
    BY <2>1 DEF Record
  <2>2. ASSUME NEW a \in Attachers, MarkMissing(a)
        PROVE  \A f \in Files : row'[f] = row[f] \/ f \in absent
    BY <2>2, GoneWasAbsent DEF MarkMissing
  <2>3. ASSUME NEW f \in Files, Resolve(f)
        PROVE  \A g \in Files : row'[g] = row[g] \/ row[g] = "missing"
    BY <1>1, <2>3 DEF Resolve
  <2>4. ASSUME NEW f \in Files, Remove(f)
        PROVE  UNCHANGED row
    BY <2>4 DEF Remove, Change
  <2>5. CASE UNCHANGED watchVars
    BY <2>5 DEF watchVars
  <2> QED
    BY <2>1, <2>2, <2>3, <2>4, <2>5, TableMoves DEF Typed
<1> QED
  BY <1>1, <1>2 DEF Seen, MissingWasAbsent

\* A row is made by an insert only.
LEMMA RowsAreInserted ==
  ASSUME Typed, Seen, [Next]_watchVars
  PROVE  \/ \A f \in Files : row'[f] = "none" <=> row[f] = "none"
         \/ \E a \in Attachers, S \in SUBSET Files : Record(a, S)
<1>1. row \in [Files -> RowStates]
  BY DEF Typed, TypeOK
<1>2. ASSUME NEW a \in Attachers, MarkMissing(a)
      PROVE  \A f \in Files : row'[f] = "none" <=> row[f] = "none"
  BY <1>2, GoneWasAbsent DEF MarkMissing
<1>3. ASSUME NEW f \in Files, Remove(f) \/ Resolve(f)
      PROVE  \A g \in Files : row'[g] = "none" <=> row[g] = "none"
  BY <1>1, <1>3 DEF Remove, Change, Resolve
<1>4. CASE UNCHANGED row \/ UNCHANGED watchVars
  BY <1>4 DEF watchVars
<1> QED
  BY <1>2, <1>3, <1>4, TableMoves DEF Typed

\* A row is to be announced by the task that made it, until it is or never will be.
LEMMA TellingStep ==
  ASSUME Typed, Seen, [Next]_watchVars
  PROVE  Telling' /\ AnnouncedAtMostOnce'
<1>1. /\ announced \in [Files -> Nat] /\ row \in [Files -> RowStates]
      /\ telling \in [Attachers -> SUBSET Files] /\ unsaid \subseteq Files
  BY DEF Typed, TypeOK
<1>2. Telling /\ AnnouncedAtMostOnce
  BY DEF Seen
<1>3. ASSUME NEW a \in Attachers, NEW S \in SUBSET Files, Record(a, S), UNCHANGED told
      PROVE  Telling' /\ AnnouncedAtMostOnce'
  <2> DEFINE landed == {f \in S : row[f] = "none"}
  <2>1. /\ \A b \in Attachers : telling'[b] = IF b = a THEN telling[b] \cup landed ELSE telling[b]
        /\ \A f \in Files : row'[f] = IF f \in landed THEN "present" ELSE row[f]
        /\ announced' = announced /\ unsaid' = unsaid
    BY <1>1, <1>3 DEF Record, told
  <2>2. \A f \in landed : /\ f \in Files /\ row[f] = "none" /\ f \notin unsaid
                          /\ \A b \in Attachers : f \notin telling[b]
    BY <1>2 DEF Telling
  <2> HIDE DEF landed
  <2>3. Telling'
    BY <1>1, <1>2, <2>1, <2>2 DEF Telling
  <2>4. \A f \in Files : (row'[f] = "none" \/ Untold(f)') <=> (row[f] = "none" \/ Untold(f))
    <3> SUFFICES ASSUME NEW f \in Files
                 PROVE  (row'[f] = "none" \/ Untold(f)') <=> (row[f] = "none" \/ Untold(f))
      OBVIOUS
    <3>1. CASE f \in landed
      BY <2>1, <2>2, <3>1 DEF Untold
    <3>2. CASE f \notin landed
      BY <2>1, <3>2 DEF Untold
    <3> QED
      BY <3>1, <3>2
  <2> QED
    BY <1>2, <2>1, <2>3, <2>4 DEF AnnouncedAtMostOnce
<1>4. ASSUME NEW a \in Attachers, Announce(a), UNCHANGED row
      PROVE  Telling' /\ AnnouncedAtMostOnce'
  <2>1. /\ \A b \in Attachers : telling'[b] = IF b = a THEN {} ELSE telling[b]
        /\ \A f \in Files : announced'[f] = announced[f] + (IF f \in telling[a] THEN 1 ELSE 0)
        /\ row' = row /\ unsaid' = unsaid
    BY <1>1, <1>4 DEF Announce
  <2>2. Telling'
    BY <1>1, <1>2, <2>1 DEF Telling
  <2> SUFFICES ASSUME NEW f \in Files
               PROVE  announced'[f] = (IF row'[f] = "none" \/ Untold(f)' THEN 0 ELSE 1)
    BY <2>2 DEF AnnouncedAtMostOnce
  <2>3. CASE f \in telling[a]
    <3>1. announced[f] = 0 /\ row'[f] # "none" /\ ~ Untold(f)'
      BY <1>2, <2>1, <2>3 DEF AnnouncedAtMostOnce, Telling, Untold
    <3> QED
      BY <2>1, <2>3, <3>1
  <2>4. CASE f \notin telling[a]
    <3>1. announced'[f] = announced[f]
      BY <1>1, <2>1, <2>4
    <3>2. Untold(f)' <=> Untold(f)
      BY <2>1, <2>4 DEF Untold
    <3> QED
      BY <1>2, <2>1, <3>1, <3>2 DEF AnnouncedAtMostOnce
  <2> QED
    BY <2>3, <2>4
<1>5. ASSUME NEW lost \in SUBSET Attachers,
             \A b \in Attachers : telling'[b] = IF b \in lost THEN {} ELSE telling[b],
             unsaid' = unsaid \cup UNION {telling[b] : b \in lost},
             UNCHANGED <<row, announced>>
      PROVE  Telling' /\ AnnouncedAtMostOnce'
  <2>1. \A f \in Files : Untold(f)' <=> Untold(f)
    BY <1>5 DEF Untold
  <2>2. Telling'
    BY <1>1, <1>2, <1>5 DEF Telling
  <2> QED
    BY <1>2, <1>5, <2>1, <2>2 DEF AnnouncedAtMostOnce
<1>6. ASSUME NEW a \in Attachers, Silence(a), UNCHANGED row
      PROVE  Telling' /\ AnnouncedAtMostOnce'
  <2>1. /\ \A b \in Attachers : telling'[b] = IF b \in {a} THEN {} ELSE telling[b]
        /\ unsaid' = unsaid \cup UNION {telling[b] : b \in {a}}
        /\ UNCHANGED <<row, announced>>
    BY <1>1, <1>6 DEF Silence
  <2> QED
    BY <1>5, <2>1
<1>7. CASE Crash
  <2>1. /\ \A b \in Attachers : telling'[b] = IF b \in Attachers THEN {} ELSE telling[b]
        /\ unsaid' = unsaid \cup UNION {telling[b] : b \in Attachers}
        /\ UNCHANGED <<row, announced>>
    BY <1>7 DEF Crash
  <2> QED
    BY <1>5, <2>1
<1>8. CASE /\ UNCHANGED <<telling, told>>
           /\ \A f \in Files : row'[f] = "none" <=> row[f] = "none"
  <2>1. \A f \in Files : Untold(f)' <=> Untold(f)
    BY <1>8 DEF Untold, told
  <2>2. Telling'
    BY <1>1, <1>2, <1>8 DEF Telling, told
  <2> QED
    BY <1>2, <1>8, <2>1, <2>2 DEF AnnouncedAtMostOnce, told
<1>9. CASE UNCHANGED watchVars
  BY <1>8, <1>9 DEF watchVars, told
<1> QED
  BY <1>3, <1>4, <1>6, <1>7, <1>8, <1>9, TellingMoves, RowsAreInserted DEF Typed

\* Both hold in every reachable state.
LEMMA AlwaysSeen == Spec => [](Typed /\ Seen)
<1>1. Typed /\ Seen /\ [Next]_watchVars => (Typed /\ Seen)'
  BY TypedStep, ScanSeesStep, VanishedStep, MissingStep, TellingStep DEF Seen
<1>2. Init => Typed /\ Seen
  <2>1. Init => Seen
    BY DEF Init, Seen, ScanSees, Vanished, MissingWasAbsent, Telling, AnnouncedAtMostOnce,
       Untold, Idle
  <2> QED
    BY <2>1, TypedStarts
<1> QED
  BY <1>1, <1>2, PTL DEF Spec

\* Whichever of events, rescans and attaches find a file, and in whatever order,
\* its detection is published at most once and never without its row; a row
\* goes without its event only when the publication of the task that inserted it
\* failed, or that task went with its watcher or with the process.
THEOREM DetectedAtMostOnce == Spec => []AnnouncedAtMostOnce
<1>1. Seen => AnnouncedAtMostOnce
  BY DEF Seen
<1> QED
  BY <1>1, AlwaysSeen, PTL

\* A row is marked missing only if its file was absent at some time since the
\* row was made.
THEOREM LossWasSeen == Spec => []MissingWasAbsent
<1>1. Seen => MissingWasAbsent
  BY DEF Seen
<1> QED
  BY <1>1, AlwaysSeen, PTL

-----------------------------------------------------------------------------
(* Detach, with one attach at a time.                                      *)

\* The watcher that is live is the registered one, and after a detach none is;
\* an attach under way will find the tombstone.
Detached ==
  /\ \A a \in Attachers : slot[a].at = "live" <=> entry = a
  /\ detached => entry = None /\ (tombstone \/ \A a \in Attachers : slot[a].at = "idle")

\* No step of an attach, a detach or a task breaks it.
LEMMA DetachedStep ==
  ASSUME \A a, b \in Attachers : a = b, Typed, Detached, [Next]_watchVars
  PROVE  Detached'
<1>1. /\ slot \in [Attachers -> SlotRow] /\ entry \in Attachers \cup {None}
      /\ None \notin Attachers /\ Idle.at = "idle"
  BY WatchAssumption DEF Typed, TypeOK, SlotRow, ScanRow, Idle
<1>2. ASSUME UNCHANGED <<entry, tombstone, detached>>,
             \A a \in Attachers : \/ slot'[a].at = slot[a].at
                                  \/ slot[a].at # "live" /\ slot'[a].at = "idle"
                                  \/ slot[a].at = "scan" /\ slot'[a].at = "start"
      PROVE  Detached'
  BY <1>2 DEF Detached
<1>3. ASSUME NEW a \in Attachers, AttachBegin(a)
      PROVE  Detached'
  <2>1. slot'[a].at = "scan" /\ entry = None /\ entry' = None /\ detached' = FALSE
    BY <1>1, <1>3 DEF AttachBegin, StartScan, SlotRow
  <2> QED
    BY <1>1, <2>1 DEF Detached
<1>4. ASSUME NEW a \in Attachers, AttachStart(a)
      PROVE  Detached'
  <2>1. /\ slot[a].at = "start" /\ slot'[a].at = "insert"
        /\ UNCHANGED <<entry, tombstone, detached>>
    BY <1>1, <1>4 DEF AttachStart, SlotRow
  <2> QED
    BY <2>1 DEF Detached
<1>5. ASSUME NEW a \in Attachers, AttachInsert(a)
      PROVE  Detached'
  <2>1. slot[a].at = "insert" /\ detached' = detached
    BY <1>5 DEF AttachInsert
  <2>2. entry = None
    BY <1>1, <2>1 DEF Detached
  <2>3. CASE tombstone /\ Discard(a) /\ UNCHANGED entry
    BY <1>1, <2>1, <2>2, <2>3 DEF Discard, Detached
  <2>4. CASE ~ tombstone /\ entry' = a /\ slot' = [slot EXCEPT ![a].at = "live"]
    <3>1. ~ detached /\ slot'[a].at = "live"
      BY <1>1, <2>1, <2>4 DEF Detached, SlotRow
    <3> QED
      BY <2>1, <2>4, <3>1 DEF Detached
  <2> QED
    BY <1>5, <2>2, <2>3, <2>4 DEF AttachInsert
<1>6. CASE Detach
  <2>1. CASE entry # None /\ entry' = None /\ Discard(entry)
    BY <1>1, <2>1 DEF Discard, Detached
  <2>2. CASE entry = None /\ tombstone' = TRUE /\ UNCHANGED <<entry, slot>>
    BY <1>1, <2>2 DEF Detached
  <2> QED
    BY <1>6, <2>1, <2>2 DEF Detach
<1>7. ASSUME NEW a \in Attachers, AttachGivesUp(a)
      PROVE  Detached'
  <2>1. /\ slot[a].at \in {"scan", "start"} \/ slot[a].scan = "list"
        /\ slot' = [slot EXCEPT ![a] = Idle] /\ UNCHANGED <<entry, tombstone, detached>>
    BY <1>7 DEF AttachGivesUp
  <2>2. slot[a].at # "live"
    BY <1>7 DEF AttachGivesUp
  <2> QED
    BY <1>1, <1>2, <2>1, <2>2
<1>8. ASSUME NEW a \in Attachers, Task(a) \/ ScanFails(a) \/ DetectFails(a)
                                  \/ \E d \in Dirs : WalkUnreadable(a, d)
      PROVE  Detached'
  <2>1. UNCHANGED <<entry, tombstone, detached>>
    BY <1>8 DEF Task, Scan, Forward, ScanList, WalkDir, MarkMissing, LookUp, InsertNew, ScanTell,
                ScanFails, DetectFails, WalkUnreadable, Receive, Tick, SweepFile,
                DetectLook, DetectInsert, DetectTell
  <2>2. CASE UNCHANGED slot
    BY <1>2, <2>1, <2>2
  <2>3. /\ slot[a] \in SlotRow /\ slot[a].s \in ScanRow
        /\ slot[a].at = "idle" => slot[a].at # "scan"
    BY <1>1 DEF SlotRow
  <2>4. ASSUME NEW r, slot' = [slot EXCEPT ![a] = r],
               \/ r.at = slot[a].at
               \/ r = Idle /\ slot[a].at # "live"
               \/ slot[a].at = "scan" /\ r.at = "start"
        PROVE  Detached'
    <3>1. slot'[a] = r /\ \A b \in Attachers : b = a
      BY <1>1, <2>4
    <3>2. \A b \in Attachers : \/ slot'[b].at = slot[b].at
                               \/ slot[b].at # "live" /\ slot'[b].at = "idle"
                               \/ slot[b].at = "scan" /\ slot'[b].at = "start"
      BY <1>1, <2>4, <3>1
    <3> QED
      BY <1>2, <2>1, <3>2
  <2>5. ASSUME Scanning(a, "list"), ScanFails(a)
        PROVE  Detached'
    <3>1. slot' = [slot EXCEPT ![a] = IF slot[a].at = "scan" THEN Idle
                                      ELSE [slot[a] EXCEPT !.scan = "off"]]
      BY <2>5 DEF ScanFails, Scanning
    <3>2. CASE slot[a].at = "scan"
      <4>1. slot' = [slot EXCEPT ![a] = Idle]
        BY <3>1, <3>2
      <4> QED
        BY <2>4, <3>2, <4>1
    <3>3. CASE slot[a].at # "scan"
      <4>1. slot' = [slot EXCEPT ![a] = [slot[a] EXCEPT !.scan = "off"]]
        BY <3>1, <3>3
      <4>2. [slot[a] EXCEPT !.scan = "off"].at = slot[a].at
        BY <2>3 DEF SlotRow
      <4> QED
        BY <2>4, <4>1, <4>2
    <3> QED
      BY <3>2, <3>3
  <2>6. ASSUME slot' = [slot EXCEPT ![a].at = AfterScan(a), ![a].scan = "off", ![a].s = NoScan]
        PROVE  Detached'
    <3>1. PICK r : r = [[[slot[a] EXCEPT !.at = AfterScan(a)] EXCEPT !.scan = "off"]
                        EXCEPT !.s = NoScan]
      OBVIOUS
    <3>2. slot' = [slot EXCEPT ![a] = r]
      BY <1>1, <2>6, <3>1
    <3>3. r.at = AfterScan(a)
      BY <2>3, <3>1 DEF SlotRow
    <3>4. r.at = slot[a].at \/ (slot[a].at = "scan" /\ r.at = "start")
      BY <3>3 DEF AfterScan
    <3> QED
      BY <2>4, <3>2, <3>4
  <2>7. ASSUME slot'[a].at = slot[a].at
        PROVE  Detached'
    <3>1. \A b \in Attachers : slot'[b].at = slot[b].at
      BY <2>7
    <3> QED
      BY <1>2, <2>1, <3>1
  <2>8. CASE ScanList(a)
    <3>1. slot'[a].at = slot[a].at
      BY <1>1, <2>3, <2>8 DEF ScanList, SlotRow
    <3> QED
      BY <2>7, <3>1
  <2>9. ASSUME NEW d \in Dirs, WalkDir(a, d) \/ WalkUnreadable(a, d)
        PROVE  Detached'
    <3>1. slot'[a].at = slot[a].at
      BY <1>1, <2>3, <2>9 DEF WalkDir, WalkUnreadable, SlotRow
    <3> QED
      BY <2>7, <3>1
  <2>10. ASSUME slot' = [slot EXCEPT ![a].scan = "look", ![a].s.new = New(slot[a].s)]
         PROVE  Detached'
    <3>1. slot'[a].at = slot[a].at
      BY <1>1, <2>3, <2>10 DEF SlotRow
    <3> QED
      BY <2>7, <3>1
  <2>11. CASE LookUp(a)
    <3>1. slot'[a].at = slot[a].at
      BY <1>1, <2>3, <2>11 DEF LookUp, SlotRow
    <3> QED
      BY <2>7, <3>1
  <2>12. ASSUME StartScan(a, slot[a].at)
         PROVE  Detached'
    <3>1. slot'[a].at = slot[a].at
      BY <1>1, <2>3, <2>12 DEF StartScan, SlotRow
    <3> QED
      BY <2>7, <3>1
  <2>13. CASE ScanFails(a)
    BY <2>5, <2>6, <2>10, <2>13 DEF ScanFails, EndScan
  <2>14. CASE InsertNew(a)
    <3>1. slot'[a].at = slot[a].at
      BY <1>1, <2>3, <2>14 DEF InsertNew, SlotRow
    <3> QED
      BY <2>7, <3>1
  <2>15. CASE Scan(a)
    BY <2>6, <2>8, <2>9, <2>10, <2>11, <2>15, <2>14 DEF Scan, MarkMissing, ScanTell, EndScan
  <2>16. CASE Forward(a)
    BY <2>2, <2>12, <2>16 DEF Forward, Receive, Tick, Rescan, SweepFile, DetectLook, DetectInsert, DetectTell
  <2> QED
    BY <1>8, <2>2, <2>9, <2>13, <2>15, <2>16 DEF Task, DetectFails
<1>9. ASSUME NEW f \in Files, \/ Remove(f) \/ Resolve(f)
                              \/ \E size \in Sizes \ {0} : \/ Write(f, size)
                                                           \/ \E a \in Attachers :
                                                                WriteLost(a, f, size)
      PROVE  UNCHANGED <<entry, tombstone, detached, slot>>
  BY <1>9 DEF Remove, Resolve, Write, WriteLost, Change
<1>10. CASE UNCHANGED <<entry, tombstone, detached, slot>>
  BY <1>2, <1>10
<1>11. CASE UNCHANGED watchVars
  BY <1>10, <1>11 DEF watchVars
<1>12. CASE Crash
  BY <1>1, <1>12 DEF Crash, Detached
<1> QED
  BY <1>3, <1>4, <1>5, <1>6, <1>7, <1>8, <1>9, <1>10, <1>11, <1>12 DEF Next

\* A detach is never undone by the attach it overtook: as long as one attach
\* is under way at a time, no watcher is registered until the next attach
\* begins (detach_project_watcher and the tombstone it leaves).
THEOREM DetachLasts ==
  ASSUME \A a, b \in Attachers : a = b
  PROVE  Spec => []DetachHolds
<1>1. Init => Detached
  BY WatchAssumption DEF Init, Detached, Idle
<1>2. Typed /\ Detached /\ [Next]_watchVars => Detached'
  BY DetachedStep
<1>3. Detached => DetachHolds
  BY DEF Detached, DetachHolds
<1> QED
  BY <1>1, <1>2, <1>3, AlwaysSeen, PTL DEF Spec
=============================================================================
