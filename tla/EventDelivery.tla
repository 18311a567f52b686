--------------------------- MODULE EventDelivery ---------------------------
(***************************************************************************)
(* The event bus and two of its subscribers, from the launch of a tool to  *)
(* the manifest of its run.                                                *)
(*                                                                         *)
(* EventBus::publish inserts a row into the `events` table and then sends  *)
(* it to a tokio broadcast channel, a ring that overwrites what a slow     *)
(* receiver has not read.  The sweep of open tool launches publishes       *)
(* `workflow.run_completed`; spawn_workflow_run_subscriber answers each    *)
(* with a manifest, publishes two events about it on the same bus, and     *)
(* after a lag replays the rows behind a cursor of its own.  The log       *)
(* forwarder takes every event for a signal and reads the table.           *)
(*                                                                         *)
(* Events of all other topics are `Other`; a row is named by its event_id, *)
(* which is its place in `rows`.  The columns of manifests and the text of *)
(* log entries are left out.                                               *)
(***************************************************************************)
EXTENDS Naturals, Sequences, FiniteSets

CONSTANTS
  Launches,    \* rows of tool_launches, all spawned
  Sweepers,    \* watcher tasks that sweep them
  Other,       \* the topic of every event that is no completed run
  RingSize,    \* capacity of the broadcast channel
  PageSize,    \* REPLAY_PAGE_SIZE
  Window,      \* LOG_BUFFER_SIZE
  Setups,      \* the situations to look at, see below
  MaxRows      \* bound: rows of the events table

(* A setup says which launches are open at first, which sweepers run and   *)
(* whether the log forwarder does (the tests of the subscriber leave it    *)
(* out), and bounds the events of other publishers, the statements and     *)
(* file writes that fail and the ends of the process.                      *)
SetupKind ==
  [open : SUBSET Launches, sweepers : SUBSET Sweepers, forwarder : BOOLEAN,
   others : Nat, faults : Nat, restarts : Nat]

ASSUME DeliveryAssumption ==
  /\ Other \notin Launches
  /\ Sweepers \cap {"flush", "runs"} = {}
  /\ IsFiniteSet(Launches)
  /\ {RingSize, PageSize} \subseteq Nat \ {0}
  /\ {Window, MaxRows} \subseteq Nat
  /\ Setups \subseteq SetupKind

VARIABLES
  setup,      \* the situation at hand, never changed
  rows,       \* the events table
  completed,  \* launches with completed_at
  manifests,  \* number of manifest rows of a launch
  sweep,      \* the sweepers
  outgoing,   \* per task: the row it has inserted and not yet sent, or 0
  sent,       \* what was sent since the process started
  next,       \* per receiver: the position in `sent` it reads next
  sub,        \* the workflow run subscriber
  handled,    \* history: times a launch was taken up by this process
  gaveUp,     \* history: a replay of this process ended in a failed query
  log,        \* the log forwarder
  shown,      \* history: rows forwarded to the window by this process
  count       \* what the setup bounds

table == <<rows, outgoing>>
bus == <<sent, next>>
subVars == <<sub, handled, gaveUp>>
logVars == <<log, shown>>
deliveryVars == <<setup, rows, completed, manifests, sweep, outgoing, sent, next,
                  sub, handled, gaveUp, log, shown, count>>

Receivers == {"runs", "log"}
Tasks == Sweepers \cup {"flush", "runs"}

-----------------------------------------------------------------------------
(* The initial state: a process has subscribed its receivers.              *)

SweepIdle == [at |-> "idle", open |-> {}, launch |-> Other]

SubIdle == [at |-> "recv", mode |-> "live", cursor |-> 0, row |-> 0,
            page |-> {}, full |-> FALSE]

LogStarting == [at |-> "start", cursor |-> 0, seed |-> 0, ok |-> TRUE]

Untouched == [l \in Launches |-> [live |-> 0, replay |-> 0]]

ProcessInit ==
  /\ sweep = [s \in Sweepers |-> SweepIdle]
  /\ outgoing = [t \in Tasks |-> 0]
  /\ sent = <<>>
  /\ next = [r \in Receivers |-> 1]
  /\ sub = SubIdle
  /\ handled = Untouched
  /\ gaveUp = FALSE
  /\ log = LogStarting
  /\ shown = {}

Init ==
  /\ setup \in Setups
  /\ rows = <<>>
  /\ completed = Launches \ setup.open
  /\ manifests = [l \in Launches |-> 0]
  /\ ProcessInit
  /\ count = [others |-> 0, faults |-> 0, restarts |-> 0]

Fault ==
  /\ count.faults < setup.faults
  /\ count' = [count EXCEPT !.faults = @ + 1]

-----------------------------------------------------------------------------
(* EventBus: the row first, the broadcast afterwards. *)

Free(t) == outgoing[t] = 0

Insert(t, topic) ==
  /\ Free(t)
  /\ Len(rows) < MaxRows
  /\ rows' = Append(rows, topic)
  /\ outgoing' = [outgoing EXCEPT ![t] = Len(rows) + 1]

Send(t) ==
  /\ ~ Free(t)
  /\ sent' = Append(sent, outgoing[t])
  /\ outgoing' = [outgoing EXCEPT ![t] = 0]
  /\ UNCHANGED <<setup, rows, completed, manifests, sweep, next, subVars, logVars, count>>

(* A row that cannot be inserted is not sent either, and nobody who calls  *)
(* publish looks at the error.                                             *)
Publish(t, topic) ==
  \/ Insert(t, topic) /\ UNCHANGED count
  \/ Free(t) /\ Fault /\ UNCHANGED table

(* The ring keeps the last RingSize messages.                              *)
Oldest == IF Len(sent) > RingSize THEN Len(sent) - RingSize + 1 ELSE 1

CaughtUp(r) == next[r] > Len(sent)
Lagging(r) == next[r] < Oldest

Receive(r) ==
  /\ ~ CaughtUp(r)
  /\ ~ Lagging(r)
  /\ next' = [next EXCEPT ![r] = @ + 1]

(* RecvError::Lagged: the receiver is moved to the oldest message.         *)
CatchUp(r) ==
  /\ Lagging(r)
  /\ next' = [next EXCEPT ![r] = Oldest]

(* Events of other topics: a publish, or a flush of the plan executor that *)
(* commits its rows and then signals.                                      *)
FlushRow ==
  /\ count.others < setup.others
  /\ Insert("flush", Other)
  /\ count' = [count EXCEPT !.others = @ + 1]
  /\ UNCHANGED <<setup, completed, manifests, sweep, bus, subVars, logVars>>

-----------------------------------------------------------------------------
(* sweep_stale_launches and complete_run. *)

(* The open launches of the project whose attribution window has closed.   *)
SweepList(s) ==
  /\ s \in setup.sweepers
  /\ sweep[s].at = "idle" /\ Free(s)
  /\ \E open \in (SUBSET (Launches \ completed)) \ {{}} :
       sweep' = [sweep EXCEPT ![s] = [SweepIdle EXCEPT !.at = "sweep", !.open = open]]
  /\ UNCHANGED <<setup, table, completed, manifests, bus, subVars, logVars, count>>

Resume(w) == IF w.open = {} THEN SweepIdle ELSE [w EXCEPT !.at = "sweep", !.launch = Other]

\* (mutant) the UPDATE has no guard, every sweep publishes what it listed
SweepCompleteAgain(s, l) ==
  /\ sweep[s].at = "sweep" /\ Free(s)
  /\ l \in sweep[s].open
  /\ completed' = completed \cup {l}
  /\ sweep' = [sweep EXCEPT ![s].at = "publish", ![s].launch = l, ![s].open = @ \ {l}]
  /\ UNCHANGED <<setup, table, manifests, bus, subVars, logVars, count>>

(* UPDATE ... WHERE completed_at IS NULL: only the one that set it goes on *)
(* to publish.                                                             *)
SweepComplete(s, l) ==
  /\ sweep[s].at = "sweep" /\ Free(s)
  /\ l \in sweep[s].open
  /\ LET w == [sweep[s] EXCEPT !.open = @ \ {l}]
     IN \/ /\ l \notin completed
           /\ completed' = completed \cup {l}
           /\ sweep' = [sweep EXCEPT ![s] = [w EXCEPT !.at = "publish", !.launch = l]]
        \/ /\ l \in completed
           /\ sweep' = [sweep EXCEPT ![s] = Resume(w)]
           /\ UNCHANGED completed
  /\ UNCHANGED <<setup, table, manifests, bus, subVars, logVars, count>>

SweepPublish(s) ==
  /\ sweep[s].at = "publish"
  /\ Publish(s, sweep[s].launch)
  /\ sweep' = [sweep EXCEPT ![s] = Resume(@)]
  /\ UNCHANGED <<setup, completed, manifests, bus, subVars, logVars>>

(* A failed UPDATE, or a failed list of artifact ids after it, ends the    *)
(* sweep.                                                                  *)
SweepFails(s) ==
  /\ sweep[s].at \in {"sweep", "publish"}
  /\ Free(s)
  /\ Fault
  /\ sweep' = [sweep EXCEPT ![s] = SweepIdle]
  /\ UNCHANGED <<setup, table, completed, manifests, bus, subVars, logVars>>

-----------------------------------------------------------------------------
(* spawn_workflow_run_subscriber: the loop. *)

IsRun(id) == rows[id] \in Launches

TakeUp(id, mode) ==
  handled' = [handled EXCEPT ![rows[id]][mode] = @ + 1]

InLoop == sub.at = "recv" /\ Free("runs")

\* (mutant) a live event moves the cursor to the newest row of the table
RunsReceiveAdvances ==
  /\ InLoop
  /\ Receive("runs")
  /\ LET id == sent[next["runs"]]
     IN \/ /\ IsRun(id)
           /\ TakeUp(id, "live")
           /\ sub' = [sub EXCEPT !.at = "attempt", !.row = id, !.cursor = Len(rows)]
        \/ ~ IsRun(id) /\ UNCHANGED <<sub, handled>>
  /\ UNCHANGED <<setup, table, completed, manifests, sweep, sent, gaveUp, logVars, count>>

(* A live event.  The cursor stays where the last replay left it.          *)
RunsReceive ==
  /\ InLoop
  /\ Receive("runs")
  /\ LET id == sent[next["runs"]]
     IN \/ /\ IsRun(id)
           /\ TakeUp(id, "live")
           /\ sub' = [sub EXCEPT !.at = "attempt", !.row = id]
        \/ ~ IsRun(id) /\ UNCHANGED <<sub, handled>>
  /\ UNCHANGED <<setup, table, completed, manifests, sweep, sent, gaveUp, logVars, count>>

\* (mutant) a lag is noted, and nothing is replayed
RunsLaggedOnly ==
  /\ InLoop
  /\ CatchUp("runs")
  /\ UNCHANGED <<setup, table, completed, manifests, sweep, sent, subVars, logVars, count>>

RunsLagged ==
  /\ InLoop
  /\ CatchUp("runs")
  /\ sub' = [sub EXCEPT !.at = "query", !.mode = "replay"]
  /\ UNCHANGED <<setup, table, completed, manifests, sweep, sent, handled, gaveUp, logVars, count>>

\* (mutant) the query includes the row of the cursor
RunsFrom(cursor) == {id \in DOMAIN rows : IsRun(id) /\ id >= cursor}

(* list_since_by_topic_paged. *)
RunsAfter(cursor) == {id \in DOMAIN rows : IsRun(id) /\ id > cursor}

(* ORDER BY event_id LIMIT PageSize. *)
IsFirstPage(page, ids) ==
  /\ page \subseteq ids
  /\ Cardinality(page) <= PageSize
  /\ Cardinality(page) < PageSize => page = ids
  /\ \A id \in page, j \in ids \ page : id < j

Back(w) == [SubIdle EXCEPT !.cursor = w.cursor]

\* (mutant) neither a short nor an empty page ends the replay
NextRowForever(w) ==
  IF w.page # {} THEN [w EXCEPT !.at = "row", !.row = 0]
  ELSE [w EXCEPT !.at = "query", !.row = 0, !.full = FALSE]

(* After a row: the next one of the page, the next page after a full one,  *)
(* or the loop.                                                            *)
NextRow(w) ==
  IF w.page # {} THEN [w EXCEPT !.at = "row", !.row = 0]
  ELSE IF w.full THEN [w EXCEPT !.at = "query", !.row = 0, !.full = FALSE]
  ELSE Back(w)

RunsQuery ==
  /\ sub.at = "query"
  /\ Free("runs")
  /\ \E page \in SUBSET RunsAfter(sub.cursor) :
       /\ IsFirstPage(page, RunsAfter(sub.cursor))
       /\ sub' = NextRow([sub EXCEPT !.page = page, !.full = (Cardinality(page) = PageSize)])
  /\ UNCHANGED <<setup, table, completed, manifests, sweep, bus, handled, gaveUp, logVars, count>>

(* The query fails: the replay ends with the cursor it has reached.        *)
RunsQueryFails ==
  /\ sub.at = "query"
  /\ Free("runs")
  /\ Fault
  /\ sub' = Back(sub)
  /\ gaveUp' = TRUE
  /\ UNCHANGED <<setup, table, completed, manifests, sweep, bus, handled, logVars>>

RunsRow ==
  /\ sub.at = "row"
  /\ Free("runs")
  /\ \E id \in sub.page :
       /\ \A j \in sub.page : id <= j
       /\ TakeUp(id, "replay")
       /\ sub' = [sub EXCEPT !.at = "attempt", !.row = id, !.page = @ \ {id}]
  /\ UNCHANGED <<setup, table, completed, manifests, sweep, bus, gaveUp, logVars, count>>

-----------------------------------------------------------------------------
(* handle_workflow_run_event and write. *)

(* A live event is done; a replayed row moves the cursor to itself.        *)
Done ==
  sub' = IF sub.mode = "live" THEN Back(sub)
         ELSE NextRow([sub EXCEPT !.cursor = sub.row])

(* manifest.write.attempt, unless the project cannot be read. *)
WriteAttempt ==
  /\ sub.at = "attempt"
  /\ \/ Publish("runs", Other) /\ sub' = [sub EXCEPT !.at = "write"]
     \/ Free("runs") /\ Fault /\ Done /\ UNCHANGED table
  /\ UNCHANGED <<setup, completed, manifests, sweep, bus, handled, gaveUp, logVars>>

(* The file, and then the manifest row.  Without a file the failure is     *)
(* told, without a row nothing is.                                         *)
WriteManifest ==
  /\ sub.at = "write"
  /\ Free("runs")
  /\ \/ /\ manifests' = [manifests EXCEPT ![rows[sub.row]] = @ + 1]
        /\ sub' = [sub EXCEPT !.at = "tell"]
        /\ UNCHANGED count
     \/ Fault /\ sub' = [sub EXCEPT !.at = "tell"] /\ UNCHANGED manifests
     \/ Fault /\ Done /\ UNCHANGED manifests
  /\ UNCHANGED <<setup, table, completed, sweep, bus, handled, gaveUp, logVars>>

(* manifest.write.success or manifest.write.failure. *)
WriteTell ==
  /\ sub.at = "tell"
  /\ Publish("runs", Other)
  /\ Done
  /\ UNCHANGED <<setup, completed, manifests, sweep, bus, handled, gaveUp, logVars>>

-----------------------------------------------------------------------------
(* start_log_forwarder. *)

(* rewound_cursor: at most the newest Window rows are read again.  The     *)
(* drain that follows reaches no window and keeps the cursor.              *)
LogStart ==
  LET seed == IF Len(rows) > Window THEN Len(rows) - Window ELSE 0
  IN /\ setup.forwarder
     /\ log.at = "start"
     /\ \/ /\ log' = [log EXCEPT !.at = "live", !.cursor = seed, !.seed = seed]
           /\ UNCHANGED count
        \/ Fault /\ log' = [log EXCEPT !.at = "stopped"]
     /\ UNCHANGED <<setup, table, completed, manifests, sweep, bus, subVars, shown>>

(* drain_since: every row after the cursor, or none if the query fails.    *)
LogReceive ==
  /\ log.at = "live"
  /\ Receive("log")
  /\ \/ /\ shown' = shown \cup {id \in DOMAIN rows : id > log.cursor}
        /\ log' = [log EXCEPT !.cursor = Len(rows), !.ok = TRUE]
        /\ UNCHANGED count
     \/ Fault /\ log' = [log EXCEPT !.ok = FALSE] /\ UNCHANGED shown
  /\ UNCHANGED <<setup, table, completed, manifests, sweep, sent, subVars>>

\* (mutant) a lag moves the cursor past what was missed
LogLaggedSkips ==
  /\ log.at = "live"
  /\ CatchUp("log")
  /\ log' = [log EXCEPT !.cursor = Len(rows)]
  /\ UNCHANGED <<setup, table, completed, manifests, sweep, sent, subVars, shown, count>>

(* A warning for the user; the next event drains what was missed.          *)
LogLagged ==
  /\ log.at = "live"
  /\ CatchUp("log")
  /\ UNCHANGED <<setup, table, completed, manifests, sweep, sent, subVars, logVars, count>>

-----------------------------------------------------------------------------
(* The process ends and is started again: the ring, the tasks and the      *)
(* cursors are gone, the database stays.                                   *)
Restart ==
  /\ count.restarts < setup.restarts
  /\ count' = [count EXCEPT !.restarts = @ + 1]
  /\ sweep' = [s \in Sweepers |-> SweepIdle]
  /\ outgoing' = [t \in Tasks |-> 0]
  /\ sent' = <<>>
  /\ next' = [r \in Receivers |-> 1]
  /\ sub' = SubIdle
  /\ handled' = Untouched
  /\ gaveUp' = FALSE
  /\ log' = LogStarting
  /\ shown' = {}
  /\ UNCHANGED <<setup, rows, completed, manifests>>

Sweep(s) ==
  \/ \E l \in Launches : SweepComplete(s, l)
  \/ SweepPublish(s)

Runs ==
  \/ RunsReceive \/ RunsLagged \/ RunsQuery \/ RunsRow
  \/ WriteAttempt \/ WriteManifest \/ WriteTell

Log == LogStart \/ LogReceive \/ LogLagged

Next ==
  \/ \E t \in Tasks : Send(t)
  \/ FlushRow
  \/ \E s \in Sweepers : SweepList(s) \/ Sweep(s) \/ SweepFails(s)
  \/ Runs \/ RunsQueryFails
  \/ Log
  \/ Restart

Spec == Init /\ [][Next]_deliveryVars

(* The runtime polls every task until it waits for an event; no launch has *)
(* to be swept, nobody else has to publish and nothing has to fail.        *)
FairSpec ==
  /\ Spec
  /\ \A t \in Tasks : WF_deliveryVars(Send(t))
  /\ \A s \in Sweepers : WF_deliveryVars(Sweep(s))
  /\ WF_deliveryVars(Runs)
  /\ WF_deliveryVars(Log)

-----------------------------------------------------------------------------
(* Properties. *)

SweepState ==
  [at : {"idle", "sweep", "publish"}, open : SUBSET Launches,
   launch : Launches \cup {Other}]

SubState(n) ==
  [at : {"recv", "query", "row", "attempt", "write", "tell"},
   mode : {"live", "replay"}, cursor : 0 .. n, row : 0 .. n,
   page : SUBSET (1 .. n), full : BOOLEAN]

LogState == [at : {"start", "live", "stopped"}, cursor : Nat, seed : Nat, ok : BOOLEAN]

Taking == [live : Nat, replay : Nat]

Bounded == [others : Nat, faults : Nat, restarts : Nat]

(* Type invariant: the tables, the channel and the tasks.                  *)
TypeOK ==
  /\ setup \in SetupKind
  /\ rows \in Seq(Launches \cup {Other})
  /\ completed \subseteq Launches
  /\ manifests \in [Launches -> Nat]
  /\ sweep \in [Sweepers -> SweepState]
  /\ outgoing \in [Tasks -> 0 .. Len(rows)]
  /\ sent \in Seq(1 .. Len(rows))
  /\ next \in [Receivers -> Nat \ {0}]
  /\ sub \in SubState(Len(rows))
  /\ handled \in [Launches -> Taking]
  /\ gaveUp \in BOOLEAN
  /\ log \in LogState
  /\ shown \subseteq 1 .. Len(rows)
  /\ count \in Bounded

(* complete_tool_launch: however many sweeps find a launch open, also      *)
(* after a restart, its completion is published at most once (not at all   *)
(* if the process ends between completed_at and the insert of the event).  *)
LaunchAnnouncedOnce ==
  \A i, j \in DOMAIN rows : IsRun(i) /\ rows[i] = rows[j] => i = j

(* Where the subscriber will still meet a row it has not taken up: in the  *)
(* part of the ring it has to read, or behind its cursor with a replay at  *)
(* hand or certain to come.                                                *)
Ahead(id) ==
  \/ \E k \in DOMAIN sent : k >= next["runs"] /\ sent[k] = id
  \/ id \in sub.page
  \/ /\ id > sub.cursor
     /\ Lagging("runs") \/ sub.at = "query" \/ sub.full

Taken(l) == handled[l].live + handled[l].replay > 0

(* The comments on the subscriber's cursor: a run that was broadcast is    *)
(* taken up or still ahead, through lags, rows inserted between pages and  *)
(* replays that make the subscriber lag behind itself; and after a failed  *)
(* query it is at least behind the cursor, where the next lag finds it.    *)
NoRunSlips ==
  \A k \in DOMAIN sent :
    IsRun(sent[k]) /\ ~ Taken(rows[sent[k]]) =>
      \/ Ahead(sent[k])
      \/ gaveUp /\ sent[k] > sub.cursor

(* "Only one replay can ever walk history": a process takes a run up at    *)
(* most once live and once from the table, so a run has at most two        *)
(* manifests for each start of the application.                            *)
DuplicatesBounded ==
  \A l \in Launches :
    /\ handled[l].live <= 1
    /\ handled[l].replay <= 1
    /\ manifests[l] <= 2 * (count.restarts + 1)

(* start_log_forwarder: when the forwarder waits for events and its last   *)
(* query succeeded, every row whose broadcast it has seen or missed is in  *)
(* the window, except those older than the window at its start.            *)
LogMissesNothing ==
  log.at = "live" /\ log.ok /\ CaughtUp("log") =>
    \A k \in DOMAIN sent : sent[k] > log.seed => sent[k] \in shown

BroadcastRun(l) == \E k \in DOMAIN sent : rows[sent[k]] = l

(* A broadcast run is taken up while the process lives, unless a replay    *)
(* query failed.                                                           *)
RunIsTaken ==
  \A l \in Launches : BroadcastRun(l) ~> (Taken(l) \/ gaveUp \/ ~ BroadcastRun(l))

(* The manifests a replay writes are events on the bus it replays for: the *)
(* subscriber still comes to rest, with nothing left to read.              *)
ReplaySettles == []<>(sub.at = "recv" /\ CaughtUp("runs"))
=============================================================================
