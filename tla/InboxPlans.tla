----------------------------- MODULE InboxPlans -----------------------------
(***************************************************************************)
(* An inbox item and the plans made from it (crate app/inbox: confirm,     *)
(* classify, plan_listener, repair; app/core inbox_plan).  Confirming an   *)
(* item creates a plan and links it; when the plan ends, the item is       *)
(* closed: a calibration master is registered, the item's state is set and *)
(* the link deleted.  Two closers do this, the listener on the event bus   *)
(* and the periodic repair sweep, and a user's cancel does part of it.     *)
(* Nothing here runs in a transaction but classify's writes, so every      *)
(* database statement is a step.                                           *)
(*                                                                         *)
(* Between confirm and the plan's end, review and execution are one step   *)
(* (PlanEnds), and so is discard_plan: PlanReview and PlanApply model them.*)
(***************************************************************************)
EXTENDS Naturals, Sequences, FiniteSets

CONSTANTS
  Items,       \* rows of inbox_items
  Masters,     \* the items detected as calibration masters
  Plans,       \* plan ids that confirms may create
  Users,       \* concurrent callers of confirm, classify and cancel
  None,        \* no row, nobody
  BusSize,     \* capacity of the broadcast channel
  Races,       \* FALSE: nobody links a new plan to an item, nor ends a
               \* plan, while an earlier call on it is still at work
  MaxFaults    \* bound: failing statements and deaths of the process

ASSUME InboxAssumption ==
  /\ Masters \subseteq Items
  /\ None \notin Plans \cup Items \cup Users \cup {"listener", "sweep"}
  /\ BusSize \in Nat \ {0}
  /\ Races \in BOOLEAN
  /\ MaxFaults \in Nat

VARIABLES
  item,      \* inbox_items.state
  link,      \* inbox_plan_links: the plan linked to each item
  plan,      \* plans.state
  session,   \* rows of calibration_session per item
  print,     \* rows of calibration_fingerprint per item
  bus,       \* ends of plans the listener has not received yet
  closer,    \* the two tasks that close items
  lock,      \* PLAN_COMPLETION_LOCKS: who holds the lock of each plan
  user,      \* the calls in progress
  faults     \* statements that failed and deaths so far

db == <<item, link, plan, session, print>>
inboxVars == <<item, link, plan, session, print, bus, closer, lock, user, faults>>

Closers == {"listener", "sweep"}

ItemStates == {"unconfirmed", "plan_open", "resolved"}
PlanStates == {"unused", "draft", "open", "applied", "ended", "discarded"}
Ended == {"applied", "ended", "discarded"}

(* What an event tells, and the sweep's query returns: a plan and how it *)
(* ended.                                                                *)
End(p, s) == [plan |-> p, state |-> s]

IdleCloser == [at |-> "idle", end |-> End(None, "ended"), item |-> None, todo |-> {}]
IdleUser == [at |-> "idle", item |-> None, plan |-> None]

Init ==
  /\ item = [i \in Items |-> "unconfirmed"]
  /\ link = [i \in Items |-> None]
  /\ plan = [p \in Plans |-> "unused"]
  /\ session = [i \in Items |-> 0]
  /\ print = [i \in Items |-> 0]
  /\ bus = <<>>
  /\ closer = [c \in Closers |-> IdleCloser]
  /\ lock = [p \in Plans |-> None]
  /\ user = [u \in Users |-> IdleUser]
  /\ faults = 0

-----------------------------------------------------------------------------
(* confirm. *)

(* The pre-flight asks for the item's link, never for its state. *)
ConfirmCheck(u, i) ==
  /\ user[u].at = "idle"
  /\ link[i] = None
  /\ user' = [user EXCEPT ![u].at = "insert", ![u].item = i]
  /\ UNCHANGED <<db, bus, closer, lock, faults>>

(* The plan and its items are inserted as a draft; the attribution the user *)
(* picked is applied to the draft, and if that fails the draft stays.       *)
ConfirmInsert(u, p) ==
  /\ user[u].at = "insert"
  /\ plan[p] = "unused"
  /\ plan' = [plan EXCEPT ![p] = "draft"]
  /\ user' = [user EXCEPT ![u].at = "ready", ![u].plan = p]
  /\ UNCHANGED <<item, link, session, print, bus, closer, lock, faults>>

ConfirmReady(u) ==
  /\ user[u].at = "ready"
  /\ plan' = [plan EXCEPT ![user[u].plan] = "open"]
  /\ user' = [user EXCEPT ![u].at = "link"]
  /\ UNCHANGED <<item, link, session, print, bus, closer, lock, faults>>

(* A closer or a cancel is at work on the item. *)
Closing(i) ==
  \/ \E c \in Closers : closer[c].item = i
  \/ \E u \in Users : user[u].at \in {"discard", "reset", "unlink"} /\ user[u].item = i

(* The link's primary key is the item: of two confirms one gets an error, *)
(* after its plan became reviewable.                                      *)
ConfirmLink(u) ==
  /\ user[u].at = "link"
  /\ Races \/ ~ Closing(user[u].item)
  /\ \/ /\ link[user[u].item] = None
        /\ link' = [link EXCEPT ![user[u].item] = user[u].plan]
        /\ user' = [user EXCEPT ![u].at = "mark"]
     \/ /\ link[user[u].item] # None
        /\ user' = [user EXCEPT ![u] = IdleUser]
        /\ UNCHANGED link
  /\ UNCHANGED <<item, plan, session, print, bus, closer, lock, faults>>

ConfirmMark(u) ==
  /\ user[u].at = "mark"
  /\ item' = [item EXCEPT ![user[u].item] = "plan_open"]
  /\ user' = [user EXCEPT ![u] = IdleUser]
  /\ UNCHANGED <<link, plan, session, print, bus, closer, lock, faults>>

-----------------------------------------------------------------------------
(* classify: the state its last transaction writes depends on nothing it   *)
(* has read, so the call is this write.                                    *)
Classify(i) ==
  /\ item' = [item EXCEPT ![i] = "unconfirmed"]
  /\ UNCHANGED <<link, plan, session, print, bus, closer, lock, user, faults>>

-----------------------------------------------------------------------------
(* The plan ends and the end is announced.  A receiver that lags behind by *)
(* more than the channel holds loses the oldest events.                    *)
Announce(p, s) ==
  LET sent == Append(bus, End(p, s))
  IN bus' = IF Len(sent) > BusSize THEN Tail(sent) ELSE sent

-----------------------------------------------------------------------------
(* cancel_inbox_plan: read the link, discard its plan, reset the item, and *)
(* delete the link, without waiting for the listener.                      *)

CancelRead(u, i) ==
  /\ user[u].at = "idle"
  /\ link[i] # None
  /\ user' = [user EXCEPT ![u].at = "discard", ![u].item = i, ![u].plan = link[i]]
  /\ UNCHANGED <<db, bus, closer, lock, faults>>

(* discard_plan takes a plan in any state but applying and paused, both    *)
(* `open` here; a discarded one is left as it is.                          *)
CancelDiscard(u) ==
  /\ user[u].at = "discard"
  /\ LET p == user[u].plan
     IN \/ /\ plan[p] # "discarded"
           /\ plan' = [plan EXCEPT ![p] = "discarded"]
           /\ Announce(p, "discarded")
           /\ user' = [user EXCEPT ![u].at = "reset"]
        \/ /\ plan[p] = "discarded"
           /\ user' = [user EXCEPT ![u].at = "reset"]
           /\ UNCHANGED <<plan, bus>>
        \/ /\ plan[p] = "open"
           /\ user' = [user EXCEPT ![u] = IdleUser]
           /\ UNCHANGED <<plan, bus>>
  /\ UNCHANGED <<item, link, session, print, closer, lock, faults>>

CancelReset(u) ==
  /\ user[u].at = "reset"
  /\ item' = [item EXCEPT ![user[u].item] = "unconfirmed"]
  /\ user' = [user EXCEPT ![u].at = "unlink"]
  /\ UNCHANGED <<link, plan, session, print, bus, closer, lock, faults>>

CancelUnlink(u) ==
  /\ user[u].at = "unlink"
  /\ link' = [link EXCEPT ![user[u].item] = None]
  /\ user' = [user EXCEPT ![u] = IdleUser]
  /\ UNCHANGED <<item, plan, session, print, bus, closer, lock, faults>>

(* A call returns an error at a statement after its first write. *)
CallFails(u) ==
  /\ user[u].at \in {"ready", "link", "mark", "reset", "unlink"}
  /\ faults < MaxFaults
  /\ faults' = faults + 1
  /\ user' = [user EXCEPT ![u] = IdleUser]
  /\ UNCHANGED <<db, bus, closer, lock>>

-----------------------------------------------------------------------------
PlanEnds(p, s) ==
  /\ plan[p] = "open"
  /\ Races \/ \A u \in Users : user[u].plan # p
  /\ plan' = [plan EXCEPT ![p] = s]
  /\ Announce(p, s)
  /\ UNCHANGED <<item, link, session, print, closer, lock, user, faults>>

-----------------------------------------------------------------------------
(* Closing an item.  The closer's steps: lock, register, session, print,   *)
(* find, state, delete.                                                    *)

Steps == {"lock", "register", "session", "print", "find", "state", "delete"}

(* Only an applied plan takes the lock and registers a master. *)
FirstStep(end) == IF end.state = "applied" THEN "lock" ELSE "find"

At(c, step) == closer[c].at = step

Goto(c, step) == closer' = [closer EXCEPT ![c].at = step]

(* The lock is released when the closer is through with the plan. *)
Leave(c) ==
  /\ closer' = [closer EXCEPT ![c].at = "idle", ![c].end = IdleCloser.end, ![c].item = None]
  /\ lock' = [p \in Plans |-> IF lock[p] = c THEN None ELSE lock[p]]

ListenerReceives ==
  /\ At("listener", "idle")
  /\ bus # <<>>
  /\ bus' = Tail(bus)
  /\ closer' = [closer EXCEPT !["listener"].at = FirstStep(Head(bus)),
                              !["listener"].end = Head(bus)]
  /\ UNCHANGED <<db, lock, user, faults>>

\* (mutant) the query forgets that a discarded plan has ended
OrphansNotDiscarded == {i \in Items : link[i] # None /\ plan[link[i]] \in {"applied", "ended"}}

\* (mutant) the query does not look at the plan's state
OrphansOfAnyPlan == {i \in Items : link[i] # None}

(* find_orphaned_plan_links *)
Orphans == {i \in Items : link[i] # None /\ plan[link[i]] \in Ended}

(* run_repair lists the links of ended plans once, then takes one by one. *)
SweepStarts ==
  /\ At("sweep", "idle")
  /\ closer["sweep"].todo = {}
  /\ Orphans # {}
  /\ closer' = [closer EXCEPT !["sweep"].todo = {End(link[i], plan[link[i]]) : i \in Orphans}]
  /\ UNCHANGED <<db, bus, lock, user, faults>>

SweepTakes ==
  /\ At("sweep", "idle")
  /\ \E end \in closer["sweep"].todo :
       closer' = [closer EXCEPT !["sweep"].at = FirstStep(end), !["sweep"].end = end,
                                !["sweep"].todo = @ \ {end}]
  /\ UNCHANGED <<db, bus, lock, user, faults>>

\* (mutant) completions of one plan are not serialised
LockShared(c) ==
  /\ At(c, "lock")
  /\ lock' = [lock EXCEPT ![closer[c].end.plan] = c]
  /\ Goto(c, "register")
  /\ UNCHANGED <<db, bus, user, faults>>

(* complete_applied_plan: one closer per plan at a time. *)
Lock(c) ==
  /\ At(c, "lock")
  /\ lock[closer[c].end.plan] = None
  /\ lock' = [lock EXCEPT ![closer[c].end.plan] = c]
  /\ Goto(c, "register")
  /\ UNCHANGED <<db, bus, user, faults>>

LinkedTo(p) == {i \in Items : link[i] = p}

(* register_master_if_applicable: whether there is a master to register.   *)
(* One that has a session already is taken for registered.                 *)
Register(c) ==
  /\ At(c, "register")
  /\ LET new == {i \in LinkedTo(closer[c].end.plan) \cap Masters : session[i] = 0}
     IN \/ /\ new = {}
           /\ Goto(c, "find")
        \/ \E i \in new :
             closer' = [closer EXCEPT ![c].at = "session", ![c].item = i]
  /\ UNCHANGED <<db, bus, lock, user, faults>>

InsertSession(c) ==
  /\ At(c, "session")
  /\ session' = [session EXCEPT ![closer[c].item] = @ + 1]
  /\ Goto(c, "print")
  /\ UNCHANGED <<item, link, plan, print, bus, lock, user, faults>>

InsertFingerprint(c) ==
  /\ At(c, "print")
  /\ print' = [print EXCEPT ![closer[c].item] = @ + 1]
  /\ Goto(c, "find")
  /\ UNCHANGED <<item, link, plan, session, bus, lock, user, faults>>

(* transition_via_plan_id: look the link up, ... *)
Find(c) ==
  /\ At(c, "find")
  /\ \/ /\ LinkedTo(closer[c].end.plan) = {}
        /\ Leave(c)
     \/ \E i \in LinkedTo(closer[c].end.plan) :
          /\ closer' = [closer EXCEPT ![c].at = "state", ![c].item = i]
          /\ UNCHANGED lock
  /\ UNCHANGED <<db, bus, user, faults>>

(* ... set the item's state, ... *)
SetState(c) ==
  /\ At(c, "state")
  /\ item' = [item EXCEPT ![closer[c].item] =
                IF closer[c].end.state = "applied" THEN "resolved" ELSE "unconfirmed"]
  /\ Goto(c, "delete")
  /\ UNCHANGED <<link, plan, session, print, bus, lock, user, faults>>

(* ... and delete the item's link, whichever plan it names by now. *)
DeleteLink(c) ==
  /\ At(c, "delete")
  /\ link' = [link EXCEPT ![closer[c].item] = None]
  /\ Leave(c)
  /\ UNCHANGED <<item, plan, session, print, bus, user, faults>>

\* (mutant) a failed registration does not stop the transition
StepFailsOn(c) ==
  /\ At(c, "session")
  /\ faults < MaxFaults
  /\ faults' = faults + 1
  /\ Goto(c, "find")
  /\ UNCHANGED <<db, bus, lock, user>>

(* Any statement of a closer may fail: the error is logged and the plan    *)
(* left to the next sweep.                                                 *)
StepFails(c) ==
  /\ closer[c].at \in Steps \ {"lock"}
  /\ faults < MaxFaults
  /\ faults' = faults + 1
  /\ Leave(c)
  /\ UNCHANGED <<db, bus, user>>

(* The process dies: tasks, locks and undelivered events are gone. *)
Crash ==
  /\ faults < MaxFaults
  /\ faults' = faults + 1
  /\ bus' = <<>>
  /\ closer' = [c \in Closers |-> IdleCloser]
  /\ lock' = [p \in Plans |-> None]
  /\ user' = [u \in Users |-> IdleUser]
  /\ UNCHANGED db

CloserStep(c) ==
  \/ Lock(c)
  \/ Register(c)
  \/ InsertSession(c)
  \/ InsertFingerprint(c)
  \/ Find(c)
  \/ SetState(c)
  \/ DeleteLink(c)

Listener == ListenerReceives \/ CloserStep("listener")

Sweep == SweepStarts \/ SweepTakes \/ CloserStep("sweep")

UserStep(u) ==
  \/ \E i \in Items : ConfirmCheck(u, i) \/ CancelRead(u, i)
  \/ \E p \in Plans : ConfirmInsert(u, p)
  \/ ConfirmReady(u)
  \/ ConfirmLink(u)
  \/ ConfirmMark(u)
  \/ CancelDiscard(u)
  \/ CancelReset(u)
  \/ CancelUnlink(u)
  \/ CallFails(u)

Next ==
  \/ Listener
  \/ Sweep
  \/ \E u \in Users : UserStep(u)
  \/ \E i \in Items : Classify(i)
  \/ \E p \in Plans, s \in {"applied", "ended"} : PlanEnds(p, s)
  \/ \E c \in Closers : StepFails(c)
  \/ Crash

Spec == Init /\ [][Next]_inboxVars

(* The two tasks are spawned at start-up and run forever; users owe nothing. *)
FairSpec == Spec /\ WF_inboxVars(Listener) /\ WF_inboxVars(Sweep)

-----------------------------------------------------------------------------
(* Properties. *)

(* Type invariant: the tables, the tasks and the calls. *)
TypeOK ==
  /\ item \in [Items -> ItemStates]
  /\ link \in [Items -> Plans \cup {None}]
  /\ plan \in [Plans -> PlanStates]
  /\ session \in [Items -> Nat]
  /\ print \in [Items -> Nat]
  /\ bus \in Seq([plan : Plans, state : PlanStates]) /\ Len(bus) <= BusSize
  /\ closer \in [Closers -> [at : Steps \cup {"idle"},
                             end : [plan : Plans \cup {None}, state : PlanStates],
                             item : Items \cup {None},
                             todo : SUBSET [plan : Plans, state : PlanStates]]]
  /\ lock \in [Plans -> Closers \cup {None}]
  /\ user \in [Users -> [at : {"idle", "insert", "ready", "link", "mark",
                               "discard", "reset", "unlink"},
                         item : Items \cup {None}, plan : Plans \cup {None}]]
  /\ faults \in Nat

(* A master that reads `resolved` is in the calibration library: whatever  *)
(* fails in complete_applied_plan, and however often it is tried again,    *)
(* the item is not closed before its session exists.                       *)
ResolvedIsRegistered ==
  \A i \in Masters : item[i] = "resolved" => session[i] > 0

(* The listener and the sweep may complete the same plan at the same time, *)
(* and an item may be confirmed again: its master is registered once.      *)
RegisteredOnce == \A i \in Items : session[i] <= 1 /\ print[i] <= 1

(* A plan that a confirm linked keeps its link until it ends: otherwise    *)
(* nothing happens to the item when the plan is applied, and a second      *)
(* plan over the same files can be made.  With Races = FALSE: the late     *)
(* deletion of an earlier plan's link can take the one of the next.        *)
LinkOutlivesPlan ==
  [][\A i \in Items :
       link[i] # None /\ link'[i] = None => plan[link[i]] \in Ended]_inboxVars

(* Every link of an ended plan is removed, although events are lost when   *)
(* the listener lags, statements fail and the process dies.                *)
LinkCloses ==
  \A i \in Items, p \in Plans :
    (link[i] = p /\ plan[p] \in Ended) ~> link[i] # p
=============================================================================
