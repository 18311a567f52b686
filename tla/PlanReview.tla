----------------------------- MODULE PlanReview -----------------------------
(***************************************************************************)
(* The life of plans around a run (crate app/core: plans::approve, reopen, *)
(* discard, retry; plan_apply::apply, lifecycle, paths): several plans,    *)
(* several callers, one registry of active runs.  A call reads the plan    *)
(* row, decides, and writes in a later statement; most writes repeat the   *)
(* condition in their WHERE clause and some do not.                        *)
(*                                                                         *)
(* What a run does to its items is PlanApply's; here a run works, pauses   *)
(* or ends.  All terminal outcomes of a run are the one state `ended`.     *)
(***************************************************************************)
EXTENDS Naturals, Sequences, FiniteSets

CONSTANTS
  Plans,    \* plan ids
  Names,    \* components of paths
  Paths,    \* normalised absolute paths, as sequences of components
  Claims,   \* compute_plan_path_set: the paths each plan claims
  Users,    \* concurrent calls
  Nobody,   \* no plan
  MaxCrashes  \* bound: deaths of the process

ASSUME ReviewAssumption ==
  /\ Paths \subseteq Seq(Names)
  /\ Claims \in [Plans -> SUBSET Paths]
  /\ Nobody \notin Plans
  /\ MaxCrashes \in Nat

VARIABLES
  state,      \* plans.state
  token,      \* plans.approval_token; 0 is NULL
  making,     \* plans whose generator has not made them reviewable yet
  registry,   \* ACTIVE_RUNS: the plans with an entry
  task,       \* the executor task of each plan
  user,       \* the calls in progress
  minted,     \* history: approval tokens issued
  runs,       \* history: runs started per plan
  withdrawn,  \* history: plans taken back by a reopen or a discard
  crashes     \* deaths so far

rows == <<state, token, making>>
ghosts == <<minted, runs, withdrawn>>
reviewVars == <<state, token, making, registry, task, user, minted, runs,
                withdrawn, crashes>>

States == {"none", "draft", "ready_for_review", "approved", "applying",
           "paused", "ended", "discarded"}

IdleUser == [at |-> "idle", plan |-> Nobody, op |-> "apply", token |-> 0]

Init ==
  /\ state = [p \in Plans |-> "none"]
  /\ token = [p \in Plans |-> 0]
  /\ making = {}
  /\ registry = {}
  /\ task = [p \in Plans |-> "none"]
  /\ user = [u \in Users |-> IdleUser]
  /\ minted = 0
  /\ runs = [p \in Plans |-> 0]
  /\ withdrawn = {}
  /\ crashes = 0

Begin(u, step, p, op) ==
  /\ user[u].at = "idle"
  /\ user' = [user EXCEPT ![u] = [at |-> step, plan |-> p, op |-> op, token |-> token[p]]]

Goto(u, step) == user' = [user EXCEPT ![u].at = step]

Return(u) == user' = [user EXCEPT ![u] = IdleUser]

-----------------------------------------------------------------------------
(* Plans come from generators and from retries. *)

InsertPlan(p) ==
  /\ state[p] = "none"
  /\ state' = [state EXCEPT ![p] = "draft"]
  /\ making' = making \cup {p}
  /\ UNCHANGED <<token, registry, task, user, ghosts, crashes>>

(* update_plan_state, which looks at no state: whatever happened to the    *)
(* draft meanwhile is overwritten.                                         *)
MakeReady(p) ==
  /\ p \in making
  /\ state' = [state EXCEPT ![p] = "ready_for_review"]
  /\ making' = making \ {p}
  /\ UNCHANGED <<token, registry, task, user, ghosts, crashes>>

(* retry_plan: a new draft from the items of a finished plan. *)
RetryPlan(parent, p) ==
  /\ state[parent] \in {"ended", "discarded"}
  /\ state[p] = "none"
  /\ state' = [state EXCEPT ![p] = "draft"]
  /\ UNCHANGED <<token, making, registry, task, user, ghosts, crashes>>

-----------------------------------------------------------------------------
(* approve, reopen, discard: the plan is read and its state judged, ...    *)

ApproveRead(u, p) ==
  /\ state[p] = "ready_for_review"
  /\ Begin(u, "approve", p, "apply")
  /\ UNCHANGED <<rows, registry, task, ghosts, crashes>>

ReopenRead(u, p) ==
  /\ state[p] \in {"ready_for_review", "approved"}
  /\ Begin(u, "reopen", p, "apply")
  /\ UNCHANGED <<rows, registry, task, ghosts, crashes>>

DiscardRead(u, p) ==
  /\ state[p] \in {"draft", "ready_for_review", "approved", "ended"}
  /\ Begin(u, "discard", p, "apply")
  /\ UNCHANGED <<rows, registry, task, ghosts, crashes>>

\* (mutant) set_approved without the state in its WHERE clause
ApproveAnyState(p) == TRUE

(* set_approved's WHERE clause *)
MayApprove(p) == state[p] = "ready_for_review"

(* ... and written: set_approved with a new token, ...                     *)
ApproveWrite(u) ==
  /\ user[u].at = "approve"
  /\ LET p == user[u].plan
     IN IF MayApprove(p)
        THEN /\ state' = [state EXCEPT ![p] = "approved"]
             /\ token' = [token EXCEPT ![p] = minted + 1]
             /\ minted' = minted + 1
        ELSE UNCHANGED <<state, token, minted>>
  /\ Return(u)
  /\ UNCHANGED <<making, registry, task, runs, withdrawn, crashes>>

(* set_reopened's WHERE clause *)
MayReopen(p) == state[p] \in {"approved", "ready_for_review"}

(* ... set_reopened, which clears the token, ...                           *)
ReopenWrite(u) ==
  /\ user[u].at = "reopen"
  /\ LET p == user[u].plan
     IN IF MayReopen(p)
        THEN /\ state' = [state EXCEPT ![p] = "draft"]
             /\ token' = [token EXCEPT ![p] = 0]
             /\ withdrawn' = withdrawn \cup {p}
        ELSE UNCHANGED <<state, token, withdrawn>>
  /\ Return(u)
  /\ UNCHANGED <<making, registry, task, minted, runs, crashes>>

(* ... soft_delete_plan, whose WHERE clause names no state.  A draft being *)
(* made is not withdrawn: MakeReady brings it back.                        *)
DiscardWrite(u) ==
  /\ user[u].at = "discard"
  /\ LET p == user[u].plan
     IN /\ state' = [state EXCEPT ![p] = "discarded"]
        /\ withdrawn' = IF p \in making THEN withdrawn ELSE withdrawn \cup {p}
  /\ Return(u)
  /\ UNCHANGED <<token, making, registry, task, minted, runs, crashes>>

-----------------------------------------------------------------------------
(* apply_plan, resume_plan, cancel_plan. *)

ApplyRead(u, p) ==
  /\ state[p] = "approved"
  /\ token[p] # 0
  /\ Begin(u, "register", p, "apply")
  /\ UNCHANGED <<rows, registry, task, ghosts, crashes>>

ResumeRead(u, p) ==
  /\ state[p] = "paused"
  /\ Begin(u, "register", p, "resume")
  /\ UNCHANGED <<rows, registry, task, ghosts, crashes>>

(* Utf8Path::starts_with: a is b or lies below b. *)
StartsWith(a, b) == Len(b) <= Len(a) /\ SubSeq(a, 1, Len(b)) = b

\* (mutant) plans overlap when they claim the same path
SamePath(p, q) == Claims[p] \cap Claims[q] # {}

(* first_overlap *)
Overlaps(p, q) ==
  \E a \in Claims[p], b \in Claims[q] : StartsWith(a, b) \/ StartsWith(b, a)

(* No run of this plan, nor of one whose paths overlap its own. *)
Admitted(p) == p \notin registry /\ \A q \in registry : ~ Overlaps(p, q)

(* check_overlap_and_register: check and insert under OVERLAP_GATE. *)
Register(u) ==
  /\ user[u].at = "register"
  /\ IF Admitted(user[u].plan)
     THEN /\ registry' = registry \cup {user[u].plan}
          /\ Goto(u, "claim")
     ELSE /\ Return(u)
          /\ UNCHANGED registry
  /\ UNCHANGED <<rows, task, ghosts, crashes>>

\* (mutant) the apply CAS looks at neither the state nor the token
ClaimAnyState(u) == TRUE

(* The WHERE clauses of cas_approved_to_applying and resume_run. *)
MayClaim(u) ==
  LET p == user[u].plan
  IN IF user[u].op = "apply"
     THEN state[p] = "approved" /\ token[p] = user[u].token
     ELSE state[p] = "paused"

(* cas_approved_to_applying or resume_run; an error drops the guard. *)
Claim(u) ==
  /\ user[u].at = "claim"
  /\ LET p == user[u].plan
     IN IF MayClaim(u)
        THEN /\ state' = [state EXCEPT ![p] = "applying"]
             /\ runs' = [runs EXCEPT ![p] = IF user[u].op = "apply" THEN @ + 1 ELSE @]
             /\ Goto(u, "spawn")
             /\ UNCHANGED registry
        ELSE /\ registry' = registry \ {p}
             /\ Return(u)
             /\ UNCHANGED <<state, runs>>
  /\ UNCHANGED <<token, making, task, minted, withdrawn, crashes>>

(* spawn_executor_run: the guard moves into the task. *)
Spawn(u) ==
  /\ user[u].at = "spawn"
  /\ task' = [task EXCEPT ![user[u].plan] = "work"]
  /\ Return(u)
  /\ UNCHANGED <<rows, registry, ghosts, crashes>>

(* cancel_plan of a paused plan without a run: read the row and the        *)
(* registry, then end the run with an UPDATE that names no state.          *)
CancelRead(u, p) ==
  /\ state[p] = "paused"
  /\ p \notin registry
  /\ Begin(u, "cancel", p, "apply")
  /\ UNCHANGED <<rows, registry, task, ghosts, crashes>>

CancelWrite(u) ==
  /\ user[u].at = "cancel"
  /\ state' = [state EXCEPT ![user[u].plan] = "ended"]
  /\ Return(u)
  /\ UNCHANGED <<token, making, registry, task, ghosts, crashes>>

-----------------------------------------------------------------------------
(* The executor task: complete_run and pause_run name no state either.     *)
(* A run that ends holds its entry until the task returns; one that pauses *)
(* drops it before the row says `paused`.                                  *)

RunEnds(p) ==
  /\ task[p] = "work"
  /\ state' = [state EXCEPT ![p] = "ended"]
  /\ task' = [task EXCEPT ![p] = "leave"]
  /\ UNCHANGED <<token, making, registry, user, ghosts, crashes>>

TaskLeaves(p) ==
  /\ task[p] = "leave"
  /\ registry' = registry \ {p}
  /\ task' = [task EXCEPT ![p] = "none"]
  /\ UNCHANGED <<rows, user, ghosts, crashes>>

PauseDrops(p) ==
  /\ task[p] = "work"
  /\ registry' = registry \ {p}
  /\ task' = [task EXCEPT ![p] = "pause"]
  /\ UNCHANGED <<rows, user, ghosts, crashes>>

PauseRun(p) ==
  /\ task[p] = "pause"
  /\ state' = [state EXCEPT ![p] = "paused"]
  /\ task' = [task EXCEPT ![p] = "none"]
  /\ UNCHANGED <<token, making, registry, user, ghosts, crashes>>

(* The process dies and starts again; boot reconciliation makes plans that *)
(* were `applying` `paused` (PlanApply has its races).                     *)
Restart ==
  /\ crashes < MaxCrashes
  /\ crashes' = crashes + 1
  /\ state' = [p \in Plans |-> IF state[p] = "applying" THEN "paused" ELSE state[p]]
  /\ making' = {}
  /\ registry' = {}
  /\ task' = [p \in Plans |-> "none"]
  /\ user' = [u \in Users |-> IdleUser]
  /\ UNCHANGED <<token, ghosts>>

UserReads(u, p) ==
  \/ ApproveRead(u, p)
  \/ ReopenRead(u, p)
  \/ DiscardRead(u, p)
  \/ ApplyRead(u, p)
  \/ ResumeRead(u, p)
  \/ CancelRead(u, p)

UserWrites(u) ==
  \/ ApproveWrite(u)
  \/ ReopenWrite(u)
  \/ DiscardWrite(u)
  \/ Register(u)
  \/ Claim(u)
  \/ Spawn(u)
  \/ CancelWrite(u)

PlanStep(p) ==
  \/ InsertPlan(p)
  \/ MakeReady(p)
  \/ RunEnds(p)
  \/ TaskLeaves(p)
  \/ PauseDrops(p)
  \/ PauseRun(p)

Next ==
  \/ \E u \in Users, p \in Plans : UserReads(u, p)
  \/ \E u \in Users : UserWrites(u)
  \/ \E p \in Plans : PlanStep(p)
  \/ \E parent, p \in Plans : RetryPlan(parent, p)
  \/ Restart

Spec == Init /\ [][Next]_reviewVars

-----------------------------------------------------------------------------
(* Properties. *)

(* Type invariant: rows, registry, tasks and calls. *)
TypeOK ==
  /\ state \in [Plans -> States]
  /\ token \in [Plans -> Nat]
  /\ making \subseteq Plans
  /\ registry \subseteq Plans
  /\ task \in [Plans -> {"none", "work", "leave", "pause"}]
  /\ user \in [Users -> [at : {"idle", "approve", "reopen", "discard", "register",
                               "claim", "spawn", "cancel"},
                         plan : Plans \cup {Nobody},
                         op : {"apply", "resume"},
                         token : Nat]]
  /\ minted \in Nat
  /\ runs \in [Plans -> Nat]
  /\ withdrawn \subseteq Plans
  /\ crashes \in Nat

(* The paths a run of p may touch: what it claims and what lies below. *)
Territory(p) == {f \in Paths : \E a \in Claims[p] : StartsWith(f, a)}

(* Spec 025 FR-017: however the checks, pauses, resumes, failed claims and *)
(* restarts of several plans interleave, two executors that work at the    *)
(* same time have no path in common.                                       *)
NoOverlappingRuns ==
  \A p, q \in Plans :
    p # q /\ task[p] = "work" /\ task[q] = "work" => Territory(p) \cap Territory(q) = {}

(* Who stands behind an entry of the registry: a call between its          *)
(* registration and its spawn, or the task the guard moved into.           *)
Callers(p) == {u \in Users : user[u].plan = p /\ user[u].at \in {"claim", "spawn"}}
HasTask(p) == task[p] \in {"work", "leave"}

(* ActiveRunGuard: every entry has exactly one holder, so no entry blocks  *)
(* a plan for good and no plan is executed twice at a time.                *)
EntryHasHolder ==
  \A p \in Plans :
    /\ p \in registry <=> HasTask(p) \/ Callers(p) # {}
    /\ HasTask(p) => Callers(p) = {}
    /\ \A u, v \in Callers(p) : u = v

(* A plan is executed at most once (resumes aside), whoever approves,      *)
(* reopens, discards or applies it at the same time: a second execution    *)
(* needs a retry, a new plan that is reviewed again.                       *)
RunsOnce == \A p \in Plans : runs[p] <= 1

(* A plan that a successful reopen or discard took back is not started     *)
(* afterwards, not even by an apply that had read it as approved.          *)
WithdrawnNeverStarts ==
  [][\A p \in Plans : p \in withdrawn => runs'[p] = runs[p]]_reviewVars
=============================================================================
