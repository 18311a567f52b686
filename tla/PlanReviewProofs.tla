-------------------------- MODULE PlanReviewProofs --------------------------
(***************************************************************************)
(* Theorems of PlanReview, for any number of plans and callers, any paths, *)
(* any claims and any number of crashes.                                   *)
(***************************************************************************)
EXTENDS PlanReview, SequenceTheorems, TLAPS

-----------------------------------------------------------------------------
(* Type correctness.                                                       *)

\* The calls that may be in progress.
Calls == [at : {"idle", "approve", "reopen", "discard", "register",
                "claim", "spawn", "cancel"},
          plan : Plans \cup {Nobody},
          op : {"apply", "resume"},
          token : Nat]

\* A call is about a plan from its first read to its return.
CallHasPlan == \A u \in Users : user[u].at # "idle" => user[u].plan \in Plans

\* A call that begins, moves on or returns leaves the calls well typed.
LEMMA BeginCalls ==
  ASSUME TypeOK, NEW u \in Users, NEW p \in Plans,
         NEW step \in {"approve", "reopen", "discard", "register", "cancel"},
         NEW op \in {"apply", "resume"}, Begin(u, step, p, op)
  PROVE  /\ user' \in [Users -> Calls]
         /\ user'[u] = [at |-> step, plan |-> p, op |-> op, token |-> token[p]]
         /\ \A v \in Users \ {u} : user'[v] = user[v]
<1>1. [at |-> step, plan |-> p, op |-> op, token |-> token[p]] \in Calls
  BY DEF TypeOK, Calls
<1> QED
  BY <1>1 DEF Begin, TypeOK, Calls

\* ... moves on ...
LEMMA GotoCalls ==
  ASSUME TypeOK, NEW u \in Users, NEW step \in {"claim", "spawn"}, Goto(u, step)
  PROVE  /\ user' \in [Users -> Calls]
         /\ user'[u].at = step /\ user'[u].plan = user[u].plan
         /\ user'[u].op = user[u].op /\ user'[u].token = user[u].token
         /\ \A v \in Users \ {u} : user'[v] = user[v]
<1> DEFINE call == [user[u] EXCEPT !.at = step]
<1>1. user[u] \in Calls
  BY DEF TypeOK, Calls
<1>2. /\ call \in Calls /\ call.at = step /\ call.plan = user[u].plan
      /\ call.op = user[u].op /\ call.token = user[u].token
  BY <1>1 DEF Calls
<1>3. user' = [user EXCEPT ![u] = call]
  BY DEF Goto
<1> HIDE DEF call
<1> QED
  BY <1>2, <1>3 DEF TypeOK, Calls

\* ... and returns.
LEMMA ReturnCalls ==
  ASSUME TypeOK, NEW u \in Users, Return(u)
  PROVE  /\ user' \in [Users -> Calls]
         /\ user'[u] = IdleUser
         /\ \A v \in Users \ {u} : user'[v] = user[v]
<1>1. IdleUser \in Calls
  BY DEF IdleUser, Calls
<1> QED
  BY <1>1 DEF Return, TypeOK, Calls

\* A call reads with the row's token and its own plan.
LEMMA ReadStep ==
  ASSUME TypeOK, CallHasPlan, NEW u \in Users, NEW p \in Plans, UserReads(u, p)
  PROVE  /\ TypeOK' /\ CallHasPlan'
         /\ UNCHANGED <<rows, registry, task, ghosts, crashes>>
         /\ user[u].at = "idle"
         /\ user'[u].plan = p
         /\ user'[u].at \in {"approve", "reopen", "discard", "register", "cancel"}
         /\ user'[u].at = "register" /\ user'[u].op = "resume" => state[p] = "paused"
         /\ user'[u].at = "cancel" => state[p] = "paused"
         /\ \A v \in Users \ {u} : user'[v] = user[v]
<1>1. PICK step \in {"approve", "reopen", "discard", "register", "cancel"},
           op \in {"apply", "resume"} :
        /\ Begin(u, step, p, op)
        /\ step = "register" /\ op = "resume" => state[p] = "paused"
        /\ step = "cancel" => state[p] = "paused"
  BY DEF UserReads, ApproveRead, ReopenRead, DiscardRead, ApplyRead, ResumeRead, CancelRead
<1>2. UNCHANGED <<rows, registry, task, ghosts, crashes>>
  BY DEF UserReads, ApproveRead, ReopenRead, DiscardRead, ApplyRead, ResumeRead, CancelRead
<1>3. /\ user' \in [Users -> Calls]
      /\ user'[u] = [at |-> step, plan |-> p, op |-> op, token |-> token[p]]
      /\ \A v \in Users \ {u} : user'[v] = user[v]
  BY <1>1, BeginCalls
<1>4. TypeOK'
  BY <1>2, <1>3 DEF TypeOK, Calls, rows, ghosts
<1>5. CallHasPlan'
  BY <1>3 DEF CallHasPlan
<1> QED
  BY <1>1, <1>2, <1>3, <1>4, <1>5 DEF Begin

\* Every step keeps rows, registry, tasks and calls well typed.
LEMMA TypeStep ==
  ASSUME TypeOK, CallHasPlan, [Next]_reviewVars
  PROVE  TypeOK' /\ CallHasPlan'
<1>1. ASSUME NEW u \in Users, UserWrites(u)
      PROVE  TypeOK' /\ CallHasPlan'
  <2> DEFINE p == user[u].plan
  <2>1. p \in Plans
    BY <1>1 DEF UserWrites, ApproveWrite, ReopenWrite, DiscardWrite, Register, Claim, Spawn,
                CancelWrite, CallHasPlan
  <2> HIDE DEF p
  <2>2. ASSUME Return(u)
        PROVE  user' \in [Users -> Calls] /\ CallHasPlan'
    BY <2>2, ReturnCalls DEF CallHasPlan, IdleUser
  <2>3. ASSUME NEW step \in {"claim", "spawn"}, Goto(u, step)
        PROVE  user' \in [Users -> Calls] /\ CallHasPlan'
    BY <2>1, <2>3, GotoCalls DEF CallHasPlan, p
  <2>4. CASE ApproveWrite(u)
    <3>1. minted + 1 \in Nat
      BY DEF TypeOK
    <3>2. state' \in [Plans -> States] /\ token' \in [Plans -> Nat] /\ minted' \in Nat
      BY <2>4, <3>1 DEF ApproveWrite, TypeOK, States
    <3> QED
      BY <2>2, <2>4, <3>2 DEF ApproveWrite, TypeOK, Calls
  <2>5. CASE ReopenWrite(u)
    <3>1. state' \in [Plans -> States] /\ token' \in [Plans -> Nat] /\ withdrawn' \subseteq Plans
      BY <2>1, <2>5 DEF ReopenWrite, TypeOK, States, p
    <3> QED
      BY <2>2, <2>5, <3>1 DEF ReopenWrite, TypeOK, Calls
  <2>6. CASE DiscardWrite(u)
    <3>1. state' \in [Plans -> States] /\ withdrawn' \subseteq Plans
      BY <2>1, <2>6 DEF DiscardWrite, TypeOK, States, p
    <3> QED
      BY <2>2, <2>6, <3>1 DEF DiscardWrite, TypeOK, Calls
  <2>7. CASE Register(u)
    <3>1. registry' \subseteq Plans
      BY <2>1, <2>7 DEF Register, TypeOK, p
    <3> QED
      BY <2>2, <2>3, <2>7, <3>1 DEF Register, TypeOK, Calls, rows, ghosts
  <2>8. CASE Claim(u)
    <3>1. registry' \subseteq Plans
      BY <2>8 DEF Claim, TypeOK
    <3>2. state' \in [Plans -> States]
      BY <2>8 DEF Claim, TypeOK, States
    <3>3. runs' \in [Plans -> Nat]
      <4>1. runs[p] + 1 \in Nat
        BY <2>1 DEF TypeOK
      <4> QED
        BY <2>8, <4>1 DEF Claim, TypeOK, p
    <3> QED
      BY <2>2, <2>3, <2>8, <3>1, <3>2, <3>3 DEF Claim, TypeOK, Calls
  <2>9. CASE Spawn(u)
    <3>1. task' \in [Plans -> {"none", "work", "leave", "pause"}]
      BY <2>9 DEF Spawn, TypeOK
    <3> QED
      BY <2>2, <2>9, <3>1 DEF Spawn, TypeOK, Calls, rows, ghosts
  <2>10. CASE CancelWrite(u)
    <3>1. state' \in [Plans -> States]
      BY <2>10 DEF CancelWrite, TypeOK, States
    <3> QED
      BY <2>2, <2>10, <3>1 DEF CancelWrite, TypeOK, Calls, ghosts
  <2> QED
    BY <1>1, <2>4, <2>5, <2>6, <2>7, <2>8, <2>9, <2>10 DEF UserWrites
<1>2. ASSUME NEW p \in Plans, PlanStep(p)
      PROVE  TypeOK' /\ CallHasPlan'
  <2>1. UNCHANGED <<user, token, minted, runs, withdrawn, crashes>>
    BY <1>2 DEF PlanStep, InsertPlan, MakeReady, RunEnds, TaskLeaves, PauseDrops, PauseRun,
                rows, ghosts
  <2>2. state' \in [Plans -> States]
    BY <1>2 DEF PlanStep, InsertPlan, MakeReady, RunEnds, TaskLeaves, PauseDrops, PauseRun,
                rows, TypeOK, States
  <2>3. making' \subseteq Plans /\ registry' \subseteq Plans
    BY <1>2 DEF PlanStep, InsertPlan, MakeReady, RunEnds, TaskLeaves, PauseDrops, PauseRun,
                rows, TypeOK
  <2>4. task' \in [Plans -> {"none", "work", "leave", "pause"}]
    BY <1>2 DEF PlanStep, InsertPlan, MakeReady, RunEnds, TaskLeaves, PauseDrops, PauseRun,
                rows, TypeOK
  <2> QED
    BY <2>1, <2>2, <2>3, <2>4 DEF TypeOK, CallHasPlan
<1>3. ASSUME NEW parent \in Plans, NEW p \in Plans, RetryPlan(parent, p)
      PROVE  TypeOK' /\ CallHasPlan'
  BY <1>3 DEF RetryPlan, TypeOK, States, CallHasPlan, ghosts
<1>4. CASE Restart
  <2>1. IdleUser \in Calls
    BY DEF IdleUser, Calls
  <2>2. user' \in [Users -> Calls] /\ CallHasPlan'
    BY <1>4, <2>1 DEF Restart, CallHasPlan, IdleUser
  <2>3. state' \in [Plans -> States] /\ crashes' \in Nat
    BY <1>4 DEF Restart, TypeOK, States
  <2> QED
    BY <1>4, <2>2, <2>3 DEF Restart, TypeOK, Calls, ghosts
<1>5. CASE UNCHANGED reviewVars
  BY <1>5 DEF reviewVars, TypeOK, CallHasPlan
<1> QED
  BY <1>1, <1>2, <1>3, <1>4, <1>5, ReadStep DEF Next

\* An empty database is well typed.
LEMMA TypeStarts ==
  ASSUME Init
  PROVE  TypeOK /\ CallHasPlan
<1>1. IdleUser \in Calls
  BY DEF IdleUser, Calls
<1> QED
  BY <1>1 DEF Init, TypeOK, States, CallHasPlan, IdleUser, Calls

\* Rows, registry, tasks and calls stay well typed.
THEOREM ReviewTypeCorrect == Spec => []TypeOK
<1>1. TypeOK /\ CallHasPlan /\ [Next]_reviewVars => (TypeOK /\ CallHasPlan)'
  BY TypeStep
<1> QED
  BY <1>1, TypeStarts, PTL DEF Spec

-----------------------------------------------------------------------------
(* The registry: each entry has one holder, and no two overlap.            *)

\* A call stands behind an entry.
Holds(u, p) == user[u].plan = p /\ user[u].at \in {"claim", "spawn"}

\* EntryHasHolder, said of calls one by one.
OneHolderEach ==
  \A p \in Plans :
    /\ p \in registry <=> (HasTask(p) \/ \E u \in Users : Holds(u, p))
    /\ HasTask(p) => \A u \in Users : ~ Holds(u, p)
    /\ \A u, v \in Users : Holds(u, p) /\ Holds(v, p) => u = v

\* The two forms say the same, now and after a step.
LEMMA HolderForms ==
  /\ EntryHasHolder <=> OneHolderEach
  /\ EntryHasHolder' <=> OneHolderEach'
<1>1. EntryHasHolder <=> OneHolderEach
  BY DEF EntryHasHolder, OneHolderEach, Callers, Holds
<1>2. EntryHasHolder' <=> OneHolderEach'
  BY DEF EntryHasHolder, OneHolderEach, Callers, Holds, HasTask
<1> QED
  BY <1>1, <1>2

\* The entries of the registry claim disjoint paths.
Disjoint == \A p, q \in registry : p # q => ~ Overlaps(p, q)

\* Overlapping is mutual.
LEMMA OverlapsBothWays ==
  ASSUME NEW p, NEW q
  PROVE  Overlaps(p, q) <=> Overlaps(q, p)
  BY DEF Overlaps

\* A step that touches no entry, no holding task and no holding call.
LEMMA HoldersKept ==
  ASSUME OneHolderEach, Disjoint, UNCHANGED registry,
         \A p \in Plans : HasTask(p)' <=> HasTask(p),
         \A p \in Plans, u \in Users : Holds(u, p)' <=> Holds(u, p)
  PROVE  OneHolderEach' /\ Disjoint'
  BY DEF OneHolderEach, Disjoint

\* A registration is the only way in, and it looks at every entry there is.
LEMMA RegisterHolds ==
  ASSUME TypeOK, CallHasPlan, OneHolderEach, Disjoint, NEW u \in Users, Register(u)
  PROVE  OneHolderEach' /\ Disjoint'
<1>0. PICK p \in Plans : p = user[u].plan
  BY DEF Register, CallHasPlan
<1>1. \A q \in Plans : ~ Holds(u, q)
  BY DEF Register, Holds
<1>2. \A q \in Plans : HasTask(q)' <=> HasTask(q)
  BY DEF Register, HasTask
<1>3. CASE Admitted(p)
  <2>1. registry' = registry \cup {p} /\ Goto(u, "claim")
    BY <1>0, <1>3 DEF Register
  <2>2. /\ user'[u].at = "claim" /\ user'[u].plan = p
        /\ \A v \in Users \ {u} : user'[v] = user[v]
    BY <1>0, <2>1, GotoCalls
  <2>3. p \notin registry /\ \A q \in registry : ~ Overlaps(p, q)
    BY <1>3 DEF Admitted
  <2>4. OneHolderEach'
    <3>1. Holds(u, p)' /\ \A q \in Plans \ {p} : ~ Holds(u, q)'
      BY <2>2 DEF Holds
    <3>2. \A q \in Plans, v \in Users \ {u} : Holds(v, q)' <=> Holds(v, q)
      BY <2>2 DEF Holds
    <3>3. ~ HasTask(p) /\ \A v \in Users : ~ Holds(v, p)
      BY <1>1, <2>3 DEF OneHolderEach
    <3> QED
      BY <1>1, <1>2, <2>1, <3>1, <3>2, <3>3 DEF OneHolderEach
  <2>5. Disjoint'
    BY <2>1, <2>3, OverlapsBothWays DEF Disjoint
  <2> QED
    BY <2>4, <2>5
<1>4. CASE ~ Admitted(p)
  <2>1. UNCHANGED registry /\ Return(u)
    BY <1>0, <1>4 DEF Register
  <2>2. /\ user'[u].at = "idle"
        /\ \A v \in Users \ {u} : user'[v] = user[v]
    BY <2>1, ReturnCalls DEF IdleUser
  <2>3. \A q \in Plans, v \in Users : Holds(v, q)' <=> Holds(v, q)
    BY <1>1, <2>2 DEF Holds
  <2> QED
    BY <1>2, <2>1, <2>3, HoldersKept
<1> QED
  BY <1>3, <1>4

\* A claim keeps its entry or drops it together with its hold.
LEMMA ClaimHolds ==
  ASSUME TypeOK, CallHasPlan, OneHolderEach, Disjoint, NEW u \in Users, Claim(u)
  PROVE  OneHolderEach' /\ Disjoint'
<1>0. PICK p \in Plans : p = user[u].plan
  BY DEF Claim, CallHasPlan
<1>1. Holds(u, p) /\ \A q \in Plans \ {p} : ~ Holds(u, q)
  BY <1>0 DEF Claim, Holds
<1>2. \A q \in Plans : HasTask(q)' <=> HasTask(q)
  BY DEF Claim, HasTask
<1>3. CASE MayClaim(u)
  <2>1. UNCHANGED registry /\ Goto(u, "spawn")
    BY <1>0, <1>3 DEF Claim
  <2>2. /\ user'[u].at = "spawn" /\ user'[u].plan = p
        /\ \A v \in Users \ {u} : user'[v] = user[v]
    BY <1>0, <2>1, GotoCalls
  <2>3. \A q \in Plans, v \in Users : Holds(v, q)' <=> Holds(v, q)
    BY <1>0, <1>1, <2>2 DEF Holds
  <2> QED
    BY <1>2, <2>1, <2>3, HoldersKept
<1>4. CASE ~ MayClaim(u)
  <2>1. registry' = registry \ {p} /\ Return(u)
    BY <1>0, <1>4 DEF Claim
  <2>2. /\ user'[u].at = "idle"
        /\ \A v \in Users \ {u} : user'[v] = user[v]
    BY <2>1, ReturnCalls DEF IdleUser
  <2>3. \A q \in Plans : ~ Holds(u, q)'
    BY <2>2 DEF Holds
  <2>4. \A q \in Plans, v \in Users \ {u} : Holds(v, q)' <=> Holds(v, q)
    BY <2>2 DEF Holds
  <2>5. ~ HasTask(p) /\ \A v \in Users \ {u} : ~ Holds(v, p)
    BY <1>1 DEF OneHolderEach
  <2> QED
    BY <1>1, <1>2, <2>1, <2>3, <2>4, <2>5 DEF OneHolderEach, Disjoint
<1> QED
  BY <1>3, <1>4

\* A spawn hands the entry from the call to the task.
LEMMA SpawnHolds ==
  ASSUME TypeOK, CallHasPlan, OneHolderEach, Disjoint, NEW u \in Users, Spawn(u)
  PROVE  OneHolderEach' /\ Disjoint'
<1>0. PICK p \in Plans : p = user[u].plan
  BY DEF Spawn, CallHasPlan
<1>1. Holds(u, p) /\ \A q \in Plans \ {p} : ~ Holds(u, q)
  BY <1>0 DEF Spawn, Holds
<1>2. /\ HasTask(p)'
      /\ \A q \in Plans \ {p} : HasTask(q)' <=> HasTask(q)
  BY <1>0 DEF Spawn, HasTask, TypeOK
<1>3. /\ user'[u].at = "idle"
      /\ \A v \in Users \ {u} : user'[v] = user[v]
  BY ReturnCalls DEF Spawn, IdleUser
<1>4. UNCHANGED registry
  BY DEF Spawn
<1>5. \A q \in Plans : ~ Holds(u, q)'
  BY <1>3 DEF Holds
<1>6. \A q \in Plans, v \in Users \ {u} : Holds(v, q)' <=> Holds(v, q)
  BY <1>3 DEF Holds
<1>7. p \in registry /\ \A v \in Users \ {u} : ~ Holds(v, p)
  BY <1>1 DEF OneHolderEach
<1> QED
  BY <1>1, <1>2, <1>4, <1>5, <1>6, <1>7 DEF OneHolderEach, Disjoint

\* The task keeps its entry until it returns or pauses.
LEMMA TaskHolds ==
  ASSUME TypeOK, OneHolderEach, Disjoint, NEW p \in Plans, PlanStep(p)
  PROVE  OneHolderEach' /\ Disjoint'
<1>1. \A q \in Plans, u \in Users : Holds(u, q)' <=> Holds(u, q)
  BY DEF PlanStep, InsertPlan, MakeReady, RunEnds, TaskLeaves, PauseDrops, PauseRun, Holds
<1>2. CASE InsertPlan(p) \/ MakeReady(p) \/ RunEnds(p) \/ PauseRun(p)
  <2>1. UNCHANGED registry
    BY <1>2 DEF InsertPlan, MakeReady, RunEnds, PauseRun
  <2>2. \A q \in Plans : HasTask(q)' <=> HasTask(q)
    BY <1>2 DEF InsertPlan, MakeReady, RunEnds, PauseRun, HasTask, TypeOK
  <2> QED
    BY <1>1, <2>1, <2>2, HoldersKept
<1>3. CASE TaskLeaves(p) \/ PauseDrops(p)
  <2>1. registry' = registry \ {p} /\ HasTask(p)
    BY <1>3 DEF TaskLeaves, PauseDrops, HasTask
  <2>2. ~ HasTask(p)' /\ \A q \in Plans \ {p} : HasTask(q)' <=> HasTask(q)
    BY <1>3 DEF TaskLeaves, PauseDrops, HasTask, TypeOK
  <2> QED
    BY <1>1, <2>1, <2>2 DEF OneHolderEach, Disjoint
<1> QED
  BY <1>2, <1>3 DEF PlanStep

\* Every step keeps one holder for each entry, and the entries apart.
LEMMA HolderStep ==
  ASSUME TypeOK, CallHasPlan, OneHolderEach, Disjoint, [Next]_reviewVars
  PROVE  OneHolderEach' /\ Disjoint'
<1>1. ASSUME NEW u \in Users, NEW p \in Plans, UserReads(u, p)
      PROVE  OneHolderEach' /\ Disjoint'
  <2>1. /\ UNCHANGED <<registry, task>>
        /\ user[u].at = "idle"
        /\ user'[u].at \in {"approve", "reopen", "discard", "register", "cancel"}
        /\ \A v \in Users \ {u} : user'[v] = user[v]
    BY <1>1, ReadStep
  <2>2. \A q \in Plans : HasTask(q)' <=> HasTask(q)
    BY <2>1 DEF HasTask
  <2>3. \A q \in Plans, v \in Users : Holds(v, q)' <=> Holds(v, q)
    BY <2>1 DEF Holds
  <2> QED
    BY <2>1, <2>2, <2>3, HoldersKept
<1>2. ASSUME NEW u \in Users,
             ApproveWrite(u) \/ ReopenWrite(u) \/ DiscardWrite(u) \/ CancelWrite(u)
      PROVE  OneHolderEach' /\ Disjoint'
  <2>1. /\ UNCHANGED <<registry, task>>
        /\ user[u].at \in {"approve", "reopen", "discard", "cancel"}
        /\ Return(u)
    BY <1>2 DEF ApproveWrite, ReopenWrite, DiscardWrite, CancelWrite
  <2>2. user'[u].at = "idle" /\ \A v \in Users \ {u} : user'[v] = user[v]
    BY <2>1, ReturnCalls DEF IdleUser
  <2>3. \A q \in Plans : HasTask(q)' <=> HasTask(q)
    BY <2>1 DEF HasTask
  <2>4. \A q \in Plans, v \in Users : Holds(v, q)' <=> Holds(v, q)
    BY <2>1, <2>2 DEF Holds
  <2> QED
    BY <2>1, <2>3, <2>4, HoldersKept
<1>3. CASE Restart
  <2>1. registry' = {} /\ \A q \in Plans : ~ HasTask(q)'
    BY <1>3 DEF Restart, HasTask
  <2>2. \A q \in Plans, v \in Users : ~ Holds(v, q)'
    BY <1>3 DEF Restart, Holds, IdleUser
  <2> QED
    BY <2>1, <2>2 DEF OneHolderEach, Disjoint
<1>4. CASE UNCHANGED reviewVars \/ \E parent, p \in Plans : RetryPlan(parent, p)
  <2>1. UNCHANGED <<registry, task, user>>
    BY <1>4 DEF reviewVars, RetryPlan
  <2>2. /\ \A q \in Plans : HasTask(q)' <=> HasTask(q)
        /\ \A q \in Plans, v \in Users : Holds(v, q)' <=> Holds(v, q)
    BY <2>1 DEF HasTask, Holds
  <2> QED
    BY <2>1, <2>2, HoldersKept
<1> QED
  BY <1>1, <1>2, <1>3, <1>4, RegisterHolds, ClaimHolds, SpawnHolds, TaskHolds
  DEF Next, UserWrites

\* In every reachable state entries have one holder and are disjoint.
LEMMA AlwaysHeld == Spec => [](TypeOK /\ EntryHasHolder /\ Disjoint)
<1> DEFINE I == TypeOK /\ CallHasPlan /\ OneHolderEach /\ Disjoint
<1>1. Init => I
  BY TypeStarts DEF Init, OneHolderEach, Disjoint, HasTask, Holds, IdleUser
<1>2. I /\ [Next]_reviewVars => I'
  BY TypeStep, HolderStep
<1>3. I => TypeOK /\ EntryHasHolder /\ Disjoint
  BY HolderForms
<1> QED
  BY <1>1, <1>2, <1>3, PTL DEF Spec

\* Every entry of the registry of active runs has exactly one holder: a call
\* between its registration and its spawn, or the executor task.
THEOREM EntriesAreHeld == Spec => []EntryHasHolder
  BY AlwaysHeld, PTL

-----------------------------------------------------------------------------
(* Runs do not overlap.                                                    *)

\* Two prefixes of one path are prefixes of each other, one way or the other.
LEMMA PrefixesCompare ==
  ASSUME NEW f \in Seq(Names), NEW a \in Seq(Names), NEW b \in Seq(Names),
         StartsWith(f, a), StartsWith(f, b), Len(a) <= Len(b)
  PROVE  StartsWith(b, a)
<1>1. /\ Len(a) \in Nat /\ Len(b) \in Nat /\ Len(f) \in Nat
      /\ Len(a) <= Len(f) /\ Len(b) <= Len(f)
      /\ SubSeq(f, 1, Len(a)) = a /\ SubSeq(f, 1, Len(b)) = b
  BY DEF StartsWith
<1>2. \A i \in 1 .. Len(f) : f[i] \in Names
  BY ElementOfSeq
<1>3. \A i \in 1 .. Len(a) : a[i] = f[i]
  <2>1. \A i \in 1 .. Len(a) : f[i] \in Names
    BY <1>1, <1>2
  <2>2. \A i \in 1 .. Len(a) - 1 + 1 : SubSeq(f, 1, Len(a))[i] = f[1 + i - 1]
    BY <1>1, <2>1, SubSeqProperties
  <2> QED
    BY <1>1, <2>2
<1>4. \A i \in 1 .. Len(b) : b[i] = f[i]
  <2>1. \A i \in 1 .. Len(b) : f[i] \in Names
    BY <1>1, <1>2
  <2>2. \A i \in 1 .. Len(b) - 1 + 1 : SubSeq(f, 1, Len(b))[i] = f[1 + i - 1]
    BY <1>1, <2>1, SubSeqProperties
  <2> QED
    BY <1>1, <2>2
<1> DEFINE head == SubSeq(b, 1, Len(a))
<1>5. head \in Seq(Names) /\ Len(head) = Len(a) /\ \A i \in 1 .. Len(a) : head[i] = b[i]
  <2>1. \A i \in 1 .. Len(a) : b[i] \in Names
    BY <1>1, ElementOfSeq
  <2>2. /\ SubSeq(b, 1, Len(a)) \in Seq(Names)
        /\ Len(SubSeq(b, 1, Len(a))) = IF 1 <= Len(a) THEN Len(a) - 1 + 1 ELSE 0
        /\ \A i \in 1 .. Len(a) - 1 + 1 : SubSeq(b, 1, Len(a))[i] = b[1 + i - 1]
    BY <1>1, <2>1, SubSeqProperties
  <2> QED
    BY <1>1, <2>2
<1>6. head = a
  <2>1. \A i \in 1 .. Len(a) : head[i] = a[i]
    BY <1>1, <1>3, <1>4, <1>5
  <2> HIDE DEF head
  <2> QED
    BY <1>5, <2>1, SeqEqual
<1> QED
  BY <1>6 DEF StartsWith

\* Plans that do not overlap have no path in common.
LEMMA ApartMeansDisjoint ==
  ASSUME NEW p \in Plans, NEW q \in Plans, ~ Overlaps(p, q)
  PROVE  Territory(p) \cap Territory(q) = {}
<1> SUFFICES ASSUME NEW f \in Territory(p), f \in Territory(q)
             PROVE  FALSE
  OBVIOUS
<1>1. PICK a \in Claims[p] : StartsWith(f, a)
  BY DEF Territory
<1>2. PICK b \in Claims[q] : StartsWith(f, b)
  BY DEF Territory
<1>3. f \in Seq(Names) /\ a \in Seq(Names) /\ b \in Seq(Names)
  BY ReviewAssumption DEF Territory
<1>4. Len(a) \in Nat /\ Len(b) \in Nat
  BY <1>3
<1>5. StartsWith(a, b) \/ StartsWith(b, a)
  BY <1>1, <1>2, <1>3, <1>4, PrefixesCompare
<1> QED
  BY <1>5 DEF Overlaps

\* Spec 025 FR-017, for any number of plans and any claims: two executors that
\* work at the same time have no path in common.
THEOREM RunsAreApart == Spec => []NoOverlappingRuns
<1>1. TypeOK /\ EntryHasHolder /\ Disjoint => NoOverlappingRuns
  BY ApartMeansDisjoint DEF NoOverlappingRuns, EntryHasHolder, Disjoint, HasTask
<1> QED
  BY <1>1, AlwaysHeld, PTL

-----------------------------------------------------------------------------
(* A plan runs once, and never after it was taken back.  The states split  *)
(* into those before a run, which a plan that ran or was withdrawn does    *)
(* not see again, and those after it; only a draft still being made can    *)
(* come back from `discarded`, and such a plan has not run.                *)

Before == {"none", "draft", "ready_for_review", "approved", "discarded"}
After == {"applying", "paused", "ended", "discarded"}

\* Where a plan's row can be, by whether it ran, is being made, or was withdrawn.
Lived ==
  \A p \in Plans :
    /\ runs[p] # 0 => runs[p] = 1 /\ state[p] \in After /\ p \notin making
    /\ runs[p] = 0 => state[p] \in Before /\ task[p] = "none"
    /\ p \in making => state[p] \in {"draft", "discarded"}
    /\ p \in withdrawn => p \notin making /\ state[p] \in {"draft"} \cup After

\* A call that cancels or spawns is about a plan that ran.
CallLived ==
  \A u \in Users : user[u].at \in {"cancel", "spawn"} => runs[user[u].plan] # 0

\* A step that leaves rows, tasks and history alone.
LEMMA LivedKept ==
  ASSUME Lived, UNCHANGED <<state, making, task, runs, withdrawn>>
  PROVE  Lived'
  BY DEF Lived

\* A call that read the row changes the row only as its WHERE clause allows.
LEMMA WritesLived ==
  ASSUME TypeOK, CallHasPlan, Lived, CallLived, NEW u \in Users, UserWrites(u)
  PROVE  Lived' /\ CallLived'
<1>0. PICK p \in Plans : p = user[u].plan
  BY DEF UserWrites, ApproveWrite, ReopenWrite, DiscardWrite, Register, Claim, Spawn,
         CancelWrite, CallHasPlan
<1>1. ASSUME Return(u), UNCHANGED runs
      PROVE  CallLived'
  <2>1. user'[u].at = "idle" /\ \A v \in Users \ {u} : user'[v] = user[v]
    BY <1>1, ReturnCalls DEF IdleUser
  <2> QED
    BY <1>1, <2>1 DEF CallLived
<1>2. CASE ApproveWrite(u)
  <2>1. Lived'
    <3>1. CASE MayApprove(p)
      <4>1. state' = [state EXCEPT ![p] = "approved"] /\ state[p] = "ready_for_review"
        BY <1>0, <1>2, <3>1 DEF ApproveWrite, MayApprove
      <4>2. runs[p] = 0 /\ p \notin making /\ p \notin withdrawn
        BY <4>1 DEF Lived, After, TypeOK
      <4>3. UNCHANGED <<making, task, runs, withdrawn>>
        BY <1>2 DEF ApproveWrite
      <4> QED
        BY <4>1, <4>2, <4>3 DEF Lived, Before, TypeOK
    <3>2. CASE ~ MayApprove(p)
      BY <1>0, <1>2, <3>2, LivedKept DEF ApproveWrite
    <3> QED
      BY <3>1, <3>2
  <2> QED
    BY <1>1, <1>2, <2>1 DEF ApproveWrite
<1>3. CASE ReopenWrite(u)
  <2>1. Lived'
    <3>1. CASE MayReopen(p)
      <4>1. /\ state' = [state EXCEPT ![p] = "draft"]
            /\ withdrawn' = withdrawn \cup {p}
            /\ state[p] \in {"approved", "ready_for_review"}
        BY <1>0, <1>3, <3>1 DEF ReopenWrite, MayReopen
      <4>2. runs[p] = 0 /\ p \notin making /\ task[p] = "none"
        BY <4>1 DEF Lived, After, TypeOK
      <4>3. UNCHANGED <<making, task, runs>>
        BY <1>3 DEF ReopenWrite
      <4> QED
        BY <4>1, <4>2, <4>3 DEF Lived, Before, After, TypeOK
    <3>2. CASE ~ MayReopen(p)
      BY <1>0, <1>3, <3>2, LivedKept DEF ReopenWrite
    <3> QED
      BY <3>1, <3>2
  <2> QED
    BY <1>1, <1>3, <2>1 DEF ReopenWrite
<1>4. CASE DiscardWrite(u)
  <2>1. /\ state' = [state EXCEPT ![p] = "discarded"]
        /\ withdrawn' = IF p \in making THEN withdrawn ELSE withdrawn \cup {p}
        /\ UNCHANGED <<making, task, runs>>
    BY <1>0, <1>4 DEF DiscardWrite
  <2>2. Lived'
    BY <2>1 DEF Lived, Before, After, TypeOK
  <2> QED
    BY <1>1, <1>4, <2>2 DEF DiscardWrite
<1>5. CASE Register(u)
  <2>1. UNCHANGED <<state, making, task, runs, withdrawn>>
    BY <1>5 DEF Register, rows, ghosts
  <2>2. ASSUME Goto(u, "claim")
        PROVE  CallLived'
    BY <2>1, <2>2, GotoCalls DEF CallLived
  <2> QED
    BY <1>1, <1>5, <2>1, <2>2, LivedKept DEF Register
<1>6. CASE Claim(u)
  <2>1. UNCHANGED <<making, task, withdrawn>>
    BY <1>6 DEF Claim
  <2>2. CASE MayClaim(u)
    <3>1. /\ state' = [state EXCEPT ![p] = "applying"]
          /\ Goto(u, "spawn")
          /\ \/ /\ state[p] = "approved"
                /\ runs' = [runs EXCEPT ![p] = runs[p] + 1]
             \/ /\ state[p] = "paused"
                /\ runs' = [runs EXCEPT ![p] = runs[p]]
      BY <1>0, <1>6, <2>2 DEF Claim, MayClaim, TypeOK
    <3>2. p \notin making
      BY <3>1 DEF Lived
    <3>3. runs'[p] = 1 /\ \A q \in Plans \ {p} : runs'[q] = runs[q] /\ state'[q] = state[q]
      BY <3>1 DEF Lived, Before, After, TypeOK
    <3>4. Lived'
      BY <2>1, <3>1, <3>2, <3>3 DEF Lived, After, TypeOK
    <3>5. /\ user'[u].plan = p
          /\ \A v \in Users \ {u} : user'[v] = user[v]
      BY <1>0, <3>1, GotoCalls
    <3>6. CallLived'
      <4>1. \A q \in Plans : runs[q] # 0 => runs'[q] # 0
        BY <3>3
      <4> QED
        BY <3>3, <3>5, <4>1 DEF CallLived, CallHasPlan
    <3> QED
      BY <3>4, <3>6
  <2>3. CASE ~ MayClaim(u)
    BY <1>1, <1>6, <2>1, <2>3, LivedKept DEF Claim
  <2> QED
    BY <2>2, <2>3
<1>7. CASE Spawn(u)
  <2>1. /\ task' = [task EXCEPT ![p] = "work"] /\ Return(u)
        /\ UNCHANGED <<state, making, runs, withdrawn>>
    BY <1>0, <1>7 DEF Spawn, rows, ghosts
  <2>2. runs[p] # 0
    BY <1>0, <1>7 DEF Spawn, CallLived
  <2>3. Lived'
    BY <2>1, <2>2 DEF Lived, TypeOK
  <2> QED
    BY <1>1, <2>1, <2>3
<1>8. CASE CancelWrite(u)
  <2>1. /\ state' = [state EXCEPT ![p] = "ended"] /\ Return(u)
        /\ UNCHANGED <<making, task, runs, withdrawn>>
    BY <1>0, <1>8 DEF CancelWrite, ghosts
  <2>2. runs[p] # 0
    BY <1>0, <1>8 DEF CancelWrite, CallLived
  <2>3. Lived'
    BY <2>1, <2>2 DEF Lived, After, TypeOK
  <2> QED
    BY <1>1, <2>1, <2>3
<1> QED
  BY <1>2, <1>3, <1>4, <1>5, <1>6, <1>7, <1>8 DEF UserWrites

\* Generators, retries, tasks and restarts keep plans on their side.
LEMMA PlansLived ==
  ASSUME TypeOK, Lived, CallLived, NEW p \in Plans,
         PlanStep(p) \/ \E parent \in Plans : RetryPlan(parent, p)
  PROVE  Lived' /\ CallLived'
<1>1. UNCHANGED <<user, runs, withdrawn>>
  BY DEF PlanStep, InsertPlan, MakeReady, RunEnds, TaskLeaves, PauseDrops, PauseRun, RetryPlan,
         rows, ghosts
<1>2. CASE InsertPlan(p)
  <2>1. /\ state[p] = "none" /\ state' = [state EXCEPT ![p] = "draft"]
        /\ making' = making \cup {p} /\ UNCHANGED task
    BY <1>2 DEF InsertPlan
  <2> QED
    BY <1>1, <2>1 DEF Lived, CallLived, Before, After, TypeOK
<1>3. CASE MakeReady(p)
  <2>1. /\ p \in making /\ state' = [state EXCEPT ![p] = "ready_for_review"]
        /\ making' = making \ {p} /\ UNCHANGED task
    BY <1>3 DEF MakeReady
  <2> QED
    BY <1>1, <2>1 DEF Lived, CallLived, Before, TypeOK
<1>4. CASE \E parent \in Plans : RetryPlan(parent, p)
  <2>1. /\ state[p] = "none" /\ state' = [state EXCEPT ![p] = "draft"]
        /\ UNCHANGED <<making, task>>
    BY <1>4 DEF RetryPlan
  <2> QED
    BY <1>1, <2>1 DEF Lived, CallLived, Before, After, TypeOK
<1>5. CASE RunEnds(p) \/ TaskLeaves(p) \/ PauseDrops(p) \/ PauseRun(p)
  <2>1. /\ task[p] # "none" /\ UNCHANGED making
        /\ state' = state \/ \E s \in {"ended", "paused"} : state' = [state EXCEPT ![p] = s]
        /\ \A q \in Plans \ {p} : task'[q] = task[q]
    BY <1>5 DEF RunEnds, TaskLeaves, PauseDrops, PauseRun, rows, TypeOK
  <2>2. runs[p] # 0
    BY <2>1 DEF Lived
  <2> QED
    BY <1>1, <2>1, <2>2 DEF Lived, CallLived, After, TypeOK
<1> QED
  BY <1>2, <1>3, <1>4, <1>5 DEF PlanStep

\* Every step does.
LEMMA LivedStep ==
  ASSUME TypeOK, CallHasPlan, Lived, CallLived, [Next]_reviewVars
  PROVE  Lived' /\ CallLived'
<1>1. ASSUME NEW u \in Users, NEW p \in Plans, UserReads(u, p)
      PROVE  Lived' /\ CallLived'
  <2>1. /\ UNCHANGED <<rows, registry, task, ghosts, crashes>>
        /\ user'[u].plan = p
        /\ user'[u].at \in {"approve", "reopen", "discard", "register", "cancel"}
        /\ user'[u].at = "cancel" => state[p] = "paused"
        /\ \A v \in Users \ {u} : user'[v] = user[v]
    BY <1>1, ReadStep
  <2>2. UNCHANGED <<state, making, task, runs, withdrawn>>
    BY <2>1 DEF rows, ghosts
  <2>3. user'[u].at = "cancel" => runs[p] # 0
    BY <2>1 DEF Lived, Before
  <2>4. CallLived'
    BY <2>1, <2>2, <2>3 DEF CallLived
  <2> QED
    BY <2>2, <2>4, LivedKept
<1>2. CASE Restart
  <2>1. /\ state' = [p \in Plans |-> IF state[p] = "applying" THEN "paused" ELSE state[p]]
        /\ making' = {} /\ task' = [p \in Plans |-> "none"]
        /\ user' = [u \in Users |-> IdleUser]
        /\ UNCHANGED <<runs, withdrawn>>
    BY <1>2 DEF Restart, ghosts
  <2>2. Lived'
    BY <2>1 DEF Lived, Before, After
  <2>3. CallLived'
    BY <2>1 DEF CallLived, IdleUser
  <2> QED
    BY <2>2, <2>3
<1>3. CASE UNCHANGED reviewVars
  <2>1. UNCHANGED <<state, making, task, runs, withdrawn, user>>
    BY <1>3 DEF reviewVars
  <2>2. CallLived'
    BY <2>1 DEF CallLived
  <2> QED
    BY <2>1, <2>2, LivedKept
<1> QED
  BY <1>1, <1>2, <1>3, WritesLived, PlansLived DEF Next

\* Lived holds in every reachable state.
LEMMA AlwaysLived == Spec => [](TypeOK /\ CallHasPlan /\ Lived /\ CallLived)
<1>1. Init => TypeOK /\ CallHasPlan /\ Lived /\ CallLived
  BY TypeStarts DEF Init, Lived, CallLived, Before, IdleUser
<1>2. TypeOK /\ CallHasPlan /\ Lived /\ CallLived /\ [Next]_reviewVars
        => (TypeOK /\ CallHasPlan /\ Lived /\ CallLived)'
  BY TypeStep, LivedStep
<1> QED
  BY <1>1, <1>2, PTL DEF Spec

\* A plan is executed at most once, resumes aside, however approvals, reopens,
\* discards and applies of any number of callers interleave.
THEOREM PlansRunOnce == Spec => []RunsOnce
<1>1. TypeOK /\ Lived => RunsOnce
  BY DEF TypeOK, Lived, RunsOnce
<1> QED
  BY <1>1, AlwaysLived, PTL

\* A plan that a reopen or a discard took back is not started afterwards.
THEOREM WithdrawnStaysDown == Spec => WithdrawnNeverStarts
<1>1. TypeOK /\ CallHasPlan /\ Lived /\ [Next]_reviewVars
        => [\A p \in Plans : p \in withdrawn => runs'[p] = runs[p]]_reviewVars
  <2> SUFFICES ASSUME TypeOK, CallHasPlan, Lived, Next, NEW p \in withdrawn, p \in Plans
               PROVE  runs'[p] = runs[p]
    BY DEF reviewVars
  <2>1. ASSUME NEW u \in Users, Claim(u)
        PROVE  runs'[p] = runs[p]
    <3>1. PICK q \in Plans : q = user[u].plan
      BY <2>1 DEF Claim, CallHasPlan
    <3>2. CASE MayClaim(u) /\ user[u].op = "apply"
      <4>1. state[q] = "approved" /\ runs' = [runs EXCEPT ![q] = runs[q] + 1]
        BY <2>1, <3>1, <3>2 DEF Claim, MayClaim, TypeOK
      <4>2. p # q
        BY <4>1 DEF Lived, After
      <4> QED
        BY <4>1, <4>2 DEF TypeOK
    <3>3. CASE MayClaim(u) /\ user[u].op # "apply"
      <4>1. runs' = [runs EXCEPT ![q] = runs[q]]
        BY <2>1, <3>1, <3>3 DEF Claim, TypeOK
      <4> QED
        BY <4>1 DEF TypeOK
    <3>4. CASE ~ MayClaim(u)
      BY <2>1, <3>4 DEF Claim
    <3> QED
      BY <3>2, <3>3, <3>4
  <2>2. ASSUME NEW u \in Users, UserWrites(u), ~ Claim(u)
        PROVE  runs' = runs
    BY <2>2 DEF UserWrites, ApproveWrite, ReopenWrite, DiscardWrite, Register, Spawn, CancelWrite,
                ghosts
  <2>3. ASSUME NEW u \in Users, NEW q \in Plans, UserReads(u, q)
        PROVE  runs' = runs
    BY <2>3 DEF UserReads, ApproveRead, ReopenRead, DiscardRead, ApplyRead, ResumeRead, CancelRead,
                ghosts
  <2>4. ASSUME NEW q \in Plans, PlanStep(q) \/ \E parent \in Plans : RetryPlan(parent, q)
        PROVE  runs' = runs
    BY <2>4 DEF PlanStep, InsertPlan, MakeReady, RunEnds, TaskLeaves, PauseDrops, PauseRun,
                RetryPlan, ghosts
  <2>5. CASE Restart
    BY <2>5 DEF Restart, ghosts
  <2> QED
    BY <2>1, <2>2, <2>3, <2>4, <2>5 DEF Next
<1> QED
  BY <1>1, AlwaysLived, PTL DEF Spec, WithdrawnNeverStarts
=============================================================================
