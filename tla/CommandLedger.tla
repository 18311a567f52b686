---------------------------- MODULE CommandLedger ----------------------------
(***************************************************************************)
(* The durable command ledger (crate persistence/lifecycle, repositories/  *)
(* command_ledger): the rows of command_execution, audit_event,            *)
(* outbox_event and repository_change, and the leases its workers hold in  *)
(* memory.  Every operation that writes is one BEGIN IMMEDIATE             *)
(* transaction, so it is one action here; an error rolls it back whole.    *)
(*                                                                         *)
(* Time is counted in ticks, PerSec to a second (one digit of fraction).   *)
(* The code has two orders on it.  lease_is_active parses both timestamps; *)
(* the WHERE clauses compare text, and the two sides are rendered          *)
(* differently: now with six digits of fraction (Timestamp::now_iso), an   *)
(* expiry without trailing zeros (add_ttl).  'Z' sorts after '.' and after *)
(* the digits, so an expiry compares as later than the instant it equals,  *)
(* and one on a whole second as later than every instant of that second.   *)
(***************************************************************************)
EXTENDS Integers, Sequences, FiniteSets

CONSTANTS
  Commands,       \* command identities (public_id)
  Tasks,          \* tasks that claim and run commands
  WorkerIds,      \* the worker ids tasks present; two tasks may share one
  IdOf,           \* the worker id of each task
  Identities,     \* actor, operation and payload digest of a request
  Results,        \* the terminal results a task may compute
  None,           \* SQL NULL: no result, no owner, no lease
  TTL,            \* ticks a lease lasts
  PerSec,         \* ticks per second
  MaxEvents,      \* longest outbox sequence of a command
  MaxTime,        \* bound: last tick
  MaxSetBacks,    \* bound: how often the wall clock is set back
  MaxVersion,     \* bound: state_version of a row
  MaxAttempts     \* bound: delivery attempts of an event

ASSUME LedgerAssumption ==
  /\ None \notin Results
  /\ IdOf \in [Tasks -> WorkerIds]
  /\ TTL \in Nat \ {0}
  /\ PerSec \in 1 .. 10
  /\ MaxEvents \in Nat
  /\ MaxTime \in Nat
  /\ MaxSetBacks \in Nat
  /\ MaxVersion \in Nat
  /\ MaxAttempts \in Nat

VARIABLES
  now,       \* the wall clock
  setBacks,  \* how often it went backwards
  rows,      \* command_execution
  audit,     \* audit_event: the results recorded, per command
  outbox,    \* outbox_event: the events, per command
  changes,   \* repository_change: entries per command
  lease,     \* the CommandLease each task holds in memory
  told,      \* history: results returned to callers, per command
  wonBy      \* history: generation of the lease that finished the command

ledgerVars == <<now, setBacks, rows, audit, outbox, changes, lease, told, wonBy>>

States == {"absent", "executing", "terminal"}

Row == [state : States, identity : Identities \cup {None},
        version : Nat, gen : Nat, owner : WorkerIds \cup {None},
        expires : Nat, result : Results \cup {None}]

Lease == [cmd : Commands, owner : WorkerIds, gen : Nat, version : Nat, expires : Nat]

Event == [published : BOOLEAN, attempts : Nat]

NoRow == [state |-> "absent", identity |-> None, version |-> 0, gen |-> 0,
          owner |-> None, expires |-> 0, result |-> None]

-----------------------------------------------------------------------------
(* The two orders on time. *)

LeaseIsActive(e) == e > now

TextAfterNow(e) ==
  \/ e >= now
  \/ e % PerSec = 0 /\ e \div PerSec = now \div PerSec

-----------------------------------------------------------------------------
Init ==
  /\ now = 0
  /\ setBacks = 0
  /\ rows = [c \in Commands |-> NoRow]
  /\ audit = [c \in Commands |-> <<>>]
  /\ outbox = [c \in Commands |-> <<>>]
  /\ changes = [c \in Commands |-> 0]
  /\ lease = [t \in Tasks |-> None]
  /\ told = [c \in Commands |-> {}]
  /\ wonBy = [c \in Commands |-> 0]

(* The wall clock advances, or is set back. *)
Tick ==
  /\ \/ /\ now < MaxTime
        /\ now' = now + 1
        /\ UNCHANGED setBacks
     \/ /\ setBacks < MaxSetBacks
        /\ now > 0
        /\ now' \in 0 .. now - 1
        /\ setBacks' = setBacks + 1
  /\ UNCHANGED <<rows, audit, outbox, changes, lease, told, wonBy>>

(* claim of a command nobody has claimed: a row of generation 1. *)
ClaimNew(t, c, i) ==
  /\ rows[c].state = "absent"
  /\ rows' = [rows EXCEPT ![c] =
       [state |-> "executing", identity |-> i, version |-> 1, gen |-> 1,
        owner |-> IdOf[t], expires |-> now + TTL, result |-> None]]
  /\ changes' = [changes EXCEPT ![c] = @ + 1]
  /\ lease' = [lease EXCEPT ![t] =
       [cmd |-> c, owner |-> IdOf[t], gen |-> 1, version |-> 1, expires |-> now + TTL]]
  /\ UNCHANGED <<now, setBacks, audit, outbox, told, wonBy>>

(* claim of a finished command by the same request: the recorded result. *)
ClaimReplayed(t, c, i) ==
  /\ rows[c].state = "terminal"
  /\ rows[c].identity = i
  /\ told' = [told EXCEPT ![c] = @ \cup {rows[c].result}]
  /\ UNCHANGED <<now, setBacks, rows, audit, outbox, changes, lease, wonBy>>

\* (mutant) the take-over looks at the evidence only, not at the clock
ReclaimableAnytime(c) ==
  /\ rows[c].state = "executing"
  /\ audit[c] = <<>>
  /\ outbox[c] = <<>>

(* An expired execution may be taken over only when it left no evidence of *)
(* having finished and when the text comparison agrees that it expired.    *)
Reclaimable(c) ==
  /\ rows[c].state = "executing"
  /\ ~ LeaseIsActive(rows[c].expires)
  /\ audit[c] = <<>>
  /\ outbox[c] = <<>>
  /\ ~ TextAfterNow(rows[c].expires)

\* (mutant) a take-over keeps the generation: the worker id is the only fence
ClaimExpiredSameGen(t, c, i) ==
  /\ Reclaimable(c)
  /\ rows[c].identity = i
  /\ rows[c].version < MaxVersion
  /\ rows' = [rows EXCEPT ![c].version = @ + 1,
                          ![c].owner = IdOf[t], ![c].expires = now + TTL]
  /\ lease' = [lease EXCEPT ![t] =
       [cmd |-> c, owner |-> IdOf[t], gen |-> rows[c].gen,
        version |-> rows[c].version + 1, expires |-> now + TTL]]
  /\ UNCHANGED <<now, setBacks, audit, outbox, changes, told, wonBy>>

(* claim of an expired execution by the same request: the next generation. *)
ClaimExpired(t, c, i) ==
  /\ Reclaimable(c)
  /\ rows[c].identity = i
  /\ rows[c].version < MaxVersion
  /\ rows' = [rows EXCEPT ![c].version = @ + 1, ![c].gen = @ + 1,
                          ![c].owner = IdOf[t], ![c].expires = now + TTL]
  /\ lease' = [lease EXCEPT ![t] =
       [cmd |-> c, owner |-> IdOf[t], gen |-> rows[c].gen + 1,
        version |-> rows[c].version + 1, expires |-> now + TTL]]
  /\ UNCHANGED <<now, setBacks, audit, outbox, changes, told, wonBy>>

(* heartbeat: a compare-and-set on owner, generation and version. *)
Heartbeat(t) ==
  /\ lease[t] # None
  /\ LET l == lease[t]
         c == l.cmd
     IN /\ rows[c].state = "executing"
        /\ rows[c].owner = l.owner
        /\ rows[c].gen = l.gen
        /\ rows[c].version = l.version
        /\ TextAfterNow(rows[c].expires)
        /\ rows[c].version < MaxVersion
        /\ rows' = [rows EXCEPT ![c].version = @ + 1, ![c].expires = now + TTL]
        /\ lease' = [lease EXCEPT ![t].version = @ + 1, ![t].expires = now + TTL]
  /\ UNCHANGED <<now, setBacks, audit, outbox, changes, told, wonBy>>

\* (mutant) finish takes the lease's word for it: no look at owner or generation
MayFinishLate(l) ==
  LET c == l.cmd IN
  /\ rows[c].state = "executing"
  /\ LeaseIsActive(rows[c].expires)
  /\ TextAfterNow(rows[c].expires)
  /\ audit[c] = <<>>
  /\ outbox[c] = <<>>

\* (mutant) finish checks the fence it holds, but not that nothing was recorded
MayFinishTwice(l) ==
  rows[l.cmd].gen = l.gen

(* What finish asks of the row before it writes: validate_lease_preconditions, *)
(* guard_no_prior_evidence and the WHERE clauses of its two updates.           *)
MayFinish(l) ==
  LET c == l.cmd IN
  /\ rows[c].state = "executing"
  /\ rows[c].owner = l.owner
  /\ rows[c].gen = l.gen
  /\ LeaseIsActive(rows[c].expires)
  /\ TextAfterNow(rows[c].expires)
  /\ audit[c] = <<>>
  /\ outbox[c] = <<>>

(* finish: the result, one audit row and n events in one transaction. *)
Finish(t, r, n) ==
  /\ lease[t] # None
  /\ MayFinish(lease[t])
  /\ LET c == lease[t].cmd IN
     /\ rows' = [rows EXCEPT ![c].state = "terminal", ![c].version = @ + 1,
                             ![c].owner = None, ![c].expires = 0, ![c].result = r]
     /\ audit' = [audit EXCEPT ![c] = Append(@, r)]
     /\ outbox' = [outbox EXCEPT ![c] =
                     [k \in 1 .. n |-> [published |-> FALSE, attempts |-> 0]]]
     /\ changes' = [changes EXCEPT ![c] = @ + 1]
     /\ told' = [told EXCEPT ![c] = @ \cup {r}]
     /\ wonBy' = [wonBy EXCEPT ![c] = lease[t].gen]
  /\ UNCHANGED <<now, setBacks, lease>>

\* (mutant) a finish that comes late answers the result it computed itself
FinishAgainOwn(t) ==
  /\ lease[t] # None
  /\ LET c == lease[t].cmd IN
     /\ rows[c].state = "terminal"
     /\ told' = [told EXCEPT ![c] = @ \cup Results]
  /\ UNCHANGED <<now, setBacks, rows, audit, outbox, changes, lease, wonBy>>

(* finish of a command that already has a result returns that result, *)
(* whatever the lease says.                                           *)
FinishAgain(t) ==
  /\ lease[t] # None
  /\ LET c == lease[t].cmd IN
     /\ rows[c].state = "terminal"
     /\ told' = [told EXCEPT ![c] = @ \cup {rows[c].result}]
  /\ UNCHANGED <<now, setBacks, rows, audit, outbox, changes, lease, wonBy>>

(* The process of a task dies: its lease is only in memory. *)
Crash(t) ==
  /\ lease[t] # None
  /\ lease' = [lease EXCEPT ![t] = None]
  /\ UNCHANGED <<now, setBacks, rows, audit, outbox, changes, told, wonBy>>

(* mark_published and mark_delivery_failure on an event polled unpublished. *)
MarkPublished(c, k) ==
  /\ k \in DOMAIN outbox[c]
  /\ ~ outbox[c][k].published
  /\ outbox[c][k].attempts < MaxAttempts
  /\ outbox' = [outbox EXCEPT ![c][k].published = TRUE, ![c][k].attempts = @ + 1]
  /\ UNCHANGED <<now, setBacks, rows, audit, changes, lease, told, wonBy>>

MarkDeliveryFailure(c, k) ==
  /\ k \in DOMAIN outbox[c]
  /\ ~ outbox[c][k].published
  /\ outbox[c][k].attempts < MaxAttempts
  /\ outbox' = [outbox EXCEPT ![c][k].attempts = @ + 1]
  /\ UNCHANGED <<now, setBacks, rows, audit, changes, lease, told, wonBy>>

Next ==
  \/ Tick
  \/ \E t \in Tasks, c \in Commands, i \in Identities :
       \/ ClaimNew(t, c, i)
       \/ ClaimReplayed(t, c, i)
       \/ ClaimExpired(t, c, i)
  \/ \E t \in Tasks :
       \/ Heartbeat(t)
       \/ FinishAgain(t)
       \/ Crash(t)
       \/ \E r \in Results, n \in 0 .. MaxEvents : Finish(t, r, n)
  \/ \E c \in Commands, k \in 1 .. MaxEvents :
       MarkPublished(c, k) \/ MarkDeliveryFailure(c, k)

Spec == Init /\ [][Next]_ledgerVars

-----------------------------------------------------------------------------
(* Properties. *)

(* Type invariant of the ledger's tables and of the leases in memory. *)
TypeOK ==
  /\ now \in Nat
  /\ setBacks \in Nat
  /\ rows \in [Commands -> Row]
  /\ audit \in [Commands -> Seq(Results)]
  /\ outbox \in [Commands -> Seq(Event)]
  /\ changes \in [Commands -> Nat]
  /\ lease \in [Tasks -> Lease \cup {None}]
  /\ told \in [Commands -> SUBSET Results]
  /\ wonBy \in [Commands -> Nat]

(* The result, its one audit row and its change entry are there together   *)
(* or not at all: an execution that expired has left nothing a second      *)
(* attempt could duplicate (finish_transaction is one transaction).        *)
EffectsOnce ==
  \A c \in Commands :
    /\ audit[c] = IF rows[c].state = "terminal" THEN <<rows[c].result>> ELSE <<>>
    /\ changes[c] = CASE rows[c].state = "absent"    -> 0
                      [] rows[c].state = "executing" -> 1
                      [] rows[c].state = "terminal"  -> 2
    /\ rows[c].state # "terminal" => outbox[c] = <<>>

(* No two tasks hold the current fence of a running command, even tasks    *)
(* that present the same worker id: what a taken-over task still holds is  *)
(* of an older generation.                                                 *)
OneHolder ==
  \A s, t \in Tasks :
    /\ lease[s] # None
    /\ lease[t] # None
    /\ lease[s].cmd = lease[t].cmd
    /\ lease[s].gen = lease[t].gen
    => s = t

(* The result on record was computed by the task that claimed the command  *)
(* last: a task whose lease ran out and was taken over cannot slip its     *)
(* late answer in before the new owner's.                                  *)
LastClaimWins ==
  \A c \in Commands : rows[c].state = "terminal" => wonBy[c] = rows[c].gen

(* As long as the wall clock was never set back, two tasks never both      *)
(* believe to own a command at the same time, although one of the two      *)
(* comparisons that decide it is on text.                                  *)
LeaseExcludes ==
  setBacks = 0 =>
    \A s, t \in Tasks :
      /\ lease[s] # None
      /\ lease[t] # None
      /\ lease[s].cmd = lease[t].cmd
      /\ LeaseIsActive(lease[s].expires)
      /\ LeaseIsActive(lease[t].expires)
      => s = t

(* The ledger implements the promise: one result per command, one audit    *)
(* row with it, and every caller is told that result.                      *)
Once == INSTANCE CommandOnce WITH
  NoResult <- None,
  outcome <- [c \in Commands |-> rows[c].result],
  audited <- [c \in Commands |-> Len(audit[c])]

OneResult == Once!Spec
=============================================================================
