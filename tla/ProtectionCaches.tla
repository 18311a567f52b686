------------------------- MODULE ProtectionCaches -------------------------
(***************************************************************************)
(* The protection defaults, the overrides of single sources, and the two   *)
(* caches in front of them: one slot with a snapshot of the defaults, and  *)
(* per source an answer tagged with the epoch of the defaults it embeds    *)
(* (crates/app/cache, app/core/src/protection, app/settings/src/writes).   *)
(*                                                                         *)
(* Every database call is a step of its own, and so is every write to a    *)
(* cache: clearing the slot and bumping the epoch are two atomic steps.    *)
(*                                                                         *)
(* `suspect` is a history variable.  A snapshot or an answer is suspect    *)
(* when an invalidation fell between the read it comes from and its store, *)
(* or when a restore gave up after its commit, without invalidating.       *)
(***************************************************************************)
EXTENDS Naturals

CONSTANTS
    Tasks,        \* concurrent calls
    Sources,      \* registered sources
    KeyCount,     \* the defaults are keys 1 .. KeyCount, read in this order
    Values,       \* the values of a default
    Initial,      \* the in-code (and seeded) value of every default
    Overrides,    \* override rows: functions from some of the keys to values
    None,         \* an empty slot, an unread value, a call without a source
    AuditFails,   \* may an audit row fail to be written?
    MaxWrites     \* bound: committed writes

Keys == 1 .. KeyCount

(* A source without an override row inherits everything. *)
NoRow == [k \in {} |-> Initial]

ASSUME ProtectionAssumption ==
    /\ KeyCount \in Nat \ {0}
    /\ Initial \in [Keys -> Values]
    /\ None \notin Values
    /\ None \notin Sources
    /\ AuditFails \in BOOLEAN
    /\ MaxWrites \in Nat

VARIABLES
    rows,      \* protection_defaults, scope "global"
    over,      \* source_protection_state
    slot,      \* PROTECTION_DEFAULTS
    epoch,     \* PROTECTION_DEFAULTS_EPOCH
    entry,     \* SOURCE_PROTECTION_STATE
    step,      \* where each call is
    src,       \* the source it is about, None for a call about the defaults
    tag,       \* the epoch it captured
    got,       \* the defaults it has read, or wants to write
    row,       \* the override row it has read
    suspect,   \* history: what it has read has been invalidated since
    writes

store == <<rows, over>>
caches == <<slot, epoch, entry>>
vars == <<rows, over, slot, epoch, entry, step, src, tag, got, row, suspect, writes>>

Snapshots == [Keys -> Values]
Unread == [k \in Keys |-> None]
Slots == [snap : Snapshots, suspect : BOOLEAN]
Entries == [tag : Nat, snap : Snapshots, row : Overrides \cup {NoRow}, suspect : BOOLEAN]
Steps == {"idle", "load", "read", "lookup", "insert",
          "write", "prior", "audit", "clear", "bump", "drop"}

TypeOK ==
    /\ rows \in Snapshots
    /\ over \in [Sources -> Overrides \cup {NoRow}]
    /\ slot \in Slots \cup {None}
    /\ epoch \in Nat
    /\ entry \in [Sources -> Entries \cup {None}]
    /\ step \in [Tasks -> Steps]
    /\ src \in [Tasks -> Sources \cup {None}]
    /\ \A t \in Tasks : step[t] \in {"lookup", "insert", "drop"} => src[t] \in Sources
    /\ tag \in [Tasks -> Nat]
    /\ got \in [Tasks -> [Keys -> Values \cup {None}]]
    /\ \A t \in Tasks : step[t] \in {"lookup", "insert"} => got[t] \in Snapshots
    /\ row \in [Tasks -> Overrides \cup {NoRow}]
    /\ suspect \in [Tasks -> BOOLEAN]
    /\ writes \in Nat

Init ==
    /\ rows = Initial
    /\ over = [s \in Sources |-> NoRow]
    /\ slot = None
    /\ epoch = 0
    /\ entry = [s \in Sources |-> None]
    /\ step = [t \in Tasks |-> "idle"]
    /\ src = [t \in Tasks |-> None]
    /\ tag = [t \in Tasks |-> 0]
    /\ got = [t \in Tasks |-> Unread]
    /\ row = [t \in Tasks |-> NoRow]
    /\ suspect = [t \in Tasks |-> FALSE]
    /\ writes = 0

-----------------------------------------------------------------------------
Goto(t, s) == step' = [step EXCEPT ![t] = s]

(* The call returns and forgets what it knew. *)
Return(t) ==
    /\ Goto(t, "idle")
    /\ src' = [src EXCEPT ![t] = None]
    /\ tag' = [tag EXCEPT ![t] = 0]
    /\ got' = [got EXCEPT ![t] = Unread]
    /\ row' = [row EXCEPT ![t] = NoRow]

(* What a source answers: its override wins where it says something. *)
Effective(snap, r) == [k \in Keys |-> IF k \in DOMAIN r THEN r[k] ELSE snap[k]]

(***************************************************************************)
(* Reading.  A get captures the epoch before it loads the defaults; plan   *)
(* checks, cleanup scans and generators (source None) only load them.      *)
(***************************************************************************)
Get(t, s) ==
    /\ step[t] = "idle"
    /\ Goto(t, "load")
    /\ src' = [src EXCEPT ![t] = s]
    /\ tag' = [tag EXCEPT ![t] = epoch]
    /\ UNCHANGED <<store, caches, got, row, suspect, writes>>

Loaded(t, snap, old) ==
    IF src[t] = None
    THEN /\ Return(t)
         /\ suspect' = [suspect EXCEPT ![t] = FALSE]
    ELSE /\ Goto(t, "lookup")
         /\ got' = [got EXCEPT ![t] = snap]
         /\ suspect' = [suspect EXCEPT ![t] = old]
         /\ UNCHANGED <<src, tag, row>>

LoadHit(t) ==
    /\ step[t] = "load"
    /\ slot # None
    /\ Loaded(t, slot.snap, slot.suspect)
    /\ UNCHANGED <<store, caches, writes>>

LoadMiss(t) ==
    /\ step[t] = "load"
    /\ slot = None
    /\ Goto(t, "read")
    /\ suspect' = [suspect EXCEPT ![t] = FALSE]
    /\ UNCHANGED <<store, caches, src, tag, got, row, writes>>

(* One query per default, in order. *)
NextKey(t, k) == got[t][k] = None /\ \A j \in 1 .. k - 1 : got[t][j] # None

ReadDefault(t, k) ==
    /\ step[t] = "read"
    /\ NextKey(t, k)
    /\ got' = [got EXCEPT ![t] = [got[t] EXCEPT ![k] = rows[k]]]
    /\ UNCHANGED <<store, caches, step, src, tag, row, suspect, writes>>

StoreDefaults(t) ==
    /\ step[t] = "read"
    /\ \A k \in Keys : got[t][k] # None
    /\ slot' = [snap |-> got[t], suspect |-> suspect[t]]
    /\ Loaded(t, got[t], suspect[t])
    /\ UNCHANGED <<store, epoch, entry, writes>>

EntryHit(t) == entry[src[t]] # None /\ entry[src[t]].tag = tag[t]

AnswerFromEntry(t) ==
    /\ step[t] = "lookup"
    /\ EntryHit(t)
    /\ Return(t)
    /\ suspect' = [suspect EXCEPT ![t] = FALSE]
    /\ UNCHANGED <<store, caches, writes>>

ReadOverride(t) ==
    /\ step[t] = "lookup"
    /\ ~EntryHit(t)
    /\ row' = [row EXCEPT ![t] = over[src[t]]]
    /\ Goto(t, "insert")
    /\ UNCHANGED <<store, caches, src, tag, got, suspect, writes>>

\* (mutant) Tags the answer with the epoch at the insert, not the captured one.
InsertWithCurrentEpoch(t) ==
    /\ step[t] = "insert"
    /\ entry' = [entry EXCEPT ![src[t]] =
           [tag |-> epoch, snap |-> got[t], row |-> row[t], suspect |-> suspect[t]]]
    /\ Return(t)
    /\ suspect' = [suspect EXCEPT ![t] = FALSE]
    /\ UNCHANGED <<store, slot, epoch, writes>>

InsertEntry(t) ==
    /\ step[t] = "insert"
    /\ entry' = [entry EXCEPT ![src[t]] =
           [tag |-> tag[t], snap |-> got[t], row |-> row[t], suspect |-> suspect[t]]]
    /\ Return(t)
    /\ suspect' = [suspect EXCEPT ![t] = FALSE]
    /\ UNCHANGED <<store, slot, epoch, writes>>

-----------------------------------------------------------------------------
(* Writing a default: the stored value is read, the call ends there when it *)
(* is the wanted one already, else it is written; then the slot is cleared  *)
(* and the epoch bumped.                                                    *)
Reading(u) == step[u] = "read" /\ got[u] # Unread

Update(t, k, v) ==
    /\ step[t] = "idle"
    /\ rows[k] # v
    /\ got' = [got EXCEPT ![t] = [Unread EXCEPT ![k] = v]]
    /\ Goto(t, "write")
    /\ UNCHANGED <<store, caches, src, tag, row, suspect, writes>>

\* (mutant) A changed default bumps the epoch and leaves the slot.
WriteWithoutClearing(t) ==
    /\ step[t] = "write"
    /\ writes < MaxWrites
    /\ rows' = [k \in Keys |-> IF got[t][k] = None THEN rows[k] ELSE got[t][k]]
    /\ Goto(t, "bump")
    /\ writes' = writes + 1
    /\ UNCHANGED <<over, caches, src, tag, got, row, suspect>>

WriteDefault(t) ==
    /\ step[t] = "write"
    /\ writes < MaxWrites
    /\ rows' = [k \in Keys |-> IF got[t][k] = None THEN rows[k] ELSE got[t][k]]
    /\ Goto(t, "clear")
    /\ writes' = writes + 1
    /\ UNCHANGED <<over, caches, src, tag, got, row, suspect>>

ClearSlot(t) ==
    /\ step[t] = "clear"
    /\ slot' = None
    /\ suspect' = [u \in Tasks |-> suspect[u] \/ Reading(u)]
    /\ Goto(t, "bump")
    /\ UNCHANGED <<store, epoch, entry, src, tag, got, row, writes>>

BumpEpoch(t) ==
    /\ step[t] = "bump"
    /\ epoch' = epoch + 1
    /\ Return(t)
    /\ UNCHANGED <<store, slot, entry, suspect, writes>>

(***************************************************************************)
(* restore_defaults: the current values are read one by one, those that    *)
(* differ are written in one transaction, and an audit row that cannot be  *)
(* written ends the call before the invalidation.                          *)
(***************************************************************************)
Restore(t) ==
    /\ step[t] = "idle"
    /\ Goto(t, "prior")
    /\ UNCHANGED <<store, caches, src, tag, got, row, suspect, writes>>

ReadPrior(t, k) ==
    /\ step[t] = "prior"
    /\ NextKey(t, k)
    /\ got' = [got EXCEPT ![t] = [got[t] EXCEPT ![k] = rows[k]]]
    /\ UNCHANGED <<store, caches, step, src, tag, row, suspect, writes>>

NothingToRestore(t) ==
    /\ step[t] = "prior"
    /\ got[t] = Initial
    /\ Return(t)
    /\ UNCHANGED <<store, caches, suspect, writes>>

CommitRestore(t) ==
    /\ step[t] = "prior"
    /\ \A k \in Keys : got[t][k] # None
    /\ got[t] # Initial
    /\ writes < MaxWrites
    /\ rows' = [k \in Keys |-> IF got[t][k] = Initial[k] THEN rows[k] ELSE Initial[k]]
    /\ Goto(t, "audit")
    /\ writes' = writes + 1
    /\ UNCHANGED <<over, caches, src, tag, got, row, suspect>>

AuditRestore(t) ==
    /\ step[t] = "audit"
    /\ Goto(t, "clear")
    /\ UNCHANGED <<store, caches, src, tag, got, row, suspect, writes>>

(* Whatever was read before stays where it is, and is marked. *)
Marked(c) == [c EXCEPT !.suspect = TRUE]

AbortRestore(t) ==
    /\ AuditFails
    /\ step[t] = "audit"
    /\ Return(t)
    /\ slot' = IF slot = None THEN None ELSE Marked(slot)
    /\ entry' = [s \in Sources |-> IF entry[s] = None THEN None ELSE Marked(entry[s])]
    /\ suspect' = [u \in Tasks |->
           suspect[u] \/ Reading(u) \/ step[u] \in {"lookup", "insert"}]
    /\ UNCHANGED <<store, epoch, writes>>

(***************************************************************************)
(* Setting or seeding the override of one source: upsert, then the entry   *)
(* is dropped.                                                             *)
(***************************************************************************)
SetOverride(t, s, r) ==
    /\ step[t] = "idle"
    /\ writes < MaxWrites
    /\ over' = [over EXCEPT ![s] = r]
    /\ src' = [src EXCEPT ![t] = s]
    /\ Goto(t, "drop")
    /\ writes' = writes + 1
    /\ UNCHANGED <<rows, caches, tag, got, row, suspect>>

DropEntry(t) ==
    /\ step[t] = "drop"
    /\ entry' = [entry EXCEPT ![src[t]] = None]
    /\ suspect' = [u \in Tasks |->
           suspect[u] \/ (step[u] = "insert" /\ src[u] = src[t])]
    /\ Return(t)
    /\ UNCHANGED <<store, slot, epoch, writes>>

(* The caches and the calls are memory; the tables are not. *)
Restart ==
    /\ slot' = None
    /\ epoch' = 0
    /\ entry' = [s \in Sources |-> None]
    /\ step' = [t \in Tasks |-> "idle"]
    /\ src' = [t \in Tasks |-> None]
    /\ tag' = [t \in Tasks |-> 0]
    /\ got' = [t \in Tasks |-> Unread]
    /\ row' = [t \in Tasks |-> NoRow]
    /\ suspect' = [t \in Tasks |-> FALSE]
    /\ UNCHANGED <<store, writes>>

Next ==
    \/ \E t \in Tasks :
        \/ \E s \in Sources \cup {None} : Get(t, s)
        \/ LoadHit(t) \/ LoadMiss(t)
        \/ \E k \in Keys : ReadDefault(t, k)
        \/ StoreDefaults(t)
        \/ AnswerFromEntry(t) \/ ReadOverride(t) \/ InsertEntry(t)
        \/ \E k \in Keys, v \in Values : Update(t, k, v)
        \/ WriteDefault(t) \/ ClearSlot(t) \/ BumpEpoch(t)
        \/ Restore(t)
        \/ \E k \in Keys : ReadPrior(t, k)
        \/ NothingToRestore(t) \/ CommitRestore(t) \/ AuditRestore(t) \/ AbortRestore(t)
        \/ \E s \in Sources, r \in Overrides : SetOverride(t, s, r)
        \/ DropEntry(t)
    \/ Restart

Spec == Init /\ [][Next]_vars

-----------------------------------------------------------------------------
(* Committed, but the slot not cleared yet; or the epoch not bumped yet. *)
SlotPending == \E t \in Tasks : step[t] \in {"audit", "clear"}
EpochPending == \E t \in Tasks : step[t] \in {"audit", "clear", "bump"}
DropPending(s) == \E t \in Tasks : step[t] = "drop" /\ src[t] = s

(* Once every committed change has cleared the slot, the snapshot of the    *)
(* defaults is what is stored, unless its loader was overtaken by an        *)
(* invalidation or a restore gave up: those are the only ways a snapshot    *)
(* goes stale, whatever the interleaving.                                   *)
SlotStaleOnlyIfSuspect ==
    slot # None => \/ slot.suspect
                   \/ SlotPending
                   \/ slot.snap = rows

(* The answer of a source that carries the current epoch is what the tables *)
(* say, with the same exceptions: capturing the epoch before the load, and  *)
(* clearing the slot before the bump, leave no other way.                   *)
EntryStaleOnlyIfSuspect ==
    \A s \in Sources :
        entry[s] # None /\ entry[s].tag = epoch
            => \/ entry[s].suspect
               \/ EpochPending
               \/ DropPending(s)
               \/ Effective(entry[s].snap, entry[s].row) = Effective(rows, over[s])

(* What the contract of the cache says follows from invalidating strictly   *)
(* after the commit: with every invalidation done, the slot is what is      *)
(* stored.  It holds for one caller whose audit rows are written; two calls *)
(* or a failing audit row break it.                                         *)
SlotFollowsRows ==
    slot # None /\ ~SlotPending => slot.snap = rows

(* The same for the answers that carry the current epoch. *)
EntriesFollowTables ==
    \A s \in Sources :
        entry[s] # None /\ entry[s].tag = epoch /\ ~EpochPending /\ ~DropPending(s)
            => Effective(entry[s].snap, entry[s].row) = Effective(rows, over[s])
=============================================================================
