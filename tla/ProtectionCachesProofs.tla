---------------------- MODULE ProtectionCachesProofs ----------------------
(***************************************************************************)
(* For any number of calls, sources, defaults and writes: the two caches   *)
(* hold what is stored, except for a snapshot whose loader was overtaken   *)
(* by an invalidation or that a failed restore left behind; and one caller *)
(* whose audit rows are written never meets such a snapshot.               *)
(***************************************************************************)
EXTENDS ProtectionCaches, TLAPS

(* What a load leaves of its call, returned or about to look its source up. *)
LoadedTypes(t) ==
    /\ step' \in [Tasks -> Steps]
    /\ src' \in [Tasks -> Sources \cup {None}]
    /\ \A u \in Tasks : step'[u] \in {"lookup", "insert", "drop"} => src'[u] \in Sources
    /\ tag' \in [Tasks -> Nat]
    /\ got' \in [Tasks -> [Keys -> Values \cup {None}]]
    /\ \A u \in Tasks : step'[u] \in {"lookup", "insert"} => got'[u] \in Snapshots
    /\ row' \in [Tasks -> Overrides \cup {NoRow}]
    /\ suspect' \in [Tasks -> BOOLEAN]

(* A load keeps every call in its type. *)
LEMMA LoadedKeepsTypes ==
    ASSUME TypeOK, NEW t \in Tasks, NEW snap \in Snapshots, NEW old \in BOOLEAN,
           Unread \in [Keys -> Values \cup {None}],
           Snapshots \subseteq [Keys -> Values \cup {None}],
           Loaded(t, snap, old)
    PROVE  LoadedTypes(t)
<1>1. CASE src[t] = None
    <2>1. /\ step' = [step EXCEPT ![t] = "idle"]
          /\ src' = [src EXCEPT ![t] = None]
          /\ tag' = [tag EXCEPT ![t] = 0]
          /\ got' = [got EXCEPT ![t] = Unread]
          /\ row' = [row EXCEPT ![t] = NoRow]
          /\ suspect' = [suspect EXCEPT ![t] = FALSE]
        BY <1>1 DEF Loaded, Return, Goto
    <2> QED
        BY <2>1 DEF TypeOK, Steps, LoadedTypes
<1>2. CASE src[t] # None
    <2>1. /\ step' = [step EXCEPT ![t] = "lookup"]
          /\ got' = [got EXCEPT ![t] = snap]
          /\ suspect' = [suspect EXCEPT ![t] = old]
          /\ src' = src /\ tag' = tag /\ row' = row
        BY <1>2 DEF Loaded, Goto
    <2>2. src[t] \in Sources /\ snap \in [Keys -> Values \cup {None}]
        BY <1>2 DEF TypeOK
    <2> QED
        BY <2>1, <2>2 DEF TypeOK, Steps, LoadedTypes
<1> QED
    BY <1>1, <1>2

(* Every variable stays in its type. *)
LEMMA TypeStep == TypeOK /\ [Next]_vars => TypeOK'
<1> USE ProtectionAssumption
<1> SUFFICES ASSUME TypeOK, [Next]_vars PROVE TypeOK'
    OBVIOUS
<1>0. /\ Initial \in Snapshots
      /\ Unread \in [Keys -> Values \cup {None}]
      /\ Snapshots \subseteq [Keys -> Values \cup {None}]
      /\ NoRow \in Overrides \cup {NoRow}
    BY DEF Snapshots, Unread
<1>1. ASSUME NEW t \in Tasks, NEW s \in Sources \cup {None}, Get(t, s) PROVE TypeOK'
    BY <1>1 DEF Get, Goto, TypeOK, Steps, store, caches
<1>2. ASSUME NEW t \in Tasks, LoadHit(t) PROVE TypeOK'
    <2>1. slot.snap \in Snapshots /\ slot.suspect \in BOOLEAN
        BY <1>2 DEF LoadHit, TypeOK, Slots
    <2>2. Loaded(t, slot.snap, slot.suspect) /\ UNCHANGED <<store, caches, writes>>
        BY <1>2 DEF LoadHit
    <2>3. LoadedTypes(t)
        BY <1>0, <2>1, <2>2, LoadedKeepsTypes
    <2> QED
        BY <2>2, <2>3 DEF LoadedTypes, TypeOK, store, caches
<1>3. ASSUME NEW t \in Tasks, LoadMiss(t) PROVE TypeOK'
    BY <1>3 DEF LoadMiss, Goto, TypeOK, Steps, store, caches
<1>4. ASSUME NEW t \in Tasks, NEW k \in Keys, ReadDefault(t, k) PROVE TypeOK'
    BY <1>0, <1>4 DEF ReadDefault, TypeOK, Steps, Snapshots, store, caches
<1>5. ASSUME NEW t \in Tasks, StoreDefaults(t) PROVE TypeOK'
    <2>1. got[t] \in Snapshots
        BY <1>5 DEF StoreDefaults, TypeOK, Snapshots
    <2>2. Loaded(t, got[t], suspect[t])
        BY <1>5 DEF StoreDefaults
    <2>3. LoadedTypes(t)
        BY <1>0, <2>1, <2>2, LoadedKeepsTypes DEF TypeOK
    <2>4. slot' \in Slots
        BY <1>5, <2>1 DEF StoreDefaults, TypeOK, Slots
    <2> QED
        BY <1>5, <2>3, <2>4 DEF StoreDefaults, LoadedTypes, TypeOK, store
<1>6. ASSUME NEW t \in Tasks, AnswerFromEntry(t) PROVE TypeOK'
    BY <1>0, <1>6 DEF AnswerFromEntry, Return, Goto, TypeOK, Steps, store, caches
<1>7. ASSUME NEW t \in Tasks, ReadOverride(t) PROVE TypeOK'
    BY <1>7 DEF ReadOverride, Goto, TypeOK, Steps, store, caches
<1>8. ASSUME NEW t \in Tasks, InsertEntry(t) PROVE TypeOK'
    BY <1>0, <1>8 DEF InsertEntry, Return, Goto, TypeOK, Steps, Entries, store
<1>9. ASSUME NEW t \in Tasks, NEW k \in Keys, NEW v \in Values, Update(t, k, v)
      PROVE TypeOK'
    <2>1. [Unread EXCEPT ![k] = v] \in [Keys -> Values \cup {None}]
        BY <1>0
    <2> QED
        BY <1>9, <2>1 DEF Update, Goto, TypeOK, Steps, store, caches
<1>10. ASSUME NEW t \in Tasks, WriteDefault(t) PROVE TypeOK'
    <2>1. rows' \in Snapshots
        BY <1>10 DEF WriteDefault, TypeOK, Snapshots
    <2> QED
        BY <1>10, <2>1 DEF WriteDefault, Goto, TypeOK, Steps, caches
<1>11. ASSUME NEW t \in Tasks, ClearSlot(t) PROVE TypeOK'
    BY <1>11 DEF ClearSlot, Goto, TypeOK, Steps, store, Reading
<1>12. ASSUME NEW t \in Tasks, BumpEpoch(t) PROVE TypeOK'
    BY <1>0, <1>12 DEF BumpEpoch, Return, Goto, TypeOK, Steps, store
<1>13. ASSUME NEW t \in Tasks, Restore(t) PROVE TypeOK'
    BY <1>13 DEF Restore, Goto, TypeOK, Steps, store, caches
<1>14. ASSUME NEW t \in Tasks, NEW k \in Keys, ReadPrior(t, k) PROVE TypeOK'
    BY <1>0, <1>14 DEF ReadPrior, TypeOK, Steps, Snapshots, store, caches
<1>15. ASSUME NEW t \in Tasks, NothingToRestore(t) PROVE TypeOK'
    BY <1>0, <1>15 DEF NothingToRestore, Return, Goto, TypeOK, Steps, store, caches
<1>16. ASSUME NEW t \in Tasks, CommitRestore(t) PROVE TypeOK'
    <2>1. rows' \in Snapshots
        BY <1>0, <1>16 DEF CommitRestore, TypeOK, Snapshots
    <2> QED
        BY <1>16, <2>1 DEF CommitRestore, Goto, TypeOK, Steps, caches
<1>17. ASSUME NEW t \in Tasks, AuditRestore(t) PROVE TypeOK'
    BY <1>17 DEF AuditRestore, Goto, TypeOK, Steps, store, caches
<1>18. ASSUME NEW t \in Tasks, AbortRestore(t) PROVE TypeOK'
    <2>1. slot' \in Slots \cup {None}
        BY <1>18 DEF AbortRestore, TypeOK, Slots, Marked
    <2>2. entry' \in [Sources -> Entries \cup {None}]
        <3>1. ASSUME NEW s \in Sources, entry[s] # None PROVE Marked(entry[s]) \in Entries
            <4>1. PICK e \in Entries : e = entry[s]
                BY <3>1 DEF TypeOK
            <4>2. Marked(e) \in Entries
                BY DEF Entries, Marked
            <4> QED
                BY <4>1, <4>2
        <3>2. entry' = [s \in Sources |-> IF entry[s] = None THEN None ELSE Marked(entry[s])]
            BY <1>18 DEF AbortRestore
        <3> QED
            BY <3>1, <3>2
    <2> QED
        BY <1>0, <1>18, <2>1, <2>2
           DEF AbortRestore, Return, Goto, TypeOK, Steps, store, Reading
<1>19. ASSUME NEW t \in Tasks, NEW s \in Sources, NEW r \in Overrides, SetOverride(t, s, r)
       PROVE TypeOK'
    BY <1>19 DEF SetOverride, Goto, TypeOK, Steps, caches
<1>20. ASSUME NEW t \in Tasks, DropEntry(t) PROVE TypeOK'
    BY <1>0, <1>20 DEF DropEntry, Return, Goto, TypeOK, Steps, store
<1>21. CASE Restart
    BY <1>0, <1>21 DEF Restart, TypeOK, Steps, store
<1>22. CASE UNCHANGED vars
    BY <1>22 DEF vars, TypeOK
<1> QED
    BY <1>1, <1>2, <1>3, <1>4, <1>5, <1>6, <1>7, <1>8, <1>9, <1>10, <1>11, <1>12,
       <1>13, <1>14, <1>15, <1>16, <1>17, <1>18, <1>19, <1>20, <1>21, <1>22 DEF Next

(* The calls' records, the slot and the entries keep their types, for any   *)
(* number of calls, sources and writes.                                     *)
THEOREM ProtectionTypeCorrect == Spec => []TypeOK
<1>1. Init => TypeOK
    BY ProtectionAssumption
       DEF Init, TypeOK, Steps, Snapshots, Unread, Entries, Slots
<1> QED
    BY <1>1, TypeStep, PTL DEF Spec

-----------------------------------------------------------------------------
(* A snapshot that nobody marked is the stored one, or a change is between  *)
(* its commit and its clearing of the slot.                                 *)
SlotFresh ==
    slot # None /\ ~slot.suspect => SlotPending \/ slot.snap = rows

(* The same for what a loader has read so far. *)
ReadFresh ==
    \A t \in Tasks : \A k \in Keys :
        step[t] = "read" /\ ~suspect[t] /\ got[t][k] # None
            => SlotPending \/ got[t][k] = rows[k]

(* A call that has not begun to read has read nothing. *)
Unopened ==
    \A t \in Tasks : step[t] \in {"idle", "load", "drop"} => got[t] = Unread

(* No tag is ahead of the epoch. *)
TagsBehind ==
    /\ \A t \in Tasks : tag[t] <= epoch
    /\ \A s \in Sources : entry[s] # None => entry[s].tag <= epoch

(* A call that carries the current epoch has the stored defaults, or a      *)
(* change is between its commit and its bump of the epoch.                  *)
LoadFresh ==
    \A t \in Tasks :
        step[t] \in {"lookup", "insert"} /\ ~suspect[t] /\ tag[t] = epoch
            => EpochPending \/ got[t] = rows

(* The override a call is about to insert is the stored one, or its setter *)
(* has still to drop the entry.                                            *)
OverrideFresh ==
    \A t \in Tasks :
        step[t] = "insert" /\ ~suspect[t]
            => DropPending(src[t]) \/ row[t] = over[src[t]]

EntryFresh ==
    \A s \in Sources :
        entry[s] # None /\ ~entry[s].suspect
            => /\ entry[s].tag = epoch => EpochPending \/ entry[s].snap = rows
               /\ DropPending(s) \/ entry[s].row = over[s]

Coherent ==
    /\ Unopened
    /\ SlotFresh
    /\ ReadFresh
    /\ TagsBehind
    /\ LoadFresh
    /\ OverrideFresh
    /\ EntryFresh

(* Every step keeps it. *)
LEMMA CoherentStep == TypeOK /\ TypeOK' /\ Coherent /\ [Next]_vars => Coherent'
<1> USE ProtectionAssumption
<1> SUFFICES ASSUME TypeOK, TypeOK', Coherent, [Next]_vars PROVE Coherent'
    OBVIOUS
<1>1. ASSUME NEW t \in Tasks, NEW s \in Sources \cup {None}, Get(t, s) PROVE Coherent'
    <2>1. Unopened'
        BY <1>1 DEF Get, Goto, Coherent, Unopened, Unread, TypeOK, Steps, store, caches
    <2>2. SlotFresh'
        BY <1>1 DEF Get, Goto, Coherent, SlotFresh, SlotPending, TypeOK, Steps, store, caches
    <2>3. ReadFresh'
        BY <1>1 DEF Get, Goto, Coherent, ReadFresh, SlotPending, TypeOK, Steps, store, caches
    <2>4. TagsBehind'
        BY <1>1 DEF Get, Goto, Coherent, TagsBehind, TypeOK, Steps, store, caches
    <2>5. LoadFresh'
        BY <1>1 DEF Get, Goto, Coherent, LoadFresh, EpochPending, TypeOK, Steps, store, caches
    <2>6. OverrideFresh'
        BY <1>1 DEF Get, Goto, Coherent, OverrideFresh, DropPending, TypeOK, Steps, store, caches
    <2>7. EntryFresh'
        BY <1>1 DEF Get, Goto, Coherent, EntryFresh, EpochPending, DropPending, TypeOK, Steps, store, caches
    <2> QED
        BY <2>1, <2>2, <2>3, <2>4, <2>5, <2>6, <2>7 DEF Coherent
<1>2. ASSUME NEW t \in Tasks, LoadHit(t) PROVE Coherent'
    <2>pre. slot.snap \in Snapshots /\ slot.suspect \in BOOLEAN
        BY <1>2 DEF LoadHit, TypeOK, Slots
    <2>a. CASE src[t] = None
        <3>1. /\ step' = [step EXCEPT ![t] = "idle"]
              /\ src' = [src EXCEPT ![t] = None]
              /\ tag' = [tag EXCEPT ![t] = 0]
              /\ got' = [got EXCEPT ![t] = Unread]
              /\ row' = [row EXCEPT ![t] = NoRow]
              /\ suspect' = [suspect EXCEPT ![t] = FALSE]
              /\ UNCHANGED <<rows, over, slot, epoch, entry>>
            BY <1>2, <2>a DEF LoadHit, Loaded, Return, Goto, store, caches
        <3>2. Unopened'
            BY <1>2, <3>1, <2>pre DEF LoadHit, Coherent, Unopened, Unread, TypeOK, Steps
        <3>3. SlotFresh'
            BY <1>2, <3>1, <2>pre DEF LoadHit, Coherent, SlotFresh, SlotPending, TypeOK, Steps
        <3>4. ReadFresh'
            <4>1. SlotPending => SlotPending'
                BY <1>2, <3>1 DEF LoadHit, SlotPending, TypeOK
            <4>2. ASSUME NEW u \in Tasks, step'[u] = "read"
                  PROVE  /\ step[u] = "read" /\ got'[u] = got[u]
                         /\ suspect[u] => suspect'[u]
                BY <1>2, <3>1, <4>2 DEF LoadHit, TypeOK
            <4>3. rows' = rows
                BY <1>2, <3>1 DEF LoadHit, store
            <4> QED
                BY <4>1, <4>2, <4>3 DEF Coherent, ReadFresh
        <3>5. TagsBehind'
            BY <1>2, <3>1, <2>pre DEF LoadHit, Coherent, TagsBehind, TypeOK, Steps
        <3>6. LoadFresh'
            BY <1>2, <3>1, <2>pre DEF LoadHit, Coherent, LoadFresh, EpochPending, TypeOK, Steps
        <3>7. OverrideFresh'
            BY <1>2, <3>1, <2>pre DEF LoadHit, Coherent, OverrideFresh, DropPending, TypeOK, Steps
        <3>8. EntryFresh'
            BY <1>2, <3>1, <2>pre DEF LoadHit, Coherent, EntryFresh, EpochPending, DropPending, TypeOK, Steps
        <3> QED
            BY <3>2, <3>3, <3>4, <3>5, <3>6, <3>7, <3>8 DEF Coherent
    <2>b. CASE src[t] # None
        <3>1. /\ step' = [step EXCEPT ![t] = "lookup"]
              /\ got' = [got EXCEPT ![t] = slot.snap]
              /\ suspect' = [suspect EXCEPT ![t] = slot.suspect]
              /\ UNCHANGED <<src, tag, row>>
              /\ UNCHANGED <<rows, over, slot, epoch, entry>>
            BY <1>2, <2>b DEF LoadHit, Loaded, Return, Goto, store, caches
        <3>2. Unopened'
            BY <1>2, <3>1, <2>pre DEF LoadHit, Coherent, Unopened, Unread, TypeOK, Steps
        <3>3. SlotFresh'
            BY <1>2, <3>1, <2>pre DEF LoadHit, Coherent, SlotFresh, SlotPending, TypeOK, Steps
        <3>4. ReadFresh'
            BY <1>2, <3>1, <2>pre DEF LoadHit, Coherent, ReadFresh, SlotPending, TypeOK, Steps
        <3>5. TagsBehind'
            BY <1>2, <3>1, <2>pre DEF LoadHit, Coherent, TagsBehind, TypeOK, Steps
        <3>6. LoadFresh'
            <4>1. ~slot.suspect => SlotPending \/ slot.snap = rows
                BY <1>2 DEF LoadHit, Coherent, SlotFresh
            <4>2. SlotPending => EpochPending'
                BY <1>2, <3>1 DEF LoadHit, SlotPending, EpochPending, TypeOK
            <4>3. EpochPending => EpochPending'
                BY <1>2, <3>1 DEF LoadHit, EpochPending, TypeOK
            <4> QED
                BY <4>1, <4>2, <4>3, <3>1 DEF Coherent, LoadFresh, TypeOK
        <3>7. OverrideFresh'
            BY <1>2, <3>1, <2>pre DEF LoadHit, Coherent, OverrideFresh, DropPending, TypeOK, Steps
        <3>8. EntryFresh'
            BY <1>2, <3>1, <2>pre DEF LoadHit, Coherent, EntryFresh, EpochPending, DropPending, TypeOK, Steps
        <3> QED
            BY <3>2, <3>3, <3>4, <3>5, <3>6, <3>7, <3>8 DEF Coherent
    <2> QED
        BY <2>a, <2>b
<1>3. ASSUME NEW t \in Tasks, LoadMiss(t) PROVE Coherent'
    <2>1. Unopened'
        BY <1>3 DEF LoadMiss, Goto, Coherent, Unopened, Unread, TypeOK, Steps, store, caches
    <2>2. SlotFresh'
        BY <1>3 DEF LoadMiss, Goto, Coherent, SlotFresh, SlotPending, TypeOK, Steps, store, caches
    <2>3. ReadFresh'
        <3>1. got[t] = Unread
            BY <1>3 DEF LoadMiss, Coherent, Unopened
        <3>2. \A k \in Keys : got[t][k] = None
            BY <3>1 DEF Unread
        <3>3. SlotPending => SlotPending'
            BY <1>3 DEF LoadMiss, Goto, SlotPending, TypeOK
        <3> QED
            BY <1>3, <3>2, <3>3 DEF LoadMiss, Goto, Coherent, ReadFresh, TypeOK, store
    <2>4. TagsBehind'
        BY <1>3 DEF LoadMiss, Goto, Coherent, TagsBehind, TypeOK, Steps, store, caches
    <2>5. LoadFresh'
        BY <1>3 DEF LoadMiss, Goto, Coherent, LoadFresh, EpochPending, TypeOK, Steps, store, caches
    <2>6. OverrideFresh'
        BY <1>3 DEF LoadMiss, Goto, Coherent, OverrideFresh, DropPending, TypeOK, Steps, store, caches
    <2>7. EntryFresh'
        BY <1>3 DEF LoadMiss, Goto, Coherent, EntryFresh, EpochPending, DropPending, TypeOK, Steps, store, caches
    <2> QED
        BY <2>1, <2>2, <2>3, <2>4, <2>5, <2>6, <2>7 DEF Coherent
<1>4. ASSUME NEW t \in Tasks, NEW k \in Keys, ReadDefault(t, k) PROVE Coherent'
    <2>1. Unopened'
        BY <1>4 DEF ReadDefault, Coherent, Unopened, Unread, TypeOK, Steps, store, caches
    <2>2. SlotFresh'
        BY <1>4 DEF ReadDefault, Coherent, SlotFresh, SlotPending, TypeOK, Steps, store, caches
    <2>3. ReadFresh'
        BY <1>4 DEF ReadDefault, Coherent, ReadFresh, SlotPending, TypeOK, Steps, store, caches
    <2>4. TagsBehind'
        BY <1>4 DEF ReadDefault, Coherent, TagsBehind, TypeOK, Steps, store, caches
    <2>5. LoadFresh'
        BY <1>4 DEF ReadDefault, Coherent, LoadFresh, EpochPending, TypeOK, Steps, store, caches
    <2>6. OverrideFresh'
        BY <1>4 DEF ReadDefault, Coherent, OverrideFresh, DropPending, TypeOK, Steps, store, caches
    <2>7. EntryFresh'
        BY <1>4 DEF ReadDefault, Coherent, EntryFresh, EpochPending, DropPending, TypeOK, Steps, store, caches
    <2> QED
        BY <2>1, <2>2, <2>3, <2>4, <2>5, <2>6, <2>7 DEF Coherent
<1>5. ASSUME NEW t \in Tasks, StoreDefaults(t) PROVE Coherent'
    <2>pre. /\ got[t] \in Snapshots /\ suspect[t] \in BOOLEAN
            /\ ~suspect[t] => SlotPending \/ got[t] = rows
        <3>1. got[t] \in Snapshots /\ suspect[t] \in BOOLEAN /\ rows \in Snapshots
            BY <1>5 DEF StoreDefaults, TypeOK, Snapshots
        <3>2. ~suspect[t] /\ ~SlotPending => \A k \in Keys : got[t][k] = rows[k]
            BY <1>5 DEF StoreDefaults, Coherent, ReadFresh
        <3> QED
            BY <3>1, <3>2 DEF Snapshots
    <2>a. CASE src[t] = None
        <3>1. /\ step' = [step EXCEPT ![t] = "idle"]
              /\ src' = [src EXCEPT ![t] = None]
              /\ tag' = [tag EXCEPT ![t] = 0]
              /\ got' = [got EXCEPT ![t] = Unread]
              /\ row' = [row EXCEPT ![t] = NoRow]
              /\ suspect' = [suspect EXCEPT ![t] = FALSE]
              /\ slot' = [snap |-> got[t], suspect |-> suspect[t]]
              /\ UNCHANGED <<rows, over, epoch, entry>>
            BY <1>5, <2>a DEF StoreDefaults, Loaded, Return, Goto, store, caches
        <3>2. Unopened'
            BY <1>5, <3>1, <2>pre DEF StoreDefaults, Coherent, Unopened, Unread, TypeOK, Steps
        <3>3. SlotFresh'
            <4>1. SlotPending => SlotPending'
                BY <1>5, <3>1 DEF StoreDefaults, SlotPending, TypeOK
            <4> QED
                BY <4>1, <2>pre, <3>1 DEF SlotFresh
        <3>4. ReadFresh'
            BY <1>5, <3>1, <2>pre DEF StoreDefaults, Coherent, ReadFresh, SlotPending, TypeOK, Steps
        <3>5. TagsBehind'
            BY <1>5, <3>1, <2>pre DEF StoreDefaults, Coherent, TagsBehind, TypeOK, Steps
        <3>6. LoadFresh'
            BY <1>5, <3>1, <2>pre DEF StoreDefaults, Coherent, LoadFresh, EpochPending, TypeOK, Steps
        <3>7. OverrideFresh'
            BY <1>5, <3>1, <2>pre DEF StoreDefaults, Coherent, OverrideFresh, DropPending, TypeOK, Steps
        <3>8. EntryFresh'
            BY <1>5, <3>1, <2>pre DEF StoreDefaults, Coherent, EntryFresh, EpochPending, DropPending, TypeOK, Steps
        <3> QED
            BY <3>2, <3>3, <3>4, <3>5, <3>6, <3>7, <3>8 DEF Coherent
    <2>b. CASE src[t] # None
        <3>1. /\ step' = [step EXCEPT ![t] = "lookup"]
              /\ got' = [got EXCEPT ![t] = got[t]]
              /\ suspect' = [suspect EXCEPT ![t] = suspect[t]]
              /\ UNCHANGED <<src, tag, row>>
              /\ slot' = [snap |-> got[t], suspect |-> suspect[t]]
              /\ UNCHANGED <<rows, over, epoch, entry>>
            BY <1>5, <2>b DEF StoreDefaults, Loaded, Return, Goto, store, caches
        <3>2. Unopened'
            BY <1>5, <3>1, <2>pre DEF StoreDefaults, Coherent, Unopened, Unread, TypeOK, Steps
        <3>3. SlotFresh'
            <4>1. SlotPending => SlotPending'
                BY <1>5, <3>1 DEF StoreDefaults, SlotPending, TypeOK
            <4> QED
                BY <4>1, <2>pre, <3>1 DEF SlotFresh
        <3>4. ReadFresh'
            BY <1>5, <3>1, <2>pre DEF StoreDefaults, Coherent, ReadFresh, SlotPending, TypeOK, Steps
        <3>5. TagsBehind'
            BY <1>5, <3>1, <2>pre DEF StoreDefaults, Coherent, TagsBehind, TypeOK, Steps
        <3>6. LoadFresh'
            <4>2. SlotPending => EpochPending'
                BY <1>5, <3>1 DEF StoreDefaults, SlotPending, EpochPending, TypeOK
            <4>3. EpochPending => EpochPending'
                BY <1>5, <3>1 DEF StoreDefaults, EpochPending, TypeOK
            <4> QED
                BY <2>pre, <4>2, <4>3, <3>1 DEF Coherent, LoadFresh, TypeOK
        <3>7. OverrideFresh'
            BY <1>5, <3>1, <2>pre DEF StoreDefaults, Coherent, OverrideFresh, DropPending, TypeOK, Steps
        <3>8. EntryFresh'
            BY <1>5, <3>1, <2>pre DEF StoreDefaults, Coherent, EntryFresh, EpochPending, DropPending, TypeOK, Steps
        <3> QED
            BY <3>2, <3>3, <3>4, <3>5, <3>6, <3>7, <3>8 DEF Coherent
    <2> QED
        BY <2>a, <2>b
<1>6. ASSUME NEW t \in Tasks, AnswerFromEntry(t) PROVE Coherent'
    <2>1. Unopened'
        BY <1>6 DEF AnswerFromEntry, Return, Goto, Coherent, Unopened, Unread, TypeOK, Steps, store, caches
    <2>2. SlotFresh'
        BY <1>6 DEF AnswerFromEntry, Return, Goto, Coherent, SlotFresh, SlotPending, TypeOK, Steps, store, caches
    <2>3. ReadFresh'
        BY <1>6 DEF AnswerFromEntry, Return, Goto, Coherent, ReadFresh, SlotPending, TypeOK, Steps, store, caches
    <2>4. TagsBehind'
        BY <1>6 DEF AnswerFromEntry, Return, Goto, Coherent, TagsBehind, TypeOK, Steps, store, caches
    <2>5. LoadFresh'
        BY <1>6 DEF AnswerFromEntry, Return, Goto, Coherent, LoadFresh, EpochPending, TypeOK, Steps, store, caches
    <2>6. OverrideFresh'
        BY <1>6 DEF AnswerFromEntry, Return, Goto, Coherent, OverrideFresh, DropPending, TypeOK, Steps, store, caches
    <2>7. EntryFresh'
        BY <1>6 DEF AnswerFromEntry, Return, Goto, Coherent, EntryFresh, EpochPending, DropPending, TypeOK, Steps, store, caches
    <2> QED
        BY <2>1, <2>2, <2>3, <2>4, <2>5, <2>6, <2>7 DEF Coherent
<1>7. ASSUME NEW t \in Tasks, ReadOverride(t) PROVE Coherent'
    <2>1. Unopened'
        BY <1>7 DEF ReadOverride, Goto, Coherent, Unopened, Unread, TypeOK, Steps, store, caches
    <2>2. SlotFresh'
        BY <1>7 DEF ReadOverride, Goto, Coherent, SlotFresh, SlotPending, TypeOK, Steps, store, caches
    <2>3. ReadFresh'
        <3>1. SlotPending => SlotPending'
            BY <1>7 DEF ReadOverride, Goto, SlotPending, TypeOK
        <3>2. ASSUME NEW u \in Tasks, step'[u] = "read"
              PROVE  step[u] = "read" /\ got'[u] = got[u] /\ suspect'[u] = suspect[u]
            BY <1>7, <3>2 DEF ReadOverride, Goto, TypeOK
        <3>3. rows' = rows
            BY <1>7 DEF ReadOverride, store
        <3> QED
            BY <3>1, <3>2, <3>3 DEF Coherent, ReadFresh
    <2>4. TagsBehind'
        BY <1>7 DEF ReadOverride, Goto, Coherent, TagsBehind, TypeOK, Steps, store, caches
    <2>5. LoadFresh'
        BY <1>7 DEF ReadOverride, Goto, Coherent, LoadFresh, EpochPending, TypeOK, Steps, store, caches
    <2>6. OverrideFresh'
        BY <1>7 DEF ReadOverride, Goto, Coherent, OverrideFresh, DropPending, TypeOK, Steps, store, caches
    <2>7. EntryFresh'
        BY <1>7 DEF ReadOverride, Goto, Coherent, EntryFresh, EpochPending, DropPending, TypeOK, Steps, store, caches
    <2> QED
        BY <2>1, <2>2, <2>3, <2>4, <2>5, <2>6, <2>7 DEF Coherent
<1>8. ASSUME NEW t \in Tasks, InsertEntry(t) PROVE Coherent'
    <2>1. Unopened'
        BY <1>8 DEF InsertEntry, Return, Goto, Coherent, Unopened, Unread, TypeOK, Steps, store, caches
    <2>2. SlotFresh'
        BY <1>8 DEF InsertEntry, Return, Goto, Coherent, SlotFresh, SlotPending, TypeOK, Steps, store, caches
    <2>3. ReadFresh'
        <3>1. SlotPending => SlotPending'
            BY <1>8 DEF InsertEntry, Return, Goto, SlotPending, TypeOK
        <3>2. ASSUME NEW u \in Tasks, step'[u] = "read"
              PROVE  u # t /\ step[u] = "read" /\ got'[u] = got[u] /\ suspect'[u] = suspect[u]
            BY <1>8, <3>2 DEF InsertEntry, Return, Goto, TypeOK
        <3>3. rows' = rows
            BY <1>8 DEF InsertEntry, store
        <3> QED
            BY <3>1, <3>2, <3>3 DEF Coherent, ReadFresh
    <2>4. TagsBehind'
        BY <1>8 DEF InsertEntry, Return, Goto, Coherent, TagsBehind, TypeOK, Steps, store, caches
    <2>5. LoadFresh'
        BY <1>8 DEF InsertEntry, Return, Goto, Coherent, LoadFresh, EpochPending, TypeOK, Steps, store, caches
    <2>6. OverrideFresh'
        BY <1>8 DEF InsertEntry, Return, Goto, Coherent, OverrideFresh, DropPending, TypeOK, Steps, store, caches
    <2>7. EntryFresh'
        <3>1. /\ EpochPending => EpochPending'
              /\ \A s \in Sources : DropPending(s) => DropPending(s)'
            BY <1>8 DEF InsertEntry, Return, Goto, EpochPending, DropPending, TypeOK
        <3>2. rows' = rows /\ over' = over /\ epoch' = epoch
            BY <1>8 DEF InsertEntry, store
        <3> DEFINE new == [tag |-> tag[t], snap |-> got[t], row |-> row[t],
                           suspect |-> suspect[t]]
        <3>3. src[t] \in Sources /\ entry' = [entry EXCEPT ![src[t]] = new]
            BY <1>8 DEF InsertEntry, TypeOK
        <3>4. /\ new.tag = tag[t] /\ new.snap = got[t]
              /\ new.row = row[t] /\ new.suspect = suspect[t]
            OBVIOUS
        <3>5. ~new.suspect => /\ new.tag = epoch => EpochPending \/ new.snap = rows
                              /\ DropPending(src[t]) \/ new.row = over[src[t]]
            BY <1>8, <3>4 DEF InsertEntry, Coherent, LoadFresh, OverrideFresh
        <3>6. /\ entry'[src[t]] = new
              /\ \A s \in Sources : s # src[t] => entry'[s] = entry[s]
            BY <3>3 DEF TypeOK
        <3> HIDE DEF new
        <3>7. ASSUME NEW s \in Sources, s = src[t], ~entry'[s].suspect
              PROVE  /\ entry'[s].tag = epoch' => EpochPending' \/ entry'[s].snap = rows'
                     /\ DropPending(s)' \/ entry'[s].row = over'[s]
            BY <3>1, <3>2, <3>3, <3>5, <3>6, <3>7
        <3>8. ASSUME NEW s \in Sources, s # src[t], entry'[s] # None, ~entry'[s].suspect
              PROVE  /\ entry'[s].tag = epoch' => EpochPending' \/ entry'[s].snap = rows'
                     /\ DropPending(s)' \/ entry'[s].row = over'[s]
            BY <3>1, <3>2, <3>6, <3>8 DEF Coherent, EntryFresh
        <3> QED
            BY <3>7, <3>8 DEF EntryFresh
    <2> QED
        BY <2>1, <2>2, <2>3, <2>4, <2>5, <2>6, <2>7 DEF Coherent
<1>9. ASSUME NEW t \in Tasks, NEW k \in Keys, NEW v \in Values, Update(t, k, v) PROVE Coherent'
    <2>1. Unopened'
        BY <1>9 DEF Update, Goto, Coherent, Unopened, Unread, TypeOK, Steps, store, caches
    <2>2. SlotFresh'
        BY <1>9 DEF Update, Goto, Coherent, SlotFresh, SlotPending, TypeOK, Steps, store, caches
    <2>3. ReadFresh'
        <3>1. SlotPending => SlotPending'
            BY <1>9 DEF Update, Goto, SlotPending, TypeOK
        <3>2. ASSUME NEW u \in Tasks, step'[u] = "read"
              PROVE  step[u] = "read" /\ got'[u] = got[u] /\ suspect'[u] = suspect[u]
            BY <1>9, <3>2 DEF Update, Goto, TypeOK
        <3>3. rows' = rows
            BY <1>9 DEF Update, store
        <3> QED
            BY <3>1, <3>2, <3>3 DEF Coherent, ReadFresh
    <2>4. TagsBehind'
        BY <1>9 DEF Update, Goto, Coherent, TagsBehind, TypeOK, Steps, store, caches
    <2>5. LoadFresh'
        BY <1>9 DEF Update, Goto, Coherent, LoadFresh, EpochPending, TypeOK, Steps, store, caches
    <2>6. OverrideFresh'
        BY <1>9 DEF Update, Goto, Coherent, OverrideFresh, DropPending, TypeOK, Steps, store, caches
    <2>7. EntryFresh'
        BY <1>9 DEF Update, Goto, Coherent, EntryFresh, EpochPending, DropPending, TypeOK, Steps, store, caches
    <2> QED
        BY <2>1, <2>2, <2>3, <2>4, <2>5, <2>6, <2>7 DEF Coherent
<1>10. ASSUME NEW t \in Tasks, WriteDefault(t) PROVE Coherent'
    <2>1. Unopened'
        BY <1>10 DEF WriteDefault, Goto, Coherent, Unopened, Unread, TypeOK, Steps, store, caches
    <2>2. SlotFresh'
        BY <1>10 DEF WriteDefault, Goto, Coherent, SlotFresh, SlotPending, TypeOK, Steps, store, caches
    <2>3. ReadFresh'
        BY <1>10 DEF WriteDefault, Goto, Coherent, ReadFresh, SlotPending, TypeOK, Steps, store, caches
    <2>4. TagsBehind'
        BY <1>10 DEF WriteDefault, Goto, Coherent, TagsBehind, TypeOK, Steps, store, caches
    <2>5. LoadFresh'
        BY <1>10 DEF WriteDefault, Goto, Coherent, LoadFresh, EpochPending, TypeOK, Steps, store, caches
    <2>6. OverrideFresh'
        BY <1>10 DEF WriteDefault, Goto, Coherent, OverrideFresh, DropPending, TypeOK, Steps, store, caches
    <2>7. EntryFresh'
        BY <1>10 DEF WriteDefault, Goto, Coherent, EntryFresh, EpochPending, DropPending, TypeOK, Steps, store, caches
    <2> QED
        BY <2>1, <2>2, <2>3, <2>4, <2>5, <2>6, <2>7 DEF Coherent
<1>11. ASSUME NEW t \in Tasks, ClearSlot(t) PROVE Coherent'
    <2>1. Unopened'
        BY <1>11 DEF ClearSlot, Goto, Reading, Coherent, Unopened, Unread, TypeOK, Steps, store, caches
    <2>2. SlotFresh'
        BY <1>11 DEF ClearSlot, Goto, Reading, Coherent, SlotFresh, SlotPending, TypeOK, Steps, store, caches
    <2>3. ReadFresh'
        <3> SUFFICES ASSUME NEW u \in Tasks, NEW k \in Keys, step'[u] = "read",
                            ~suspect'[u], got'[u][k] # None
                     PROVE  FALSE
            BY DEF ReadFresh
        <3>1. step[u] = "read" /\ got'[u] = got[u]
            BY <1>11 DEF ClearSlot, Goto, TypeOK
        <3>2. got[u] = Unread
            BY <1>11, <3>1 DEF ClearSlot, Reading
        <3> QED
            BY <3>1, <3>2 DEF Unread
    <2>4. TagsBehind'
        BY <1>11 DEF ClearSlot, Goto, Reading, Coherent, TagsBehind, TypeOK, Steps, store, caches
    <2>5. LoadFresh'
        BY <1>11 DEF ClearSlot, Goto, Reading, Coherent, LoadFresh, EpochPending, TypeOK, Steps, store, caches
    <2>6. OverrideFresh'
        BY <1>11 DEF ClearSlot, Goto, Reading, Coherent, OverrideFresh, DropPending, TypeOK, Steps, store, caches
    <2>7. EntryFresh'
        BY <1>11 DEF ClearSlot, Goto, Reading, Coherent, EntryFresh, EpochPending, DropPending, TypeOK, Steps, store, caches
    <2> QED
        BY <2>1, <2>2, <2>3, <2>4, <2>5, <2>6, <2>7 DEF Coherent
<1>12. ASSUME NEW t \in Tasks, BumpEpoch(t) PROVE Coherent'
    <2>1. Unopened'
        BY <1>12 DEF BumpEpoch, Return, Goto, Coherent, Unopened, Unread, TypeOK, Steps, store, caches
    <2>2. SlotFresh'
        BY <1>12 DEF BumpEpoch, Return, Goto, Coherent, SlotFresh, SlotPending, TypeOK, Steps, store, caches
    <2>3. ReadFresh'
        <3>1. SlotPending => SlotPending'
            BY <1>12 DEF BumpEpoch, Return, Goto, SlotPending, TypeOK
        <3>2. ASSUME NEW u \in Tasks, step'[u] = "read"
              PROVE  /\ step[u] = "read" /\ got'[u] = got[u]
                     /\ suspect[u] => suspect'[u]
            BY <1>12, <3>2 DEF BumpEpoch, Return, Goto, TypeOK
        <3>3. rows' = rows
            BY <1>12 DEF BumpEpoch, Return, Goto, store
        <3> QED
            BY <3>1, <3>2, <3>3 DEF Coherent, ReadFresh
    <2>4. TagsBehind'
        <3>1. epoch \in Nat /\ epoch' = epoch + 1 /\ entry' = entry
            BY <1>12 DEF BumpEpoch, TypeOK
        <3>2. ASSUME NEW u \in Tasks PROVE tag'[u] <= epoch'
            <4>1. tag[u] \in Nat /\ tag[u] <= epoch
                BY DEF TypeOK, Coherent, TagsBehind
            <4>2. tag'[u] = 0 \/ tag'[u] = tag[u]
                BY <1>12 DEF BumpEpoch, Return, TypeOK
            <4> QED
                BY <3>1, <4>1, <4>2
        <3>3. ASSUME NEW s \in Sources, entry[s] # None PROVE entry[s].tag <= epoch + 1
            <4>1. PICK e \in Entries : e = entry[s]
                BY <3>3 DEF TypeOK
            <4>2. e.tag \in Nat
                BY DEF Entries
            <4>3. e.tag <= epoch
                BY <3>3, <4>1 DEF Coherent, TagsBehind
            <4> QED
                BY <3>1, <4>1, <4>2, <4>3
        <3> QED
            BY <3>1, <3>2, <3>3 DEF TagsBehind
    <2>5. LoadFresh'
        <3> SUFFICES ASSUME NEW u \in Tasks, step'[u] \in {"lookup", "insert"},
                            tag'[u] = epoch'
                     PROVE  FALSE
            BY DEF LoadFresh
        <3>1. epoch \in Nat /\ epoch' = epoch + 1
            BY <1>12 DEF BumpEpoch, TypeOK
        <3>2. tag[u] \in Nat /\ tag[u] <= epoch
            BY DEF TypeOK, Coherent, TagsBehind
        <3>3. tag'[u] = tag[u]
            BY <1>12 DEF BumpEpoch, Return, Goto, TypeOK
        <3> QED
            BY <3>1, <3>2, <3>3
    <2>6. OverrideFresh'
        BY <1>12 DEF BumpEpoch, Return, Goto, Coherent, OverrideFresh, DropPending, TypeOK, Steps, store, caches
    <2>7. EntryFresh'
        <3> SUFFICES ASSUME NEW s \in Sources, entry'[s] # None, ~entry'[s].suspect
                     PROVE  /\ entry'[s].tag # epoch'
                            /\ DropPending(s)' \/ entry'[s].row = over'[s]
            BY DEF EntryFresh
        <3>1. epoch \in Nat /\ epoch' = epoch + 1 /\ entry' = entry /\ over' = over
            BY <1>12 DEF BumpEpoch, TypeOK, store
        <3>2. PICK e \in Entries : e = entry[s]
            BY <3>1 DEF TypeOK
        <3>3. e.tag \in Nat /\ e.tag <= epoch
            BY <3>1, <3>2 DEF Entries, Coherent, TagsBehind
        <3>4. DropPending(s) => DropPending(s)'
            BY <1>12 DEF BumpEpoch, Return, Goto, DropPending, TypeOK
        <3>5. DropPending(s) \/ entry[s].row = over[s]
            BY <3>1 DEF Coherent, EntryFresh
        <3> QED
            BY <3>1, <3>2, <3>3, <3>4, <3>5
    <2> QED
        BY <2>1, <2>2, <2>3, <2>4, <2>5, <2>6, <2>7 DEF Coherent
<1>13. ASSUME NEW t \in Tasks, Restore(t) PROVE Coherent'
    <2>1. Unopened'
        BY <1>13 DEF Restore, Goto, Coherent, Unopened, Unread, TypeOK, Steps, store, caches
    <2>2. SlotFresh'
        BY <1>13 DEF Restore, Goto, Coherent, SlotFresh, SlotPending, TypeOK, Steps, store, caches
    <2>3. ReadFresh'
        BY <1>13 DEF Restore, Goto, Coherent, ReadFresh, SlotPending, TypeOK, Steps, store, caches
    <2>4. TagsBehind'
        BY <1>13 DEF Restore, Goto, Coherent, TagsBehind, TypeOK, Steps, store, caches
    <2>5. LoadFresh'
        BY <1>13 DEF Restore, Goto, Coherent, LoadFresh, EpochPending, TypeOK, Steps, store, caches
    <2>6. OverrideFresh'
        BY <1>13 DEF Restore, Goto, Coherent, OverrideFresh, DropPending, TypeOK, Steps, store, caches
    <2>7. EntryFresh'
        BY <1>13 DEF Restore, Goto, Coherent, EntryFresh, EpochPending, DropPending, TypeOK, Steps, store, caches
    <2> QED
        BY <2>1, <2>2, <2>3, <2>4, <2>5, <2>6, <2>7 DEF Coherent
<1>14. ASSUME NEW t \in Tasks, NEW k \in Keys, ReadPrior(t, k) PROVE Coherent'
    <2>1. Unopened'
        BY <1>14 DEF ReadPrior, Coherent, Unopened, Unread, TypeOK, Steps, store, caches
    <2>2. SlotFresh'
        BY <1>14 DEF ReadPrior, Coherent, SlotFresh, SlotPending, TypeOK, Steps, store, caches
    <2>3. ReadFresh'
        <3>1. SlotPending => SlotPending'
            BY <1>14 DEF ReadPrior, SlotPending, TypeOK
        <3>2. ASSUME NEW u \in Tasks, step'[u] = "read"
              PROVE  /\ step[u] = "read" /\ got'[u] = got[u]
                     /\ suspect[u] => suspect'[u]
            BY <1>14, <3>2 DEF ReadPrior, TypeOK
        <3>3. rows' = rows
            BY <1>14 DEF ReadPrior, store
        <3> QED
            BY <3>1, <3>2, <3>3 DEF Coherent, ReadFresh
    <2>4. TagsBehind'
        BY <1>14 DEF ReadPrior, Coherent, TagsBehind, TypeOK, Steps, store, caches
    <2>5. LoadFresh'
        BY <1>14 DEF ReadPrior, Coherent, LoadFresh, EpochPending, TypeOK, Steps, store, caches
    <2>6. OverrideFresh'
        BY <1>14 DEF ReadPrior, Coherent, OverrideFresh, DropPending, TypeOK, Steps, store, caches
    <2>7. EntryFresh'
        BY <1>14 DEF ReadPrior, Coherent, EntryFresh, EpochPending, DropPending, TypeOK, Steps, store, caches
    <2> QED
        BY <2>1, <2>2, <2>3, <2>4, <2>5, <2>6, <2>7 DEF Coherent
<1>15. ASSUME NEW t \in Tasks, NothingToRestore(t) PROVE Coherent'
    <2>1. Unopened'
        BY <1>15 DEF NothingToRestore, Return, Goto, Coherent, Unopened, Unread, TypeOK, Steps, store, caches
    <2>2. SlotFresh'
        BY <1>15 DEF NothingToRestore, Return, Goto, Coherent, SlotFresh, SlotPending, TypeOK, Steps, store, caches
    <2>3. ReadFresh'
        BY <1>15 DEF NothingToRestore, Return, Goto, Coherent, ReadFresh, SlotPending, TypeOK, Steps, store, caches
    <2>4. TagsBehind'
        BY <1>15 DEF NothingToRestore, Return, Goto, Coherent, TagsBehind, TypeOK, Steps, store, caches
    <2>5. LoadFresh'
        BY <1>15 DEF NothingToRestore, Return, Goto, Coherent, LoadFresh, EpochPending, TypeOK, Steps, store, caches
    <2>6. OverrideFresh'
        BY <1>15 DEF NothingToRestore, Return, Goto, Coherent, OverrideFresh, DropPending, TypeOK, Steps, store, caches
    <2>7. EntryFresh'
        BY <1>15 DEF NothingToRestore, Return, Goto, Coherent, EntryFresh, EpochPending, DropPending, TypeOK, Steps, store, caches
    <2> QED
        BY <2>1, <2>2, <2>3, <2>4, <2>5, <2>6, <2>7 DEF Coherent
<1>16. ASSUME NEW t \in Tasks, CommitRestore(t) PROVE Coherent'
    <2>1. Unopened'
        BY <1>16 DEF CommitRestore, Goto, Coherent, Unopened, Unread, TypeOK, Steps, store, caches
    <2>2. SlotFresh'
        BY <1>16 DEF CommitRestore, Goto, Coherent, SlotFresh, SlotPending, TypeOK, Steps, store, caches
    <2>3. ReadFresh'
        BY <1>16 DEF CommitRestore, Goto, Coherent, ReadFresh, SlotPending, TypeOK, Steps, store, caches
    <2>4. TagsBehind'
        BY <1>16 DEF CommitRestore, Goto, Coherent, TagsBehind, TypeOK, Steps, store, caches
    <2>5. LoadFresh'
        BY <1>16 DEF CommitRestore, Goto, Coherent, LoadFresh, EpochPending, TypeOK, Steps, store, caches
    <2>6. OverrideFresh'
        BY <1>16 DEF CommitRestore, Goto, Coherent, OverrideFresh, DropPending, TypeOK, Steps, store, caches
    <2>7. EntryFresh'
        BY <1>16 DEF CommitRestore, Goto, Coherent, EntryFresh, EpochPending, DropPending, TypeOK, Steps, store, caches
    <2> QED
        BY <2>1, <2>2, <2>3, <2>4, <2>5, <2>6, <2>7 DEF Coherent
<1>17. ASSUME NEW t \in Tasks, AuditRestore(t) PROVE Coherent'
    <2>1. Unopened'
        BY <1>17 DEF AuditRestore, Goto, Coherent, Unopened, Unread, TypeOK, Steps, store, caches
    <2>2. SlotFresh'
        BY <1>17 DEF AuditRestore, Goto, Coherent, SlotFresh, SlotPending, TypeOK, Steps, store, caches
    <2>3. ReadFresh'
        BY <1>17 DEF AuditRestore, Goto, Coherent, ReadFresh, SlotPending, TypeOK, Steps, store, caches
    <2>4. TagsBehind'
        BY <1>17 DEF AuditRestore, Goto, Coherent, TagsBehind, TypeOK, Steps, store, caches
    <2>5. LoadFresh'
        BY <1>17 DEF AuditRestore, Goto, Coherent, LoadFresh, EpochPending, TypeOK, Steps, store, caches
    <2>6. OverrideFresh'
        BY <1>17 DEF AuditRestore, Goto, Coherent, OverrideFresh, DropPending, TypeOK, Steps, store, caches
    <2>7. EntryFresh'
        BY <1>17 DEF AuditRestore, Goto, Coherent, EntryFresh, EpochPending, DropPending, TypeOK, Steps, store, caches
    <2> QED
        BY <2>1, <2>2, <2>3, <2>4, <2>5, <2>6, <2>7 DEF Coherent
<1>18. ASSUME NEW t \in Tasks, AbortRestore(t) PROVE Coherent'
    <2>1. Unopened'
        BY <1>18 DEF AbortRestore, Return, Goto, Reading, Marked, Coherent, Unopened, Unread, TypeOK, Steps, store, caches
    <2>2. SlotFresh'
        BY <1>18 DEF AbortRestore, Return, Goto, Reading, Marked, Coherent, SlotFresh, SlotPending, TypeOK, Steps, store, caches
    <2>3. ReadFresh'
        <3> SUFFICES ASSUME NEW u \in Tasks, NEW k \in Keys, step'[u] = "read",
                            ~suspect'[u], got'[u][k] # None
                     PROVE  FALSE
            BY DEF ReadFresh
        <3>1. step[u] = "read" /\ got'[u] = got[u]
            BY <1>18 DEF AbortRestore, Return, Goto, TypeOK
        <3>2. got[u] = Unread
            BY <1>18, <3>1 DEF AbortRestore, Reading
        <3> QED
            BY <3>1, <3>2 DEF Unread
    <2>4. TagsBehind'
        BY <1>18 DEF AbortRestore, Return, Goto, Reading, Marked, Coherent, TagsBehind, TypeOK, Steps, store, caches
    <2>5. LoadFresh'
        BY <1>18 DEF AbortRestore, Return, Goto, Reading, Marked, Coherent, LoadFresh, EpochPending, TypeOK, Steps, store, caches
    <2>6. OverrideFresh'
        BY <1>18 DEF AbortRestore, Return, Goto, Reading, Marked, Coherent, OverrideFresh, DropPending, TypeOK, Steps, store, caches
    <2>7. EntryFresh'
        BY <1>18 DEF AbortRestore, Return, Goto, Reading, Marked, Coherent, EntryFresh, EpochPending, DropPending, TypeOK, Steps, store, caches
    <2> QED
        BY <2>1, <2>2, <2>3, <2>4, <2>5, <2>6, <2>7 DEF Coherent
<1>19. ASSUME NEW t \in Tasks, NEW s \in Sources, NEW r \in Overrides, SetOverride(t, s, r) PROVE Coherent'
    <2>1. Unopened'
        BY <1>19 DEF SetOverride, Goto, Coherent, Unopened, Unread, TypeOK, Steps, store, caches
    <2>2. SlotFresh'
        BY <1>19 DEF SetOverride, Goto, Coherent, SlotFresh, SlotPending, TypeOK, Steps, store, caches
    <2>3. ReadFresh'
        BY <1>19 DEF SetOverride, Goto, Coherent, ReadFresh, SlotPending, TypeOK, Steps, store, caches
    <2>4. TagsBehind'
        BY <1>19 DEF SetOverride, Goto, Coherent, TagsBehind, TypeOK, Steps, store, caches
    <2>5. LoadFresh'
        BY <1>19 DEF SetOverride, Goto, Coherent, LoadFresh, EpochPending, TypeOK, Steps, store, caches
    <2>6. OverrideFresh'
        BY <1>19 DEF SetOverride, Goto, Coherent, OverrideFresh, DropPending, TypeOK, Steps, store, caches
    <2>7. EntryFresh'
        BY <1>19 DEF SetOverride, Goto, Coherent, EntryFresh, EpochPending, DropPending, TypeOK, Steps, store, caches
    <2> QED
        BY <2>1, <2>2, <2>3, <2>4, <2>5, <2>6, <2>7 DEF Coherent
<1>20. ASSUME NEW t \in Tasks, DropEntry(t) PROVE Coherent'
    <2>1. Unopened'
        BY <1>20 DEF DropEntry, Return, Goto, Coherent, Unopened, Unread, TypeOK, Steps, store, caches
    <2>2. SlotFresh'
        BY <1>20 DEF DropEntry, Return, Goto, Coherent, SlotFresh, SlotPending, TypeOK, Steps, store, caches
    <2>3. ReadFresh'
        <3>1. SlotPending => SlotPending'
            BY <1>20 DEF DropEntry, Return, Goto, SlotPending, TypeOK
        <3>2. ASSUME NEW u \in Tasks, step'[u] = "read"
              PROVE  /\ step[u] = "read" /\ got'[u] = got[u]
                     /\ suspect[u] => suspect'[u]
            BY <1>20, <3>2 DEF DropEntry, Return, Goto, TypeOK
        <3>3. rows' = rows
            BY <1>20 DEF DropEntry, Return, Goto, store
        <3> QED
            BY <3>1, <3>2, <3>3 DEF Coherent, ReadFresh
    <2>4. TagsBehind'
        BY <1>20 DEF DropEntry, Return, Goto, Coherent, TagsBehind, TypeOK, Steps, store, caches
    <2>5. LoadFresh'
        BY <1>20 DEF DropEntry, Return, Goto, Coherent, LoadFresh, EpochPending, TypeOK, Steps, store, caches
    <2>6. OverrideFresh'
        BY <1>20 DEF DropEntry, Return, Goto, Coherent, OverrideFresh, DropPending, TypeOK, Steps, store, caches
    <2>7. EntryFresh'
        BY <1>20 DEF DropEntry, Return, Goto, Coherent, EntryFresh, EpochPending, DropPending, TypeOK, Steps, store, caches
    <2> QED
        BY <2>1, <2>2, <2>3, <2>4, <2>5, <2>6, <2>7 DEF Coherent
<1>21. CASE Restart
    BY <1>21 DEF Restart, Coherent, Unopened, SlotFresh, ReadFresh, TagsBehind, LoadFresh, OverrideFresh, EntryFresh
<1>22. CASE UNCHANGED vars
    BY <1>22 DEF vars, Coherent, Unopened, SlotFresh, ReadFresh, TagsBehind, LoadFresh,
       OverrideFresh, EntryFresh, SlotPending, EpochPending, DropPending
<1> QED
    BY <1>1, <1>2, <1>3, <1>4, <1>5, <1>6, <1>7, <1>8, <1>9, <1>10, <1>11, <1>12, <1>13, <1>14, <1>15, <1>16, <1>17, <1>18, <1>19, <1>20, <1>21, <1>22 DEF Next

(* It holds at boot. *)
LEMMA CoherentInit == Init => Coherent
    BY DEF Init, Coherent, Unopened, SlotFresh, ReadFresh, TagsBehind, LoadFresh,
       OverrideFresh, EntryFresh

(* It is an invariant, together with the types. *)
LEMMA AlwaysCoherent == Spec => [](TypeOK /\ Coherent)
    BY CoherentInit, CoherentStep, ProtectionTypeCorrect, PTL DEF Spec

(* Whatever the interleaving of any number of calls, and whichever restores *)
(* give up on their audit row: the snapshot of the defaults is what is      *)
(* stored unless its loader was overtaken or a restore gave up, or a change *)
(* has not cleared it yet (SnapshotCache, load_global_protection).          *)
THEOREM SlotSound == Spec => []SlotStaleOnlyIfSuspect
<1>1. Coherent => SlotStaleOnlyIfSuspect
    BY DEF Coherent, SlotFresh, SlotStaleOnlyIfSuspect
<1> QED
    BY <1>1, AlwaysCoherent, PTL

(* The same for the answers of the sources: capturing the epoch before the  *)
(* load, and bumping it after the slot is cleared, leave no other stale     *)
(* answer (source_protection::get, invalidate_protection_defaults).         *)
THEOREM EntriesSound == Spec => []EntryStaleOnlyIfSuspect
<1>1. Coherent => EntryStaleOnlyIfSuspect
    <2> SUFFICES ASSUME Coherent, NEW s \in Sources,
                        entry[s] # None, entry[s].tag = epoch,
                        ~entry[s].suspect, ~EpochPending, ~DropPending(s)
                 PROVE  Effective(entry[s].snap, entry[s].row) = Effective(rows, over[s])
        BY DEF EntryStaleOnlyIfSuspect
    <2>1. entry[s].snap = rows /\ entry[s].row = over[s]
        BY DEF Coherent, EntryFresh
    <2> QED
        BY <2>1
<1> QED
    BY <1>1, AlwaysCoherent, PTL

-----------------------------------------------------------------------------
(* One caller, whose audit rows are written. *)
OneCaller == AuditFails = FALSE /\ \A t, u \in Tasks : t = u

(* Nothing is ever marked. *)
Unmarked ==
    /\ slot # None => ~slot.suspect
    /\ \A s \in Sources : entry[s] # None => ~entry[s].suspect
    /\ \A t \in Tasks : ~suspect[t]

(* No step of the one caller marks anything. *)
LEMMA UnmarkedStep ==
    ASSUME OneCaller PROVE TypeOK /\ Unmarked /\ [Next]_vars => Unmarked'
<1> SUFFICES ASSUME TypeOK, Unmarked, [Next]_vars PROVE Unmarked'
    OBVIOUS
<1>1. ASSUME NEW t \in Tasks,
             \/ \E s \in Sources \cup {None} : Get(t, s)
             \/ LoadMiss(t) \/ (\E k \in Keys : ReadDefault(t, k))
             \/ AnswerFromEntry(t) \/ ReadOverride(t)
             \/ \E k \in Keys, v \in Values : Update(t, k, v)
             \/ WriteDefault(t) \/ BumpEpoch(t)
             \/ Restore(t) \/ (\E k \in Keys : ReadPrior(t, k))
             \/ NothingToRestore(t) \/ CommitRestore(t) \/ AuditRestore(t)
             \/ \E s \in Sources, r \in Overrides : SetOverride(t, s, r)
      PROVE Unmarked'
    <2>1. /\ UNCHANGED <<slot, entry>>
          /\ suspect' = suspect \/ suspect' = [suspect EXCEPT ![t] = FALSE]
        BY <1>1 DEF Get, LoadMiss, ReadDefault, AnswerFromEntry, ReadOverride, Update,
           WriteDefault, BumpEpoch, Restore, ReadPrior, NothingToRestore, CommitRestore,
           AuditRestore, SetOverride, caches
    <2> QED
        BY <2>1 DEF Unmarked, TypeOK
<1>2. ASSUME NEW t \in Tasks, LoadHit(t) PROVE Unmarked'
    <2>1. /\ UNCHANGED <<slot, entry>>
          /\ \/ suspect' = [suspect EXCEPT ![t] = FALSE]
             \/ suspect' = [suspect EXCEPT ![t] = slot.suspect]
        BY <1>2 DEF LoadHit, Loaded, caches
    <2>2. ~slot.suspect
        BY <1>2 DEF LoadHit, Unmarked
    <2> QED
        BY <2>1, <2>2 DEF Unmarked, TypeOK
<1>3. ASSUME NEW t \in Tasks, StoreDefaults(t) PROVE Unmarked'
    <2>1. /\ entry' = entry
          /\ slot' = [snap |-> got[t], suspect |-> suspect[t]]
          /\ \/ suspect' = [suspect EXCEPT ![t] = FALSE]
             \/ suspect' = [suspect EXCEPT ![t] = suspect[t]]
        BY <1>3 DEF StoreDefaults, Loaded
    <2> QED
        BY <2>1 DEF Unmarked, TypeOK
<1>4. ASSUME NEW t \in Tasks, InsertEntry(t) PROVE Unmarked'
    <2>1. /\ slot' = slot
          /\ suspect' = [suspect EXCEPT ![t] = FALSE]
          /\ src[t] \in Sources
          /\ entry' = [entry EXCEPT ![src[t]] =
                 [tag |-> tag[t], snap |-> got[t], row |-> row[t], suspect |-> suspect[t]]]
        BY <1>4 DEF InsertEntry, TypeOK
    <2>2. ~entry'[src[t]].suspect
        BY <2>1 DEF TypeOK, Unmarked
    <2>3. \A s \in Sources : s # src[t] => entry'[s] = entry[s]
        BY <2>1 DEF TypeOK
    <2> QED
        BY <2>1, <2>2, <2>3 DEF Unmarked, TypeOK
<1>5. ASSUME NEW t \in Tasks, ClearSlot(t) PROVE Unmarked'
    <2>1. \A u \in Tasks : ~Reading(u)
        BY <1>5 DEF OneCaller, ClearSlot, Reading
    <2> QED
        BY <1>5, <2>1 DEF ClearSlot, Unmarked
<1>6. ASSUME NEW t \in Tasks, AbortRestore(t) PROVE Unmarked'
    BY <1>6 DEF AbortRestore, OneCaller
<1>7. ASSUME NEW t \in Tasks, DropEntry(t) PROVE Unmarked'
    <2>1. \A u \in Tasks : step[u] # "insert"
        BY <1>7 DEF OneCaller, DropEntry
    <2>2. slot' = slot /\ src[t] \in Sources /\ entry' = [entry EXCEPT ![src[t]] = None]
        BY <1>7 DEF DropEntry, TypeOK
    <2>3. suspect' = [u \in Tasks |-> suspect[u] \/ (step[u] = "insert" /\ src[u] = src[t])]
        BY <1>7 DEF DropEntry
    <2> QED
        BY <2>1, <2>2, <2>3 DEF Unmarked, TypeOK
<1>8. CASE Restart
    BY <1>8 DEF Restart, Unmarked
<1>9. CASE UNCHANGED vars
    BY <1>9 DEF vars, Unmarked
<1> QED
    BY <1>1, <1>2, <1>3, <1>4, <1>5, <1>6, <1>7, <1>8, <1>9 DEF Next

(* The slot and the answers are then what the tables say.                   *)
LEMMA OneCallerCoherent ==
    ASSUME OneCaller PROVE Spec => [](SlotFollowsRows /\ EntriesFollowTables)
<1>1. Init => Unmarked
    BY DEF Init, Unmarked
<1>2. Spec => []Unmarked
    BY <1>1, UnmarkedStep, ProtectionTypeCorrect, PTL DEF Spec
<1>3. Coherent /\ Unmarked /\ SlotStaleOnlyIfSuspect /\ EntryStaleOnlyIfSuspect
          => SlotFollowsRows /\ EntriesFollowTables
    <2> SUFFICES ASSUME Coherent, Unmarked,
                        SlotStaleOnlyIfSuspect, EntryStaleOnlyIfSuspect
                 PROVE  SlotFollowsRows /\ EntriesFollowTables
        OBVIOUS
    <2>1. SlotFollowsRows
        BY DEF Unmarked, SlotStaleOnlyIfSuspect, SlotFollowsRows
    <2>2. EntriesFollowTables
        BY DEF Unmarked, EntryStaleOnlyIfSuspect, EntriesFollowTables
    <2> QED
        BY <2>1, <2>2
<1> QED
    BY <1>2, <1>3, AlwaysCoherent, SlotSound, EntriesSound, PTL

(* For one caller whose audit rows are written, the contract of the cache   *)
(* holds as it is written down: once every invalidation is done, the slot   *)
(* is what is stored (invalidate_protection_defaults).                      *)
THEOREM OneCallerSlot == ASSUME OneCaller PROVE Spec => []SlotFollowsRows
    BY OneCallerCoherent, PTL

(* And so is every answer that carries the current epoch                    *)
(* (source_protection::get).                                                *)
THEOREM OneCallerEntries == ASSUME OneCaller PROVE Spec => []EntriesFollowTables
    BY OneCallerCoherent, PTL
=============================================================================
