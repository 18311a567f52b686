------------------------- MODULE CommandLedgerProofs -------------------------
(***************************************************************************)
(* Theorems of CommandLedger, for any number of commands, tasks and worker *)
(* ids, any lease time and any number of ticks.                            *)
(***************************************************************************)
EXTENDS CommandLedger, SequenceTheorems, TLAPS

-----------------------------------------------------------------------------
(* Type correctness.  That a caller is told a result, and never NULL, is   *)
(* known only from the audit row: TypeOK is inductive with EffectsOnce.    *)

\* A lease that is granted or renewed now is well typed.
LEMMA ExpiryType ==
  ASSUME TypeOK
  PROVE  now + TTL \in Nat
  BY LedgerAssumption DEF TypeOK

\* A first claim keeps the tables well typed ...
LEMMA ClaimNewType ==
  ASSUME TypeOK, NEW t \in Tasks, NEW c \in Commands, NEW i \in Identities,
         ClaimNew(t, c, i)
  PROVE  TypeOK'
<1> DEFINE row == [state |-> "executing", identity |-> i, version |-> 1, gen |-> 1,
                   owner |-> IdOf[t], expires |-> now + TTL, result |-> None]
           l == [cmd |-> c, owner |-> IdOf[t], gen |-> 1, version |-> 1,
                 expires |-> now + TTL]
<1>1. now + TTL \in Nat /\ IdOf[t] \in WorkerIds
  BY ExpiryType, LedgerAssumption
<1>2. row \in Row /\ l \in Lease
  BY <1>1 DEF Row, Lease, States
<1>3. rows' = [rows EXCEPT ![c] = row] /\ lease' = [lease EXCEPT ![t] = l]
  BY DEF ClaimNew
<1>4. changes' \in [Commands -> Nat]
  BY DEF ClaimNew, TypeOK
<1> HIDE DEF row, l
<1> QED
  BY <1>2, <1>3, <1>4 DEF ClaimNew, TypeOK

\* ... so does a take-over ...
LEMMA ClaimExpiredType ==
  ASSUME TypeOK, NEW t \in Tasks, NEW c \in Commands, NEW i \in Identities,
         ClaimExpired(t, c, i)
  PROVE  TypeOK'
<1> DEFINE row == [rows[c] EXCEPT !.version = rows[c].version + 1,
                                  !.gen = rows[c].gen + 1,
                                  !.owner = IdOf[t], !.expires = now + TTL]
           l == [cmd |-> c, owner |-> IdOf[t], gen |-> rows[c].gen + 1,
                 version |-> rows[c].version + 1, expires |-> now + TTL]
<1>1. now + TTL \in Nat /\ IdOf[t] \in WorkerIds
  BY ExpiryType, LedgerAssumption
<1>2. rows[c].version + 1 \in Nat /\ rows[c].gen + 1 \in Nat
  BY DEF TypeOK, Row
<1>3. row \in Row /\ l \in Lease
  BY <1>1, <1>2 DEF TypeOK, Row, Lease
<1>4. rows' = [rows EXCEPT ![c] = row] /\ lease' = [lease EXCEPT ![t] = l]
  BY DEF ClaimExpired, TypeOK, Row
<1> HIDE DEF row, l
<1>5. rows' \in [Commands -> Row] /\ lease' \in [Tasks -> Lease \cup {None}]
  BY <1>3, <1>4 DEF TypeOK
<1> QED
  BY <1>5 DEF ClaimExpired, TypeOK

\* ... and a heartbeat.
LEMMA HeartbeatType ==
  ASSUME TypeOK, NEW t \in Tasks, Heartbeat(t)
  PROVE  TypeOK'
<1>1. lease[t] \in Lease
  BY DEF Heartbeat, TypeOK
<1> DEFINE c == lease[t].cmd
           row == [rows[c] EXCEPT !.version = rows[c].version + 1, !.expires = now + TTL]
           l == [lease[t] EXCEPT !.version = lease[t].version + 1, !.expires = now + TTL]
<1>2. c \in Commands
  BY <1>1 DEF Lease
<1>3. rows' = [rows EXCEPT ![c] = row] /\ lease' = [lease EXCEPT ![t] = l]
  BY <1>1, <1>2 DEF Heartbeat, TypeOK, Row, Lease
<1>4. rows[c] \in Row
  BY <1>2 DEF TypeOK
<1> HIDE DEF c
<1>5. rows[c].version + 1 \in Nat /\ lease[t].version + 1 \in Nat
  BY <1>1, <1>4 DEF Row, Lease
<1>6. row \in Row
  BY <1>4, <1>5, ExpiryType DEF Row
<1>7. l \in Lease
  BY <1>1, <1>5, ExpiryType DEF Lease
<1> HIDE DEF row, l
<1>8. rows' \in [Commands -> Row] /\ lease' \in [Tasks -> Lease \cup {None}]
  BY <1>3, <1>6, <1>7 DEF TypeOK
<1> QED
  BY <1>8 DEF Heartbeat, TypeOK

\* A finish, with the result, its audit row and its events ...
LEMMA FinishType ==
  ASSUME TypeOK, NEW t \in Tasks, NEW r \in Results, NEW n \in 0 .. MaxEvents,
         Finish(t, r, n)
  PROVE  TypeOK'
<1>1. lease[t] \in Lease
  BY DEF Finish, TypeOK
<1> DEFINE c == lease[t].cmd
           row == [rows[c] EXCEPT !.state = "terminal", !.version = rows[c].version + 1,
                                  !.owner = None, !.expires = 0, !.result = r]
           new == [k \in 1 .. n |-> [published |-> FALSE, attempts |-> 0]]
<1>2. c \in Commands /\ lease[t].gen \in Nat
  BY <1>1 DEF Lease
<1>3. rows[c] \in Row /\ rows[c].version + 1 \in Nat
  BY <1>2 DEF TypeOK, Row
<1>4. row \in Row
  <2> HIDE DEF c
  <2> QED
    BY <1>3 DEF Row, States
<1>5. rows' = [rows EXCEPT ![c] = row]
  BY <1>2 DEF Finish, TypeOK, Row
<1>6. audit' \in [Commands -> Seq(Results)]
  <2>1. Append(audit[c], r) \in Seq(Results)
    BY <1>2, AppendProperties DEF TypeOK
  <2> QED
    BY <2>1 DEF Finish, TypeOK
<1>7. new \in Seq(Event)
  BY LedgerAssumption DEF Event
<1>8. outbox' = [outbox EXCEPT ![c] = new]
  BY DEF Finish
<1>9. changes' \in [Commands -> Nat] /\ told' \in [Commands -> SUBSET Results]
  BY <1>2 DEF Finish, TypeOK
<1>10. wonBy' \in [Commands -> Nat]
  BY <1>2 DEF Finish, TypeOK
<1> HIDE DEF row, new
<1>11. rows' \in [Commands -> Row] /\ outbox' \in [Commands -> Seq(Event)]
  BY <1>4, <1>5, <1>7, <1>8 DEF TypeOK
<1> QED
  BY <1>6, <1>9, <1>10, <1>11 DEF Finish, TypeOK

\* ... and the marks on the outbox keep the tables well typed.
LEMMA MarkType ==
  ASSUME TypeOK, NEW c \in Commands, NEW k \in 1 .. MaxEvents,
         MarkPublished(c, k) \/ MarkDeliveryFailure(c, k)
  PROVE  TypeOK'
<1> DEFINE s == outbox[c]
           published == [s[k] EXCEPT !.published = TRUE, !.attempts = s[k].attempts + 1]
           failed == [s[k] EXCEPT !.attempts = s[k].attempts + 1]
<1>1. s \in Seq(Event) /\ k \in 1 .. Len(s) /\ k \in DOMAIN s
  BY DEF MarkPublished, MarkDeliveryFailure, TypeOK
<1>2. s[k] \in Event
  BY <1>1
<1>3. s[k].attempts + 1 \in Nat
  BY <1>2 DEF Event
<1>4. published \in Event /\ failed \in Event
  BY <1>2, <1>3 DEF Event
<1>5. \/ outbox' = [outbox EXCEPT ![c] = [s EXCEPT ![k] = published]]
      \/ outbox' = [outbox EXCEPT ![c] = [s EXCEPT ![k] = failed]]
  BY <1>1, <1>2 DEF MarkPublished, MarkDeliveryFailure, TypeOK, Event
<1> HIDE DEF s, published, failed
<1>6. /\ [s EXCEPT ![k] = published] \in Seq(Event)
      /\ [s EXCEPT ![k] = failed] \in Seq(Event)
  BY <1>1, <1>4, ExceptSeq
<1>7. outbox' \in [Commands -> Seq(Event)]
  BY <1>5, <1>6 DEF TypeOK
<1> QED
  BY <1>7 DEF MarkPublished, MarkDeliveryFailure, TypeOK

\* A result that a caller is told is one of the results, because the audit row
\* that goes with it is typed.
LEMMA ResultType ==
  ASSUME TypeOK, EffectsOnce, NEW c \in Commands, rows[c].state = "terminal"
  PROVE  rows[c].result \in Results
<1>1. audit[c] \in Seq(Results) /\ audit[c] = <<rows[c].result>>
  BY DEF TypeOK, EffectsOnce
<1>2. Len(audit[c]) = 1 /\ audit[c][1] = rows[c].result
  BY <1>1
<1> QED
  BY <1>1, <1>2, ElementOfSeq

\* Every step keeps the tables well typed.
LEMMA TypeStep ==
  ASSUME TypeOK, EffectsOnce, [Next]_ledgerVars
  PROVE  TypeOK'
<1>1. CASE Tick
  <2>1. now' \in Nat /\ setBacks' \in Nat
    BY <1>1 DEF Tick, TypeOK
  <2> QED
    BY <1>1, <2>1 DEF Tick, TypeOK
<1>2. ASSUME NEW t \in Tasks, NEW c \in Commands, NEW i \in Identities,
             ClaimReplayed(t, c, i)
      PROVE  TypeOK'
  <2>1. told' \in [Commands -> SUBSET Results]
    BY <1>2, ResultType DEF ClaimReplayed, TypeOK
  <2> QED
    BY <1>2, <2>1 DEF ClaimReplayed, TypeOK
<1>3. ASSUME NEW t \in Tasks, FinishAgain(t)
      PROVE  TypeOK'
  <2>1. lease[t].cmd \in Commands
    BY <1>3 DEF FinishAgain, TypeOK, Lease
  <2>2. told' \in [Commands -> SUBSET Results]
    BY <1>3, <2>1, ResultType DEF FinishAgain, TypeOK
  <2> QED
    BY <1>3, <2>2 DEF FinishAgain, TypeOK
<1>4. ASSUME NEW t \in Tasks, Crash(t)
      PROVE  TypeOK'
  BY <1>4 DEF Crash, TypeOK
<1>5. CASE UNCHANGED ledgerVars
  BY <1>5 DEF ledgerVars, TypeOK
<1> QED
  BY <1>1, <1>2, <1>3, <1>4, <1>5, ClaimNewType, ClaimExpiredType, HeartbeatType,
     FinishType, MarkType DEF Next

-----------------------------------------------------------------------------
(* One result, with its audit row and its change entry.                    *)

\* A step on a command's row leaves audit, changes and events in agreement
\* with it: finish writes all of them, and nothing else writes any.
LEMMA EffectsStep ==
  ASSUME TypeOK, EffectsOnce, [Next]_ledgerVars
  PROVE  EffectsOnce'
<1>1. ASSUME NEW t \in Tasks, NEW c \in Commands, NEW i \in Identities, ClaimNew(t, c, i)
      PROVE  EffectsOnce'
  <2>1. rows'[c].state = "executing" /\ changes'[c] = 1
    <3>1. rows'[c].state = "executing"
      BY <1>1 DEF ClaimNew, TypeOK
    <3>2. changes[c] = 0
      BY <1>1 DEF ClaimNew, EffectsOnce
    <3>3. changes'[c] = changes[c] + 1
      BY <1>1 DEF ClaimNew, TypeOK
    <3> QED
      BY <3>1, <3>2, <3>3
  <2>2. audit[c] = <<>> /\ outbox[c] = <<>>
    BY <1>1 DEF ClaimNew, EffectsOnce
  <2>3. \A d \in Commands \ {c} : rows'[d] = rows[d] /\ changes'[d] = changes[d]
    BY <1>1 DEF ClaimNew, TypeOK
  <2> QED
    BY <1>1, <2>1, <2>2, <2>3 DEF ClaimNew, EffectsOnce
<1>2. ASSUME NEW t \in Tasks, NEW c \in Commands, NEW i \in Identities, ClaimExpired(t, c, i)
      PROVE  EffectsOnce'
  <2> DEFINE row == [rows[c] EXCEPT !.version = rows[c].version + 1,
                                    !.gen = rows[c].gen + 1,
                                    !.owner = IdOf[t], !.expires = now + TTL]
  <2>1. \A d \in Commands : rows'[d].state = rows[d].state /\ rows'[d].result = rows[d].result
    <3>1. rows' = [rows EXCEPT ![c] = row]
      BY <1>2 DEF ClaimExpired, TypeOK, Row
    <3>2. row.state = rows[c].state /\ row.result = rows[c].result
      BY DEF TypeOK, Row
    <3> HIDE DEF row
    <3> QED
      BY <3>1, <3>2 DEF TypeOK
  <2> QED
    BY <1>2, <2>1 DEF ClaimExpired, EffectsOnce
<1>3. ASSUME NEW t \in Tasks, Heartbeat(t)
      PROVE  EffectsOnce'
  <2> DEFINE c == lease[t].cmd
             row == [rows[c] EXCEPT !.version = rows[c].version + 1, !.expires = now + TTL]
  <2>1. \A d \in Commands : rows'[d].state = rows[d].state /\ rows'[d].result = rows[d].result
    <3>1. c \in Commands
      BY <1>3 DEF Heartbeat, TypeOK, Lease
    <3>2. rows' = [rows EXCEPT ![c] = row]
      BY <1>3, <3>1 DEF Heartbeat, TypeOK, Row
    <3>3. row.state = rows[c].state /\ row.result = rows[c].result
      BY <3>1 DEF TypeOK, Row
    <3> HIDE DEF row
    <3> QED
      BY <3>1, <3>2, <3>3 DEF TypeOK
  <2> QED
    BY <1>3, <2>1 DEF Heartbeat, EffectsOnce
<1>4. ASSUME NEW t \in Tasks, NEW r \in Results, NEW n \in 0 .. MaxEvents, Finish(t, r, n)
      PROVE  EffectsOnce'
  <2> DEFINE c == lease[t].cmd
  <2>1. c \in Commands
    BY <1>4 DEF Finish, TypeOK, Lease
  <2>2. rows[c].state = "executing" /\ audit[c] = <<>> /\ changes[c] = 1
    BY <1>4, <2>1 DEF Finish, MayFinish, EffectsOnce
  <2>3. rows'[c].state = "terminal" /\ rows'[c].result = r
    BY <1>4, <2>1 DEF Finish, TypeOK, Row
  <2>4. audit'[c] = <<r>> /\ changes'[c] = 2
    BY <1>4, <2>1, <2>2 DEF Finish, TypeOK
  <2>5. \A d \in Commands \ {c} : /\ rows'[d] = rows[d] /\ changes'[d] = changes[d]
                                  /\ audit'[d] = audit[d] /\ outbox'[d] = outbox[d]
    BY <1>4, <2>1 DEF Finish, TypeOK
  <2> QED
    BY <2>3, <2>4, <2>5 DEF EffectsOnce
<1>5. ASSUME NEW c \in Commands, NEW k \in 1 .. MaxEvents,
             MarkPublished(c, k) \/ MarkDeliveryFailure(c, k)
      PROVE  EffectsOnce'
  <2>1. outbox[c] # <<>>
    BY <1>5 DEF MarkPublished, MarkDeliveryFailure, TypeOK
  <2>2. \A d \in Commands \ {c} : outbox'[d] = outbox[d]
    BY <1>5 DEF MarkPublished, MarkDeliveryFailure, TypeOK
  <2> QED
    BY <1>5, <2>1, <2>2 DEF MarkPublished, MarkDeliveryFailure, EffectsOnce
<1>6. CASE \/ Tick
           \/ UNCHANGED ledgerVars
           \/ \E t \in Tasks : \/ FinishAgain(t)
                               \/ Crash(t)
                               \/ \E c \in Commands, i \in Identities : ClaimReplayed(t, c, i)
  BY <1>6 DEF Tick, ledgerVars, FinishAgain, Crash, ClaimReplayed, EffectsOnce
<1> QED
  BY <1>1, <1>2, <1>3, <1>4, <1>5, <1>6 DEF Next

\* The empty ledger is well typed and has no effects.
LEMMA LedgerStarts ==
  ASSUME Init
  PROVE  TypeOK /\ EffectsOnce
<1>1. NoRow \in Row
  BY DEF NoRow, Row, States
<1>2. \A c \in Commands : rows[c].state = "absent"
  BY DEF Init, NoRow
<1>3. TypeOK
  BY <1>1, EmptySeq DEF Init, TypeOK
<1> QED
  BY <1>2, <1>3 DEF Init, EffectsOnce

\* The tables and the leases stay well typed.
THEOREM LedgerTypeCorrect == Spec => []TypeOK
<1>1. TypeOK /\ EffectsOnce /\ [Next]_ledgerVars => (TypeOK /\ EffectsOnce)'
  BY TypeStep, EffectsStep
<1> QED
  BY <1>1, LedgerStarts, PTL DEF Spec

\* A command's result, audit row, change entry and events are written together
\* and once, however many workers claim, take over, crash or finish late.
THEOREM OneTransactionOnce == Spec => []EffectsOnce
<1>1. TypeOK /\ EffectsOnce /\ [Next]_ledgerVars => (TypeOK /\ EffectsOnce)'
  BY TypeStep, EffectsStep
<1> QED
  BY <1>1, LedgerStarts, PTL DEF Spec

-----------------------------------------------------------------------------
(* Leases.  What a task holds is of the row's generation, and then no other *)
(* task holds that generation, or it is older, and then it has run out.     *)

\* What a lease in memory says of the row it was granted on.
HeldOnRow ==
  \A t \in Tasks : lease[t] # None =>
    /\ rows[lease[t].cmd].state # "absent"
    /\ lease[t].gen <= rows[lease[t].cmd].gen
    /\ /\ lease[t].gen = rows[lease[t].cmd].gen
       /\ rows[lease[t].cmd].state = "executing"
       => lease[t].expires = rows[lease[t].cmd].expires
    /\ /\ lease[t].gen < rows[lease[t].cmd].gen
       /\ setBacks = 0
       => lease[t].expires <= now

Fenced == OneHolder /\ HeldOnRow /\ LastClaimWins

\* The first claim of a command grants the only lease on it.
LEMMA ClaimNewFenced ==
  ASSUME TypeOK, Fenced, NEW t \in Tasks, NEW c \in Commands, NEW i \in Identities,
         ClaimNew(t, c, i)
  PROVE  Fenced'
<1>1. /\ rows'[c].state = "executing" /\ rows'[c].gen = 1
      /\ rows'[c].expires = now + TTL
      /\ \A d \in Commands \ {c} : rows'[d] = rows[d]
  BY DEF ClaimNew, TypeOK
<1>2. /\ lease'[t].cmd = c /\ lease'[t].gen = 1 /\ lease'[t].expires = now + TTL
      /\ \A s \in Tasks \ {t} : lease'[s] = lease[s]
  BY DEF ClaimNew, TypeOK
<1>3. \A s \in Tasks : lease[s] # None => lease[s].cmd # c /\ lease[s].cmd \in Commands
  BY DEF ClaimNew, Fenced, HeldOnRow, TypeOK, Lease
<1>4. OneHolder'
  BY <1>2, <1>3 DEF Fenced, OneHolder
<1>5. HeldOnRow'
  BY <1>1, <1>2, <1>3 DEF Fenced, HeldOnRow, ClaimNew
<1>6. LastClaimWins'
  BY <1>1 DEF Fenced, LastClaimWins, ClaimNew
<1> QED
  BY <1>4, <1>5, <1>6 DEF Fenced

\* A take-over grants a newer generation, and only when the row's lease, and
\* with it the lease the last owner still holds, has run out.
LEMMA ClaimExpiredFenced ==
  ASSUME TypeOK, Fenced, NEW t \in Tasks, NEW c \in Commands, NEW i \in Identities,
         ClaimExpired(t, c, i)
  PROVE  Fenced'
<1> DEFINE row == [rows[c] EXCEPT !.version = rows[c].version + 1,
                                  !.gen = rows[c].gen + 1,
                                  !.owner = IdOf[t], !.expires = now + TTL]
<1>1. /\ rows[c].state = "executing" /\ rows[c].gen \in Nat
      /\ rows[c].expires \in Nat /\ rows[c].expires <= now /\ now \in Nat
  BY DEF ClaimExpired, Reclaimable, LeaseIsActive, TypeOK, Row
<1>2. /\ rows'[c].state = "executing" /\ rows'[c].gen = rows[c].gen + 1
      /\ rows'[c].expires = now + TTL
      /\ \A d \in Commands \ {c} : rows'[d] = rows[d]
  <2>1. rows' = [rows EXCEPT ![c] = row]
    BY DEF ClaimExpired, TypeOK, Row
  <2>2. row.state = rows[c].state /\ row.gen = rows[c].gen + 1 /\ row.expires = now + TTL
    BY DEF TypeOK, Row
  <2> HIDE DEF row
  <2> QED
    BY <1>1, <2>1, <2>2 DEF TypeOK
<1>3. /\ lease'[t].cmd = c /\ lease'[t].gen = rows[c].gen + 1
      /\ lease'[t].expires = now + TTL
      /\ \A s \in Tasks \ {t} : lease'[s] = lease[s]
  BY DEF ClaimExpired, TypeOK
<1>4. \A s \in Tasks : lease[s] # None => /\ lease[s].cmd \in Commands
                                         /\ lease[s].gen \in Nat
                                         /\ lease[s].expires \in Nat
  BY DEF TypeOK, Lease
<1>5. \A s \in Tasks : lease[s] # None /\ lease[s].cmd = c => lease[s].gen <= rows[c].gen
  BY DEF Fenced, HeldOnRow
<1>6. OneHolder'
  BY <1>1, <1>3, <1>4, <1>5 DEF Fenced, OneHolder
<1>7. UNCHANGED <<now, setBacks, wonBy>>
  BY DEF ClaimExpired
<1>8. HeldOnRow'
  <2> SUFFICES ASSUME NEW s \in Tasks, lease'[s] # None
               PROVE  /\ rows'[lease'[s].cmd].state # "absent"
                      /\ lease'[s].gen <= rows'[lease'[s].cmd].gen
                      /\ /\ lease'[s].gen = rows'[lease'[s].cmd].gen
                         /\ rows'[lease'[s].cmd].state = "executing"
                         => lease'[s].expires = rows'[lease'[s].cmd].expires
                      /\ /\ lease'[s].gen < rows'[lease'[s].cmd].gen
                         /\ setBacks' = 0
                         => lease'[s].expires <= now'
    BY DEF HeldOnRow
  <2>1. CASE s = t
    BY <1>1, <1>2, <1>3, <2>1
  <2>2. CASE s # t /\ lease[s].cmd # c
    BY <1>2, <1>3, <1>4, <1>7, <2>2 DEF Fenced, HeldOnRow
  <2>3. CASE s # t /\ lease[s].cmd = c
    <3>1. lease'[s] = lease[s] /\ lease[s].gen <= rows[c].gen /\ lease[s].gen \in Nat
      BY <1>3, <1>4, <1>5, <2>3
    <3>2. setBacks = 0 => lease[s].expires <= now
      <4>1. CASE lease[s].gen = rows[c].gen
        BY <1>1, <2>3, <3>1, <4>1 DEF Fenced, HeldOnRow
      <4>2. CASE lease[s].gen < rows[c].gen
        BY <2>3, <3>1, <4>2 DEF Fenced, HeldOnRow
      <4> QED
        BY <1>1, <3>1, <4>1, <4>2
    <3> QED
      BY <1>1, <1>2, <1>7, <2>3, <3>1, <3>2
  <2> QED
    BY <2>1, <2>2, <2>3
<1>9. LastClaimWins'
  BY <1>2, <1>7 DEF Fenced, LastClaimWins
<1> QED
  BY <1>6, <1>8, <1>9 DEF Fenced

\* A heartbeat moves the expiry of the row and of the one lease on its
\* generation together.
LEMMA HeartbeatFenced ==
  ASSUME TypeOK, Fenced, NEW t \in Tasks, Heartbeat(t)
  PROVE  Fenced'
<1> DEFINE c == lease[t].cmd
           row == [rows[c] EXCEPT !.version = rows[c].version + 1, !.expires = now + TTL]
           l == [lease[t] EXCEPT !.version = lease[t].version + 1, !.expires = now + TTL]
<1>1. lease[t] \in Lease /\ lease[t] # None /\ c \in Commands
  BY DEF Heartbeat, TypeOK, Lease
<1>2. rows[c].state = "executing" /\ rows[c].gen = lease[t].gen /\ rows[c].gen \in Nat
  BY <1>1 DEF Heartbeat, TypeOK, Row
<1>3. /\ rows'[c].state = "executing" /\ rows'[c].gen = rows[c].gen
      /\ rows'[c].expires = now + TTL
      /\ \A d \in Commands \ {c} : rows'[d] = rows[d]
  <2>1. rows' = [rows EXCEPT ![c] = row]
    BY <1>1 DEF Heartbeat, TypeOK, Row
  <2>2. row.state = rows[c].state /\ row.gen = rows[c].gen /\ row.expires = now + TTL
    BY <1>1 DEF TypeOK, Row
  <2> HIDE DEF row
  <2> QED
    BY <1>1, <1>2, <2>1, <2>2 DEF TypeOK
<1>4. /\ lease'[t].cmd = c /\ lease'[t].gen = lease[t].gen
      /\ lease'[t].expires = now + TTL
      /\ \A s \in Tasks \ {t} : lease'[s] = lease[s]
  <2>1. lease' = [lease EXCEPT ![t] = l]
    BY <1>1 DEF Heartbeat, TypeOK, Lease
  <2>2. l.cmd = c /\ l.gen = lease[t].gen /\ l.expires = now + TTL
    BY <1>1 DEF Lease
  <2> HIDE DEF l
  <2> QED
    BY <2>1, <2>2 DEF TypeOK
<1> HIDE DEF c
<1>5. UNCHANGED <<now, setBacks, wonBy>>
  BY DEF Heartbeat
<1>6. OneHolder'
  BY <1>1, <1>4 DEF Fenced, OneHolder, c
<1>7. HeldOnRow'
  <2> SUFFICES ASSUME NEW s \in Tasks, lease'[s] # None
               PROVE  /\ rows'[lease'[s].cmd].state # "absent"
                      /\ lease'[s].gen <= rows'[lease'[s].cmd].gen
                      /\ /\ lease'[s].gen = rows'[lease'[s].cmd].gen
                         /\ rows'[lease'[s].cmd].state = "executing"
                         => lease'[s].expires = rows'[lease'[s].cmd].expires
                      /\ /\ lease'[s].gen < rows'[lease'[s].cmd].gen
                         /\ setBacks' = 0
                         => lease'[s].expires <= now'
    BY DEF HeldOnRow
  <2>1. CASE s = t
    BY <1>2, <1>3, <1>4, <2>1
  <2>2. CASE s # t /\ lease[s].cmd # c
    <3>1. lease[s].cmd \in Commands /\ lease'[s] = lease[s]
      BY <1>4, <2>2 DEF TypeOK, Lease
    <3> QED
      BY <1>3, <1>5, <2>2, <3>1 DEF Fenced, HeldOnRow
  <2>3. CASE s # t /\ lease[s].cmd = c
    <3>1. lease'[s] = lease[s] /\ lease[s].gen # rows[c].gen
      BY <1>1, <1>2, <1>4, <2>3 DEF Fenced, OneHolder, c
    <3> QED
      BY <1>3, <1>5, <2>3, <3>1 DEF Fenced, HeldOnRow
  <2> QED
    BY <2>1, <2>2, <2>3
<1>8. LastClaimWins'
  BY <1>3, <1>5 DEF Fenced, LastClaimWins
<1> QED
  BY <1>6, <1>7, <1>8 DEF Fenced

\* A finish is accepted from the row's generation only, and leaves the leases
\* as they are.
LEMMA FinishFenced ==
  ASSUME TypeOK, Fenced, NEW t \in Tasks, NEW r \in Results, NEW n \in 0 .. MaxEvents,
         Finish(t, r, n)
  PROVE  Fenced'
<1> DEFINE c == lease[t].cmd
           row == [rows[c] EXCEPT !.state = "terminal", !.version = rows[c].version + 1,
                                  !.owner = None, !.expires = 0, !.result = r]
<1>1. lease[t] \in Lease /\ c \in Commands /\ rows[c].gen = lease[t].gen
  BY DEF Finish, MayFinish, TypeOK, Lease
<1>2. /\ rows'[c].state = "terminal" /\ rows'[c].gen = rows[c].gen
      /\ \A d \in Commands \ {c} : rows'[d] = rows[d]
  <2>1. rows' = [rows EXCEPT ![c] = row]
    BY <1>1 DEF Finish, TypeOK, Row
  <2>2. row.state = "terminal" /\ row.gen = rows[c].gen
    BY <1>1 DEF TypeOK, Row
  <2> HIDE DEF row
  <2> QED
    BY <1>1, <2>1, <2>2 DEF TypeOK
<1>3. /\ wonBy'[c] = rows[c].gen
      /\ \A d \in Commands \ {c} : wonBy'[d] = wonBy[d]
  BY <1>1 DEF Finish, TypeOK
<1>4. UNCHANGED <<now, setBacks, lease>>
  BY DEF Finish
<1> HIDE DEF c
<1>5. HeldOnRow'
  <2>1. \A s \in Tasks : lease[s] # None => lease[s].cmd \in Commands
    BY DEF TypeOK, Lease
  <2> QED
    BY <1>2, <1>4, <2>1 DEF Fenced, HeldOnRow
<1>6. LastClaimWins'
  BY <1>2, <1>3 DEF Fenced, LastClaimWins
<1> QED
  BY <1>4, <1>5, <1>6 DEF Fenced, OneHolder

\* Every step keeps the fence.
LEMMA FencedStep ==
  ASSUME TypeOK, Fenced, [Next]_ledgerVars
  PROVE  Fenced'
<1>1. CASE Tick
  <2>1. now \in Nat /\ setBacks \in Nat /\ now' \in Nat
    BY <1>1 DEF Tick, TypeOK
  <2>2. setBacks' = 0 => setBacks = 0 /\ now <= now'
    BY <1>1, <2>1 DEF Tick
  <2>3. \A t \in Tasks : lease[t] # None => lease[t].expires \in Nat
    BY DEF TypeOK, Lease
  <2>4. UNCHANGED <<rows, lease, wonBy>>
    BY <1>1 DEF Tick
  <2>5. HeldOnRow'
    BY <2>1, <2>2, <2>3, <2>4 DEF Fenced, HeldOnRow
  <2> QED
    BY <2>4, <2>5 DEF Fenced, OneHolder, LastClaimWins
<1>2. ASSUME NEW t \in Tasks, Crash(t)
      PROVE  Fenced'
  <2>1. /\ lease'[t] = None
        /\ \A s \in Tasks \ {t} : lease'[s] = lease[s]
        /\ UNCHANGED <<now, setBacks, rows, wonBy>>
    BY <1>2 DEF Crash, TypeOK
  <2> QED
    BY <2>1 DEF Fenced, OneHolder, HeldOnRow, LastClaimWins
<1>3. CASE \/ UNCHANGED ledgerVars
           \/ \E t \in Tasks : \/ FinishAgain(t)
                               \/ \E c \in Commands, i \in Identities : ClaimReplayed(t, c, i)
           \/ \E c \in Commands, k \in 1 .. MaxEvents :
                MarkPublished(c, k) \/ MarkDeliveryFailure(c, k)
  <2>1. UNCHANGED <<now, setBacks, rows, lease, wonBy>>
    BY <1>3 DEF ledgerVars, FinishAgain, ClaimReplayed, MarkPublished, MarkDeliveryFailure
  <2> QED
    BY <2>1 DEF Fenced, OneHolder, HeldOnRow, LastClaimWins
<1> QED
  BY <1>1, <1>2, <1>3, ClaimNewFenced, ClaimExpiredFenced, HeartbeatFenced, FinishFenced
  DEF Next

\* The fence holds in every reachable state.
LEMMA AlwaysFenced == Spec => [](TypeOK /\ Fenced)
<1>1. Init => TypeOK /\ EffectsOnce /\ Fenced
  BY LedgerStarts DEF Init, NoRow, Fenced, OneHolder, HeldOnRow, LastClaimWins
<1>2. TypeOK /\ EffectsOnce /\ Fenced /\ [Next]_ledgerVars
        => (TypeOK /\ EffectsOnce /\ Fenced)'
  BY TypeStep, EffectsStep, FencedStep
<1> QED
  BY <1>1, <1>2, PTL DEF Spec

\* No two tasks hold the fence of one generation of a command, whatever
\* worker ids they present and however the clock moves.
THEOREM FenceHasOneHolder == Spec => []OneHolder
<1>1. Fenced => OneHolder
  BY DEF Fenced
<1> QED
  BY <1>1, AlwaysFenced, PTL

\* The result on record was computed under the last claim: a worker whose
\* lease was taken over cannot finish any more.
THEOREM LateFinishLoses == Spec => []LastClaimWins
<1>1. Fenced => LastClaimWins
  BY DEF Fenced
<1> QED
  BY <1>1, AlwaysFenced, PTL

\* While the wall clock is not set back, at most one task believes to own a
\* command, for every lease time and every length of a second: the text
\* comparison can delay a take-over but never allow one too early.
THEOREM LeasesExclude == Spec => []LeaseExcludes
<1>1. TypeOK /\ Fenced => LeaseExcludes
  <2> SUFFICES ASSUME TypeOK, Fenced, setBacks = 0,
                      NEW s \in Tasks, NEW t \in Tasks,
                      lease[s] # None, lease[t] # None, lease[s].cmd = lease[t].cmd,
                      lease[s].expires > now, lease[t].expires > now
               PROVE  s = t
    BY DEF LeaseExcludes, LeaseIsActive
  <2>1. lease[s] \in Lease /\ lease[t] \in Lease /\ now \in Nat
    BY DEF TypeOK
  <2>2. rows[lease[s].cmd].gen \in Nat
    BY <2>1 DEF TypeOK, Lease, Row
  <2>3. lease[s].gen = rows[lease[s].cmd].gen /\ lease[t].gen = rows[lease[t].cmd].gen
    BY <2>1, <2>2 DEF Fenced, HeldOnRow, Lease
  <2> QED
    BY <2>3 DEF Fenced, OneHolder
<1> QED
  BY <1>1, AlwaysFenced, PTL

-----------------------------------------------------------------------------
(* The ledger implements CommandOnce.                                       *)

\* Only a finished command has a result.
NoResultYet ==
  \A c \in Commands : rows[c].state # "terminal" => rows[c].result = None

\* The rows and audit lists as the abstract specification sees them.
Outcome == [c \in Commands |-> rows[c].result]
Audited == [c \in Commands |-> Len(audit[c])]

\* Claims, take-overs and heartbeats change no result.
LEMMA LeaseKeepsResults ==
  ASSUME TypeOK, NoResultYet, NEW t \in Tasks,
         \/ Heartbeat(t)
         \/ \E c \in Commands, i \in Identities : ClaimNew(t, c, i) \/ ClaimExpired(t, c, i)
  PROVE  /\ \A d \in Commands :
               /\ rows'[d].result = rows[d].result
               /\ rows'[d].state = "terminal" <=> rows[d].state = "terminal"
         /\ UNCHANGED <<audit, told>>
<1>1. ASSUME NEW c \in Commands, NEW i \in Identities, ClaimNew(t, c, i)
      PROVE  /\ \A d \in Commands :
                   /\ rows'[d].result = rows[d].result
                   /\ rows'[d].state = "terminal" <=> rows[d].state = "terminal"
             /\ UNCHANGED <<audit, told>>
  <2>1. rows'[c].result = None /\ rows'[c].state = "executing"
    BY <1>1 DEF ClaimNew, TypeOK
  <2>2. \A d \in Commands \ {c} : rows'[d] = rows[d]
    BY <1>1 DEF ClaimNew, TypeOK
  <2> QED
    BY <1>1, <2>1, <2>2 DEF ClaimNew, NoResultYet
<1>2. ASSUME NEW c \in Commands, NEW i \in Identities, ClaimExpired(t, c, i)
      PROVE  /\ \A d \in Commands :
                   /\ rows'[d].result = rows[d].result
                   /\ rows'[d].state = "terminal" <=> rows[d].state = "terminal"
             /\ UNCHANGED <<audit, told>>
  <2> DEFINE row == [rows[c] EXCEPT !.version = rows[c].version + 1,
                                    !.gen = rows[c].gen + 1,
                                    !.owner = IdOf[t], !.expires = now + TTL]
  <2>1. rows' = [rows EXCEPT ![c] = row]
    BY <1>2 DEF ClaimExpired, TypeOK, Row
  <2>2. row.state = rows[c].state /\ row.result = rows[c].result
    BY DEF TypeOK, Row
  <2> HIDE DEF row
  <2> QED
    BY <1>2, <2>1, <2>2 DEF ClaimExpired, TypeOK
<1>3. CASE Heartbeat(t)
  <2> DEFINE d == lease[t].cmd
             row == [rows[d] EXCEPT !.version = rows[d].version + 1, !.expires = now + TTL]
  <2>1. d \in Commands
    BY <1>3 DEF Heartbeat, TypeOK, Lease
  <2>2. rows' = [rows EXCEPT ![d] = row]
    BY <1>3, <2>1 DEF Heartbeat, TypeOK, Row
  <2>3. row.state = rows[d].state /\ row.result = rows[d].result
    BY <2>1 DEF TypeOK, Row
  <2> HIDE DEF row, d
  <2> QED
    BY <1>3, <2>1, <2>2, <2>3 DEF Heartbeat, TypeOK
<1> QED
  BY <1>1, <1>2, <1>3

\* A finish is the abstract command taking effect.
LEMMA FinishTakes ==
  ASSUME TypeOK, EffectsOnce, NoResultYet,
         NEW t \in Tasks, NEW r \in Results, NEW n \in 0 .. MaxEvents, Finish(t, r, n)
  PROVE  NoResultYet' /\ \E c \in Commands : Once!Take(c, r)
<1> DEFINE c == lease[t].cmd
           row == [rows[c] EXCEPT !.state = "terminal", !.version = rows[c].version + 1,
                                  !.owner = None, !.expires = 0, !.result = r]
<1>1. c \in Commands
  BY DEF Finish, TypeOK, Lease
<1>2. rows' = [rows EXCEPT ![c] = row]
  BY <1>1 DEF Finish, TypeOK, Row
<1>3. row.state = "terminal" /\ row.result = r
  BY <1>1 DEF TypeOK, Row
<1>4. rows[c].result = None /\ audit[c] = <<>>
  BY <1>1 DEF Finish, MayFinish, NoResultYet
<1>5. audit' = [audit EXCEPT ![c] = <<r>>]
  BY <1>4 DEF Finish
<1>6. told' = [told EXCEPT ![c] = @ \cup {r}]
  BY DEF Finish
<1> HIDE DEF c, row
<1>7. Outcome[c] = None /\ Outcome' = [Outcome EXCEPT ![c] = r]
  BY <1>1, <1>2, <1>3, <1>4 DEF Outcome, TypeOK
<1>8. Audited' = [Audited EXCEPT ![c] = @ + 1]
  <2>1. Len(audit[c]) = 0 /\ audit'[c] = <<r>> /\ \A d \in Commands \ {c} : audit'[d] = audit[d]
    BY <1>1, <1>4, <1>5 DEF TypeOK
  <2>2. Len(<<r>>) = 0 + 1
    OBVIOUS
  <2> QED
    BY <1>1, <2>1, <2>2 DEF Audited
<1>9. Once!Take(c, r)
  BY <1>6, <1>7, <1>8 DEF Once!Take, Outcome, Audited
<1> QED
  BY <1>1, <1>2, <1>3, <1>9 DEF NoResultYet, TypeOK

\* A replayed claim and a late finish tell the result on record.
LEMMA ReplayTells ==
  ASSUME TypeOK, EffectsOnce, NEW t \in Tasks,
         FinishAgain(t) \/ \E c \in Commands, i \in Identities : ClaimReplayed(t, c, i)
  PROVE  \E c \in Commands : Once!Tell(c)
<1>1. PICK c \in Commands : /\ rows[c].state = "terminal"
                            /\ told' = [told EXCEPT ![c] = @ \cup {rows[c].result}]
                            /\ UNCHANGED <<rows, audit>>
  BY DEF FinishAgain, ClaimReplayed, TypeOK, Lease
<1>2. rows[c].result # None
  BY <1>1, ResultType, LedgerAssumption
<1>3. Once!Tell(c)
  BY <1>1, <1>2 DEF Once!Tell
<1> QED
  BY <1>3

\* The ledger implements the promise: every step writes a command's one result
\* or tells it, or changes nothing a caller can see.
THEOREM ImplementsOneResult == Spec => OneResult
<1> DEFINE I == TypeOK /\ EffectsOnce /\ NoResultYet
<1>1. Init => I /\ Once!Init
  <2> SUFFICES ASSUME Init PROVE I /\ Once!Init
    OBVIOUS
  <2>1. NoResultYet /\ Outcome = [c \in Commands |-> None]
    BY DEF Init, NoRow, NoResultYet, Outcome
  <2>2. Audited = [c \in Commands |-> 0]
    BY DEF Init, Audited
  <2> QED
    BY <2>1, <2>2, LedgerStarts DEF Init, Once!Init, Outcome, Audited
<1>2. I /\ [Next]_ledgerVars => NoResultYet' /\ [Once!Next]_(Once!onceVars)
  <2> SUFFICES ASSUME TypeOK, EffectsOnce, NoResultYet, [Next]_ledgerVars
               PROVE  NoResultYet' /\ [Once!Next]_(Once!onceVars)
    OBVIOUS
  <2>1. ASSUME /\ \A d \in Commands :
                    /\ rows'[d].result = rows[d].result
                    /\ rows'[d].state = "terminal" <=> rows[d].state = "terminal"
               /\ UNCHANGED <<audit, told>>
        PROVE  NoResultYet' /\ UNCHANGED Once!onceVars
    BY <2>1 DEF NoResultYet, Once!onceVars
  <2>2. ASSUME NEW t \in Tasks, NEW c \in Commands, NEW i \in Identities,
               ClaimNew(t, c, i) \/ ClaimExpired(t, c, i)
        PROVE  NoResultYet' /\ UNCHANGED Once!onceVars
    BY <2>1, <2>2, LeaseKeepsResults
  <2>3. ASSUME NEW t \in Tasks, Heartbeat(t)
        PROVE  NoResultYet' /\ UNCHANGED Once!onceVars
    BY <2>1, <2>3, LeaseKeepsResults
  <2>4. ASSUME NEW t \in Tasks, NEW r \in Results, NEW n \in 0 .. MaxEvents, Finish(t, r, n)
        PROVE  NoResultYet' /\ Once!Next
    BY <2>4, FinishTakes DEF Once!Next
  <2>5. ASSUME NEW t \in Tasks,
               FinishAgain(t) \/ \E c \in Commands, i \in Identities : ClaimReplayed(t, c, i)
        PROVE  NoResultYet' /\ Once!Next
    <3>1. Once!Next
      BY <2>5, ReplayTells DEF Once!Next
    <3> QED
      BY <2>5, <3>1 DEF FinishAgain, ClaimReplayed, NoResultYet
  <2>6. CASE \/ Tick
             \/ UNCHANGED ledgerVars
             \/ \E t \in Tasks : Crash(t)
             \/ \E c \in Commands, k \in 1 .. MaxEvents :
                  MarkPublished(c, k) \/ MarkDeliveryFailure(c, k)
    <3>1. UNCHANGED <<rows, audit, told>>
      BY <2>6 DEF Tick, ledgerVars, Crash, MarkPublished, MarkDeliveryFailure
    <3> QED
      BY <2>1, <3>1
  <2> QED
    BY <2>2, <2>3, <2>4, <2>5, <2>6 DEF Next
<1>3. I /\ [Next]_ledgerVars => I'
  BY <1>2, TypeStep, EffectsStep
<1> QED
  BY <1>1, <1>2, <1>3, PTL DEF Spec, OneResult, Once!Spec
=============================================================================
