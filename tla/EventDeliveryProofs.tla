------------------------- MODULE EventDeliveryProofs -------------------------
(***************************************************************************)
(* Theorems of EventDelivery, for any launches, sweepers, ring, page,      *)
(* window and bounds.                                                      *)
(***************************************************************************)
EXTENDS EventDelivery, FiniteSetTheorems, SequenceTheorems, TLAPS

-----------------------------------------------------------------------------
(* Type correctness.                                                       *)

\* The subscriber's variables, field by field.
SubFields(w, n) ==
  /\ w = [at |-> w.at, mode |-> w.mode, cursor |-> w.cursor, row |-> w.row,
          page |-> w.page, full |-> w.full]
  /\ w.at \in {"recv", "query", "row", "attempt", "write", "tell"}
  /\ w.mode \in {"live", "replay"}
  /\ w.cursor \in 0 .. n /\ w.row \in 0 .. n
  /\ w.page \subseteq 1 .. n
  /\ w.full \in BOOLEAN

LEMMA SubStateFields ==
  ASSUME NEW n \in Nat, NEW w
  PROVE  w \in SubState(n) <=> SubFields(w, n)
<1>1. w \in SubState(n) => SubFields(w, n)
  BY DEF SubState, SubFields
<1>2. ASSUME SubFields(w, n) PROVE w \in SubState(n)
  <2>1. [at |-> w.at, mode |-> w.mode, cursor |-> w.cursor, row |-> w.row,
          page |-> w.page, full |-> w.full] \in SubState(n)
    BY <1>2 DEF SubState, SubFields
  <2> QED
    BY <1>2, <2>1 DEF SubFields
<1> QED
  BY <1>1, <1>2

\* The subscriber's next step after a row is well typed.
LEMMA NextRowTypes ==
  ASSUME NEW n \in Nat, NEW w \in SubState(n)
  PROVE  NextRow(w) \in SubState(n) /\ Back(w) \in SubState(n)
<1>0. SubFields(w, n) /\ 0 \in 0 .. n
  BY SubStateFields
<1>1. Back(w) \in SubState(n)
  BY <1>0 DEF Back, SubIdle, SubState, SubFields
<1>2. [w EXCEPT !.at = "row", !.row = 0] \in SubState(n)
  BY <1>0 DEF SubState
<1>3. [w EXCEPT !.at = "query", !.row = 0, !.full = FALSE] \in SubState(n)
  BY <1>0 DEF SubState
<1> QED
  BY <1>1, <1>2, <1>3 DEF NextRow

LEMMA DoneTypes ==
  ASSUME NEW n \in Nat, sub \in SubState(n), Done
  PROVE  sub' \in SubState(n)
<1>1. sub.row \in 0 .. n
  BY DEF SubState
<1>2. [sub EXCEPT !.cursor = sub.row] \in SubState(n)
  BY <1>1 DEF SubState
<1> QED
  BY <1>2, NextRowTypes DEF Done

\* A larger table has room for every row number of a smaller one.
LEMMA SubGrows ==
  ASSUME NEW n \in Nat, NEW w \in SubState(n)
  PROVE  w \in SubState(n + 1)
<1>1. SubFields(w, n)
  BY SubStateFields
<1>2. 0 .. n \subseteq 0 .. (n + 1) /\ 1 .. n \subseteq 1 .. (n + 1)
  OBVIOUS
<1>3. SubFields(w, n + 1)
  BY <1>1, <1>2 DEF SubFields
<1> QED
  BY <1>3, SubStateFields

\* What an insert does to the table.
LEMMA InsertTypes ==
  ASSUME TypeOK, NEW t \in Tasks, NEW topic \in Launches \cup {Other}, Insert(t, topic)
  PROVE  /\ rows' \in Seq(Launches \cup {Other})
         /\ Len(rows') = Len(rows) + 1
         /\ DOMAIN rows' = DOMAIN rows \cup {Len(rows) + 1}
         /\ rows'[Len(rows) + 1] = topic
         /\ \A id \in DOMAIN rows : rows'[id] = rows[id]
         /\ outgoing' = [outgoing EXCEPT ![t] = Len(rows) + 1]
         /\ outgoing' \in [Tasks -> 0 .. Len(rows')]
         /\ sent \in Seq(1 .. Len(rows'))
         /\ shown \subseteq 1 .. Len(rows')
         /\ sub \in SubState(Len(rows'))
<1> USE DEF TypeOK
<1>1. /\ rows' = Append(rows, topic)
      /\ outgoing' = [outgoing EXCEPT ![t] = Len(rows) + 1]
  BY DEF Insert
<1>2. /\ rows' \in Seq(Launches \cup {Other})
      /\ Len(rows') = Len(rows) + 1
      /\ DOMAIN rows' = DOMAIN rows \cup {Len(rows) + 1}
      /\ rows'[Len(rows) + 1] = topic
      /\ \A id \in DOMAIN rows : rows'[id] = rows[id]
  BY <1>1
<1>3. Len(rows) \in Nat
  OBVIOUS
<1>4. outgoing' \in [Tasks -> 0 .. Len(rows')]
  BY <1>1, <1>2, <1>3
<1>5. sent \in Seq(1 .. Len(rows'))
  <2>1. 1 .. Len(rows) \subseteq 1 .. Len(rows')
    BY <1>2, <1>3
  <2> QED
    BY <2>1, SeqMonotonic
<1>6. shown \subseteq 1 .. Len(rows')
  BY <1>2, <1>3
<1>7. sub \in SubState(Len(rows'))
  <2>1. sub \in SubState(Len(rows))
    OBVIOUS
  <2> QED
    BY <2>1, <1>2, <1>3, SubGrows
<1> QED
  BY <1>1, <1>2, <1>4, <1>5, <1>6, <1>7

LEMMA FaultCounts ==
  ASSUME count \in Bounded, Fault
  PROVE  count' \in Bounded
BY DEF Fault, Bounded

\* Publishing inserts a row, or counts a fault.
LEMMA PublishTypes ==
  ASSUME TypeOK, NEW t \in Tasks, NEW topic \in Launches \cup {Other}, Publish(t, topic)
  PROVE  /\ rows' \in Seq(Launches \cup {Other})
         /\ Len(rows) <= Len(rows')
         /\ outgoing' \in [Tasks -> 0 .. Len(rows')]
         /\ sent \in Seq(1 .. Len(rows'))
         /\ shown \subseteq 1 .. Len(rows')
         /\ sub \in SubState(Len(rows'))
         /\ count' \in Bounded
<1>0. Len(rows) \in Nat
  BY DEF TypeOK
<1>1. CASE Insert(t, topic) /\ UNCHANGED count
  BY <1>0, <1>1, InsertTypes DEF TypeOK
<1>2. CASE Free(t) /\ Fault /\ UNCHANGED table
  BY <1>0, <1>2, FaultCounts DEF table, TypeOK
<1> QED
  BY <1>1, <1>2 DEF Publish

\* The sweepers' next steps are well typed.
LEMMA SweepSteps ==
  ASSUME NEW w \in SweepState, NEW l \in Launches
  PROVE  /\ SweepIdle \in SweepState
         /\ Resume(w) \in SweepState
         /\ [w EXCEPT !.open = @ \ {l}] \in SweepState
         /\ [w EXCEPT !.at = "publish", !.launch = l] \in SweepState
<1>1. SweepIdle \in SweepState
  BY DEF SweepIdle, SweepState
<1>2. [w EXCEPT !.at = "sweep", !.launch = Other] \in SweepState
  BY DEF SweepState
<1>3. [w EXCEPT !.open = @ \ {l}] \in SweepState
  BY DEF SweepState
<1>4. [w EXCEPT !.at = "publish", !.launch = l] \in SweepState
  BY DEF SweepState
<1> QED
  BY <1>1, <1>2, <1>3, <1>4 DEF Resume

\* A receiver that reads, or is moved after a lag, stays at a position.
LEMMA ReceiveTypes ==
  ASSUME TypeOK, NEW r \in Receivers, Receive(r)
  PROVE  /\ next' \in [Receivers -> Nat \ {0}]
         /\ next[r] \in 1 .. Len(sent)
         /\ sent[next[r]] \in 1 .. Len(rows)
<1>1. next[r] \in Nat \ {0} /\ Len(sent) \in Nat
  BY DEF TypeOK
<1>2. next[r] \in 1 .. Len(sent)
  BY <1>1 DEF Receive, CaughtUp
<1>3. next[r] + 1 \in Nat \ {0}
  BY <1>1
<1>4. next' \in [Receivers -> Nat \ {0}]
  BY <1>3 DEF Receive, TypeOK
<1>5. sent[next[r]] \in 1 .. Len(rows)
  BY <1>2, ElementOfSeq DEF TypeOK
<1> QED
  BY <1>2, <1>4, <1>5

LEMMA CatchUpTypes ==
  ASSUME TypeOK, NEW r \in Receivers, CatchUp(r)
  PROVE  next' \in [Receivers -> Nat \ {0}]
<1>1. Len(sent) \in Nat /\ RingSize \in Nat
  BY DeliveryAssumption DEF TypeOK
<1>2. Oldest \in Nat \ {0}
  BY <1>1 DEF Oldest
<1> QED
  BY <1>2 DEF CatchUp, TypeOK

LEMMA TakeUpTypes ==
  ASSUME TypeOK, NEW id, NEW mode \in {"live", "replay"}, TakeUp(id, mode)
  PROVE  handled' \in [Launches -> Taking]
<1>1. CASE rows[id] \in Launches
  <2>1. handled[rows[id]] \in Taking
    BY <1>1 DEF TypeOK
  <2>2. /\ [handled[rows[id]] EXCEPT !.live = @ + 1] \in Taking
        /\ [handled[rows[id]] EXCEPT !.replay = @ + 1] \in Taking
    BY <2>1 DEF Taking
  <2>3. CASE mode = "live"
    BY <1>1, <2>2, <2>3 DEF TakeUp, TypeOK
  <2>4. CASE mode = "replay"
    BY <1>1, <2>2, <2>4 DEF TakeUp, TypeOK
  <2> QED
    BY <2>3, <2>4
<1>2. CASE rows[id] \notin Launches
  BY <1>2 DEF TakeUp, TypeOK
<1> QED
  BY <1>1, <1>2

(* Every reachable state is well typed, for every value of the constants.  *)
THEOREM DeliveryTypeCorrect == Spec => []TypeOK
<1>1. Init => TypeOK
  <2> SUFFICES ASSUME Init PROVE TypeOK
    OBVIOUS
  <2>1. setup \in SetupKind
    BY DeliveryAssumption DEF Init
  <2>2. rows \in Seq(Launches \cup {Other}) /\ Len(rows) = 0
    BY DEF Init
  <2>3. sent \in Seq(1 .. Len(rows)) /\ shown \subseteq 1 .. Len(rows)
    BY EmptySeq DEF Init, ProcessInit
  <2>4. sub \in SubState(Len(rows)) /\ outgoing \in [Tasks -> 0 .. Len(rows)]
    BY <2>2 DEF Init, ProcessInit, SubIdle, SubState
  <2>5. sweep \in [Sweepers -> SweepState] /\ log \in LogState /\ count \in Bounded
    BY DEF Init, ProcessInit, SweepIdle, SweepState, LogStarting, LogState, Bounded
  <2>6. handled \in [Launches -> Taking] /\ manifests \in [Launches -> Nat]
    BY DEF Init, ProcessInit, Untouched, Taking
  <2>7. next \in [Receivers -> Nat \ {0}] /\ completed \subseteq Launches
    BY DEF Init, ProcessInit
  <2>8. gaveUp \in BOOLEAN
    BY DEF Init, ProcessInit
  <2> QED
    BY <2>1, <2>2, <2>3, <2>4, <2>5, <2>6, <2>7, <2>8 DEF TypeOK
<1>2. TypeOK /\ [Next]_deliveryVars => TypeOK'
  <2> SUFFICES ASSUME TypeOK, [Next]_deliveryVars PROVE TypeOK'
    OBVIOUS
  <2>a. /\ Len(rows) \in Nat
        /\ sub \in SubState(Len(rows))
        /\ \A k \in DOMAIN sent : sent[k] \in 1 .. Len(rows)
        /\ Sweepers \subseteq Tasks /\ "flush" \in Tasks /\ "runs" \in Tasks
    BY DEF TypeOK, Tasks
  <2>r. "runs" \in Receivers /\ "log" \in Receivers
    BY DEF Receivers
  <2>b. DOMAIN rows = 1 .. Len(rows)
    BY DEF TypeOK
  <2>1. ASSUME NEW t \in Tasks, Send(t) PROVE TypeOK'
    <3>1. outgoing[t] \in 1 .. Len(rows)
      BY <2>1, <2>a DEF Send, Free, TypeOK
    <3>2. sent' \in Seq(1 .. Len(rows))
      BY <2>1, <3>1 DEF Send, TypeOK
    <3>3. outgoing' \in [Tasks -> 0 .. Len(rows)]
      BY <2>1, <2>a DEF Send, TypeOK
    <3> QED
      BY <2>1, <3>2, <3>3 DEF Send, TypeOK, subVars, logVars
  <2>2. CASE FlushRow
    <3>1. Insert("flush", Other) /\ count' = [count EXCEPT !.others = @ + 1]
      BY <2>2 DEF FlushRow
    <3>2. count' \in Bounded
      <4>1. count \in Bounded
        BY DEF TypeOK
      <4> QED
        BY <3>1, <4>1 DEF Bounded
    <3>3. /\ rows' \in Seq(Launches \cup {Other})
          /\ outgoing' \in [Tasks -> 0 .. Len(rows')]
          /\ sent \in Seq(1 .. Len(rows'))
          /\ shown \subseteq 1 .. Len(rows')
          /\ sub \in SubState(Len(rows'))
      BY <2>a, <3>1, InsertTypes
    <3> QED
      BY <2>2, <3>2, <3>3 DEF FlushRow, TypeOK, bus, subVars, logVars
  <2>3. ASSUME NEW s \in Sweepers, SweepList(s) PROVE TypeOK'
    <3>1. PICK open \in (SUBSET (Launches \ completed)) \ {{}} :
            sweep' = [sweep EXCEPT ![s] = [SweepIdle EXCEPT !.at = "sweep", !.open = open]]
      BY <2>3 DEF SweepList
    <3>2. [SweepIdle EXCEPT !.at = "sweep", !.open = open] \in SweepState
      BY DEF SweepIdle, SweepState
    <3>3. sweep' \in [Sweepers -> SweepState]
      BY <3>1, <3>2 DEF TypeOK
    <3> QED
      BY <2>3, <3>3 DEF SweepList, TypeOK, table, bus, subVars, logVars
  <2>4. ASSUME NEW s \in Sweepers, NEW l \in Launches, SweepComplete(s, l) PROVE TypeOK'
    <3> DEFINE w == [sweep[s] EXCEPT !.open = @ \ {l}]
    <3>1. sweep[s] \in SweepState
      BY DEF TypeOK
    <3>2. w \in SweepState
      BY <3>1, SweepSteps
    <3>3. [w EXCEPT !.at = "publish", !.launch = l] \in SweepState /\ Resume(w) \in SweepState
      BY <3>2, SweepSteps
    <3>4. \/ sweep' = [sweep EXCEPT ![s] = [w EXCEPT !.at = "publish", !.launch = l]]
          \/ sweep' = [sweep EXCEPT ![s] = Resume(w)]
      BY <2>4 DEF SweepComplete
    <3>5. sweep' \in [Sweepers -> SweepState]
      BY <3>3, <3>4 DEF TypeOK
    <3>6. completed' \subseteq Launches
      BY <2>4 DEF SweepComplete, TypeOK
    <3> QED
      BY <2>4, <3>5, <3>6 DEF SweepComplete, TypeOK, table, bus, subVars, logVars
  <2>5. ASSUME NEW s \in Sweepers, SweepPublish(s) PROVE TypeOK'
    <3>1. sweep[s] \in SweepState
      BY DEF TypeOK
    <3>2. sweep[s].launch \in Launches \cup {Other}
      BY <3>1 DEF SweepState
    <3>3. Resume(sweep[s]) \in SweepState
      <4>1. [sweep[s] EXCEPT !.at = "sweep", !.launch = Other] \in SweepState
        BY <3>1 DEF SweepState
      <4> QED
        BY <4>1 DEF Resume, SweepIdle, SweepState
    <3>4. sweep' \in [Sweepers -> SweepState]
      BY <2>5, <3>3 DEF SweepPublish, TypeOK
    <3>5. s \in Tasks /\ Publish(s, sweep[s].launch)
      BY <2>5, <2>a DEF SweepPublish
    <3>6. /\ rows' \in Seq(Launches \cup {Other})
          /\ outgoing' \in [Tasks -> 0 .. Len(rows')]
          /\ sent \in Seq(1 .. Len(rows'))
          /\ shown \subseteq 1 .. Len(rows')
          /\ sub \in SubState(Len(rows'))
          /\ count' \in Bounded
      BY <3>2, <3>5, PublishTypes
    <3> QED
      BY <2>5, <3>4, <3>6 DEF SweepPublish, TypeOK, bus, subVars, logVars
  <2>6. ASSUME NEW s \in Sweepers, SweepFails(s) PROVE TypeOK'
    <3>1. sweep' \in [Sweepers -> SweepState]
      <4>1. SweepIdle \in SweepState
        BY DEF SweepIdle, SweepState
      <4> QED
        BY <2>6, <4>1 DEF SweepFails, TypeOK
    <3>2. count' \in Bounded
      BY <2>6, FaultCounts DEF SweepFails, TypeOK
    <3> QED
      BY <2>6, <3>1, <3>2 DEF SweepFails, TypeOK, table, bus, subVars, logVars
  <2>7. CASE RunsReceive
    <3> DEFINE id == sent[next["runs"]]
    <3>1. next' \in [Receivers -> Nat \ {0}] /\ id \in 1 .. Len(rows)
      BY <2>7, <2>r, ReceiveTypes DEF RunsReceive
    <3>2. CASE TakeUp(id, "live") /\ sub' = [sub EXCEPT !.at = "attempt", !.row = id]
      <4>1. handled' \in [Launches -> Taking]
        BY <3>2, TakeUpTypes
      <4>2. sub' \in SubState(Len(rows))
        <5>1. id \in 0 .. Len(rows)
          BY <2>a, <3>1
        <5> QED
          BY <2>a, <5>1, <3>2 DEF SubState
      <4> QED
        BY <2>7, <3>1, <4>1, <4>2 DEF RunsReceive, TypeOK, table, logVars
    <3>3. CASE UNCHANGED <<sub, handled>>
      BY <2>7, <3>1, <3>3 DEF RunsReceive, TypeOK, table, logVars
    <3> QED
      BY <2>7, <3>2, <3>3 DEF RunsReceive
  <2>8. CASE RunsLagged
    <3>1. next' \in [Receivers -> Nat \ {0}]
      BY <2>8, <2>r, CatchUpTypes DEF RunsLagged
    <3>2. sub' \in SubState(Len(rows))
      BY <2>8, <2>a DEF RunsLagged, SubState
    <3> QED
      BY <2>8, <3>1, <3>2 DEF RunsLagged, TypeOK, table, logVars
  <2>9. CASE RunsQuery
    <3>1. PICK page \in SUBSET RunsAfter(sub.cursor) :
            sub' = NextRow([sub EXCEPT !.page = page, !.full = (Cardinality(page) = PageSize)])
      BY <2>9 DEF RunsQuery
    <3>2. page \subseteq 1 .. Len(rows)
      BY <2>b DEF RunsAfter
    <3>3. [sub EXCEPT !.page = page, !.full = (Cardinality(page) = PageSize)]
            \in SubState(Len(rows))
      BY <2>a, <3>2 DEF SubState
    <3>4. sub' \in SubState(Len(rows))
      BY <2>a, <3>1, <3>3, NextRowTypes
    <3> QED
      BY <2>9, <3>4 DEF RunsQuery, TypeOK, table, bus, logVars
  <2>10. CASE RunsQueryFails
    <3>1. sub' \in SubState(Len(rows))
      BY <2>10, <2>a, NextRowTypes DEF RunsQueryFails
    <3>2. count' \in Bounded
      BY <2>10, FaultCounts DEF RunsQueryFails, TypeOK
    <3> QED
      BY <2>10, <3>1, <3>2 DEF RunsQueryFails, TypeOK, table, bus, logVars
  <2>11. CASE RunsRow
    <3>1. PICK id \in sub.page :
            /\ TakeUp(id, "replay")
            /\ sub' = [sub EXCEPT !.at = "attempt", !.row = id, !.page = @ \ {id}]
      BY <2>11 DEF RunsRow
    <3>2. SubFields(sub, Len(rows))
      BY <2>a, SubStateFields
    <3>3. id \in 1 .. Len(rows) /\ sub.page \ {id} \subseteq 1 .. Len(rows)
      BY <3>2 DEF SubFields
    <3>4. sub' \in SubState(Len(rows))
      <4>1. id \in 0 .. Len(rows)
        BY <2>a, <3>3
      <4>2. sub.page \ {id} \in SUBSET (1 .. Len(rows))
        BY <3>3
      <4> QED
        BY <2>a, <3>1, <4>1, <4>2 DEF SubState
    <3>5. handled' \in [Launches -> Taking]
      BY <3>1, TakeUpTypes
    <3> QED
      BY <2>11, <3>4, <3>5 DEF RunsRow, TypeOK, table, bus, logVars
  <2>12. CASE WriteAttempt
    <3>1. CASE Publish("runs", Other) /\ sub' = [sub EXCEPT !.at = "write"]
      <4>1. /\ rows' \in Seq(Launches \cup {Other})
            /\ outgoing' \in [Tasks -> 0 .. Len(rows')]
            /\ sent \in Seq(1 .. Len(rows'))
            /\ shown \subseteq 1 .. Len(rows')
            /\ sub \in SubState(Len(rows'))
            /\ count' \in Bounded
        BY <3>1, <2>a, PublishTypes
      <4>2. sub' \in SubState(Len(rows'))
        BY <3>1, <4>1 DEF SubState
      <4> QED
        BY <2>12, <4>1, <4>2 DEF WriteAttempt, TypeOK, bus, logVars
    <3>2. CASE Free("runs") /\ Fault /\ Done /\ UNCHANGED table
      <4>1. sub' \in SubState(Len(rows))
        BY <3>2, <2>a, DoneTypes
      <4>2. count' \in Bounded
        BY <3>2, FaultCounts DEF TypeOK
      <4> QED
        BY <2>12, <3>2, <4>1, <4>2 DEF WriteAttempt, TypeOK, table, bus, logVars
    <3> QED
      BY <2>12, <3>1, <3>2 DEF WriteAttempt
  <2>13. CASE WriteManifest
    <3>1. sub' \in SubState(Len(rows))
      <4>1. CASE sub' = [sub EXCEPT !.at = "tell"]
        BY <4>1, <2>a DEF SubState
      <4>2. CASE Done
        BY <4>2, <2>a, DoneTypes
      <4> QED
        BY <2>13, <4>1, <4>2 DEF WriteManifest
    <3>2. manifests' \in [Launches -> Nat]
      BY <2>13 DEF WriteManifest, TypeOK
    <3>3. count' \in Bounded
      BY <2>13, FaultCounts DEF WriteManifest, TypeOK
    <3> QED
      BY <2>13, <3>1, <3>2, <3>3 DEF WriteManifest, TypeOK, table, bus, logVars
  <2>14. CASE WriteTell
    <3>1. /\ rows' \in Seq(Launches \cup {Other})
          /\ Len(rows) <= Len(rows')
          /\ outgoing' \in [Tasks -> 0 .. Len(rows')]
          /\ sent \in Seq(1 .. Len(rows'))
          /\ shown \subseteq 1 .. Len(rows')
          /\ sub \in SubState(Len(rows'))
          /\ count' \in Bounded
      BY <2>14, <2>a, PublishTypes DEF WriteTell
    <3>2. sub' \in SubState(Len(rows'))
      <4>1. Len(rows') \in Nat
        BY <3>1
      <4> QED
        BY <2>14, <3>1, <4>1, DoneTypes DEF WriteTell
    <3> QED
      BY <2>14, <3>1, <3>2 DEF WriteTell, TypeOK, bus, logVars
  <2>15. CASE LogStart
    <3> DEFINE seed == IF Len(rows) > Window THEN Len(rows) - Window ELSE 0
    <3>1. seed \in Nat
      BY <2>a, DeliveryAssumption
    <3>2. log' \in LogState
      BY <2>15, <3>1 DEF LogStart, LogState, TypeOK
    <3>3. count' \in Bounded
      BY <2>15, FaultCounts DEF LogStart, TypeOK
    <3> QED
      BY <2>15, <3>2, <3>3 DEF LogStart, TypeOK, table, bus, subVars
  <2>16. CASE LogReceive
    <3>1. shown' \subseteq 1 .. Len(rows)
      BY <2>16, <2>b DEF LogReceive, TypeOK
    <3>2. log' \in LogState
      BY <2>16, <2>a DEF LogReceive, LogState, TypeOK
    <3>3. next' \in [Receivers -> Nat \ {0}]
      BY <2>16, <2>r, ReceiveTypes DEF LogReceive
    <3>4. count' \in Bounded
      BY <2>16, FaultCounts DEF LogReceive, TypeOK
    <3> QED
      BY <2>16, <3>1, <3>2, <3>3, <3>4 DEF LogReceive, TypeOK, table, subVars
  <2>17. CASE LogLagged
    <3>1. next' \in [Receivers -> Nat \ {0}]
      BY <2>17, <2>r, CatchUpTypes DEF LogLagged
    <3> QED
      BY <2>17, <3>1 DEF LogLagged, TypeOK, table, subVars, logVars
  <2>18. CASE Restart
    <3>1. sub' \in SubState(Len(rows))
      BY <2>18, <2>a DEF Restart, SubIdle, SubState
    <3>2. sweep' \in [Sweepers -> SweepState] /\ log' \in LogState
      BY <2>18 DEF Restart, SweepIdle, SweepState, LogStarting, LogState
    <3>3. sent' \in Seq(1 .. Len(rows)) /\ shown' \subseteq 1 .. Len(rows)
      BY <2>18, EmptySeq DEF Restart
    <3>4. next' \in [Receivers -> Nat \ {0}] /\ outgoing' \in [Tasks -> 0 .. Len(rows)]
      BY <2>18, <2>a DEF Restart
    <3>5. handled' \in [Launches -> Taking]
      BY <2>18 DEF Restart, Untouched, Taking
    <3>6. count' \in Bounded
      <4>1. count \in Bounded
        BY DEF TypeOK
      <4> QED
        BY <2>18, <4>1 DEF Restart, Bounded
    <3> QED
      BY <2>18, <3>1, <3>2, <3>3, <3>4, <3>5, <3>6 DEF Restart, TypeOK
  <2>19. CASE UNCHANGED deliveryVars
    BY <2>19 DEF deliveryVars, TypeOK
  <2> QED
    BY <2>1, <2>2, <2>3, <2>4, <2>5, <2>6, <2>7, <2>8, <2>9, <2>10, <2>11, <2>12,
       <2>13, <2>14, <2>15, <2>16, <2>17, <2>18, <2>19
    DEF Next, Sweep, Runs, Log
<1> QED
  BY <1>1, <1>2, PTL DEF Spec

-----------------------------------------------------------------------------
(* The inductive invariant.                                                *)

\* A run's row is of a completed launch; a sweep that is about to publish
\* has set completed_at itself, and nobody else publishes the launch.
RowsInv ==
  /\ LaunchAnnouncedOnce
  /\ \A i \in DOMAIN rows : IsRun(i) => rows[i] \in completed
  /\ \A s \in Sweepers : sweep[s].at = "publish" =>
       /\ sweep[s].launch \in completed
       /\ \A i \in DOMAIN rows : rows[i] # sweep[s].launch
  /\ \A s, t \in Sweepers :
       sweep[s].at = "publish" /\ sweep[t].at = "publish"
         /\ sweep[s].launch = sweep[t].launch => s = t

\* A row is sent at most once, by the task that inserted it.
ChannelInv ==
  /\ \A r \in Receivers : next[r] <= Len(sent) + 1
  /\ \A j, k \in 1 .. Len(sent) : sent[j] = sent[k] => j = k
  /\ \A t \in Tasks : outgoing[t] # 0 => \A k \in 1 .. Len(sent) : sent[k] # outgoing[t]
  /\ \A t, u \in Tasks : outgoing[t] # 0 /\ outgoing[t] = outgoing[u] => t = u

\* What the forwarder has read is in the window.
LogInv ==
  /\ log.at = "start" => next["log"] = 1 /\ log.ok
  /\ log.at = "live" =>
       /\ log.cursor <= Len(rows)
       /\ \A id \in 1 .. Len(rows) : log.seed < id /\ id <= log.cursor => id \in shown
       /\ log.ok /\ CaughtUp("log") => \A k \in 1 .. Len(sent) : sent[k] <= log.cursor

RunIds == {i \in 1 .. Len(rows) : IsRun(i)}
TakenIds == {i \in RunIds : Taken(rows[i])}
ReplayedIds == {i \in RunIds : handled[rows[i]].replay > 0}

InHand(w) == w.at \in {"attempt", "write", "tell"}

\* The row in hand is one of a page.
FromPage(w) == InHand(w) /\ w.mode = "replay"

\* The subscriber w, when R are the runs of the table, T of them taken up
\* and P from a page: a page is what follows the cursor, the row in hand
\* comes before it, and what was taken from a page is behind the cursor or
\* in hand.
SubOK(w, R, T, P) ==
  /\ w.mode = "live" => w.page = {} /\ ~ w.full /\ w.at \notin {"query", "row"}
  /\ w.at = "query" => w.page = {} /\ ~ w.full
  /\ w.at = "recv" => w.mode = "live"
  /\ InHand(w) => w.row \in T
  /\ w.page \subseteq R
  /\ \A j \in w.page : w.cursor < j
  /\ FromPage(w) =>
       /\ w.cursor < w.row
       /\ \A j \in w.page : w.row < j
       /\ \A i \in R : i < w.row => i <= w.cursor
  /\ \A i \in R : i <= w.cursor => i \in T
  /\ \A i \in R, j \in w.page :
       i < j => i <= w.cursor \/ i \in w.page \/ (FromPage(w) /\ i = w.row)
  /\ \A i \in P : i <= w.cursor \/ (FromPage(w) /\ i = w.row)

ReplayInv == SubOK(sub, RunIds, TakenIds, ReplayedIds)

\* What has been taken up is in the table, and live only what was received.
TakenInv ==
  \A l \in Launches :
    /\ Taken(l) => \E i \in RunIds : rows[i] = l
    /\ handled[l].live > 0 =>
         \E k \in 1 .. Len(sent) : k < next["runs"] /\ rows[sent[k]] = l
    /\ handled[l].live <= 1
    /\ handled[l].replay <= 1

\* A run that was received or overwritten is taken up or in the page, or
\* more of the table will be read.
SlipInv ==
  \/ sub.at = "query" \/ sub.full \/ gaveUp \/ Lagging("runs")
  \/ \A k \in 1 .. Len(sent) :
       k < next["runs"] /\ sent[k] \in RunIds => sent[k] \in TakenIds \cup sub.page

Pending(l) == IF sub.at \in {"attempt", "write"} /\ rows[sub.row] = l THEN 1 ELSE 0

\* Every manifest is accounted for by a taking.
ManifestInv ==
  \A l \in Launches :
    manifests[l] + Pending(l)
      <= 2 * count.restarts + handled[l].live + handled[l].replay


-----------------------------------------------------------------------------
(* The table and the sweeps.                                               *)

LEMMA AppendedRow ==
  ASSUME TypeOK, NEW topic \in Launches \cup {Other}, rows' = Append(rows, topic)
  PROVE  /\ Len(rows) \in Nat
         /\ Len(rows') = Len(rows) + 1
         /\ rows'[Len(rows) + 1] = topic
         /\ \A i \in 1 .. Len(rows) : rows'[i] = rows[i]
         /\ \A i \in 1 .. Len(rows') : i \in 1 .. Len(rows) \/ i = Len(rows) + 1
         /\ DOMAIN rows = 1 .. Len(rows) /\ DOMAIN rows' = 1 .. Len(rows')
<1>1. rows \in Seq(Launches \cup {Other})
  BY DEF TypeOK
<1>2. Len(rows) \in Nat /\ Len(rows') = Len(rows) + 1
  BY <1>1
<1> QED
  BY <1>1, <1>2

LEMMA PublishedRow ==
  ASSUME NEW t \in Tasks, NEW topic, Publish(t, topic)
  PROVE  rows' = rows \/ rows' = Append(rows, topic)
BY DEF Publish, Insert, table

\* A step that completes and publishes nothing.
LEMMA RowsKept ==
  ASSUME RowsInv, UNCHANGED <<rows, completed>>,
         \A s \in Sweepers : sweep'[s].at = "publish" =>
           sweep[s].at = "publish" /\ sweep'[s].launch = sweep[s].launch
  PROVE  RowsInv'
BY DEF RowsInv, LaunchAnnouncedOnce, IsRun

\* A row of another topic.
LEMMA RowsOther ==
  ASSUME TypeOK, RowsInv, UNCHANGED <<completed, sweep>>,
         rows' = rows \/ rows' = Append(rows, Other)
  PROVE  RowsInv'
<1>1. CASE rows' = rows
  BY <1>1, RowsKept
<1>2. CASE rows' = Append(rows, Other)
  <2>1. /\ DOMAIN rows = 1 .. Len(rows) /\ DOMAIN rows' = 1 .. Len(rows')
        /\ \A i \in DOMAIN rows : rows'[i] = rows[i]
        /\ \A i \in DOMAIN rows' : i \in DOMAIN rows \/ rows'[i] = Other
    BY <1>2, AppendedRow
  <2>2. \A i \in DOMAIN rows' : rows'[i] \in Launches => i \in DOMAIN rows /\ rows'[i] = rows[i]
    BY <2>1, DeliveryAssumption
  <2>3. LaunchAnnouncedOnce'
    BY <2>2 DEF RowsInv, LaunchAnnouncedOnce, IsRun
  <2>4. \A s \in Sweepers : sweep[s].at = "publish" => sweep[s].launch \in Launches
    BY DEF RowsInv, TypeOK
  <2> QED
    BY <2>1, <2>2, <2>3, <2>4 DEF RowsInv, IsRun
<1> QED
  BY <1>1, <1>2

LEMMA RowsInvStep ==
  ASSUME TypeOK, RowsInv, [Next]_deliveryVars
  PROVE  RowsInv'
<1>1. ASSUME NEW t \in Tasks, Send(t) PROVE RowsInv'
  BY <1>1, RowsKept DEF Send
<1>2. CASE FlushRow
  BY <1>2, RowsOther DEF FlushRow, Insert
<1>3. ASSUME NEW s \in Sweepers, SweepList(s) PROVE RowsInv'
  <2>1. \A t \in Sweepers : sweep'[t].at = "publish" => sweep'[t] = sweep[t]
    BY <1>3 DEF SweepList, SweepIdle, TypeOK, SweepState
  <2> QED
    BY <1>3, <2>1, RowsKept DEF SweepList, table
<1>4. ASSUME NEW s \in Sweepers, NEW l \in Launches, SweepComplete(s, l) PROVE RowsInv'
  <2> DEFINE w == [sweep[s] EXCEPT !.open = @ \ {l}]
  <2>1. sweep[s] \in SweepState /\ w \in SweepState
    BY SweepSteps DEF TypeOK
  <2>2. CASE /\ l \notin completed
             /\ completed' = completed \cup {l}
             /\ sweep' = [sweep EXCEPT ![s] = [w EXCEPT !.at = "publish", !.launch = l]]
    <3>1. UNCHANGED rows
      BY <1>4 DEF SweepComplete, table
    <3>2. /\ sweep'[s].at = "publish" /\ sweep'[s].launch = l
          /\ \A t \in Sweepers \ {s} : sweep'[t] = sweep[t]
      BY <2>1, <2>2 DEF TypeOK, SweepState
    <3>3. \A i \in DOMAIN rows : rows[i] # l
      BY <2>2 DEF RowsInv, IsRun
    <3>4. \A t \in Sweepers \ {s} : sweep[t].at = "publish" => sweep[t].launch # l
      BY <2>2 DEF RowsInv
    <3> QED
      BY <2>2, <3>1, <3>2, <3>3, <3>4 DEF RowsInv, LaunchAnnouncedOnce, IsRun
  <2>3. CASE /\ sweep' = [sweep EXCEPT ![s] = Resume(w)]
             /\ UNCHANGED completed
    <3>1. Resume(w).at # "publish"
      BY <2>1 DEF Resume, SweepIdle, SweepState
    <3>2. \A t \in Sweepers : sweep'[t].at = "publish" => sweep'[t] = sweep[t]
      BY <2>3, <3>1 DEF TypeOK
    <3> QED
      BY <1>4, <2>3, <3>2, RowsKept DEF SweepComplete, table
  <2> QED
    BY <1>4, <2>2, <2>3 DEF SweepComplete
<1>5. ASSUME NEW s \in Sweepers, SweepPublish(s) PROVE RowsInv'
  <2> DEFINE l == sweep[s].launch
  <2>1. /\ sweep[s] \in SweepState
        /\ l \in completed /\ l \in Launches
        /\ \A i \in DOMAIN rows : rows[i] # l
        /\ \A t \in Sweepers \ {s} : sweep[t].at = "publish" => sweep[t].launch # l
    BY <1>5 DEF SweepPublish, RowsInv, TypeOK
  <2>2. Resume(sweep[s]).at # "publish"
    BY <2>1 DEF Resume, SweepIdle, SweepState
  <2>3. /\ sweep'[s].at # "publish"
        /\ \A t \in Sweepers \ {s} : sweep'[t] = sweep[t]
    BY <1>5, <2>2 DEF SweepPublish, TypeOK
  <2>4. UNCHANGED completed
    BY <1>5 DEF SweepPublish
  <2>5. rows' = rows \/ rows' = Append(rows, l)
    <3>1. s \in Tasks
      BY DEF Tasks
    <3> QED
      BY <1>5, <3>1, PublishedRow DEF SweepPublish
  <2>6. CASE rows' = rows
    BY <2>3, <2>4, <2>6, RowsKept
  <2>7. CASE rows' = Append(rows, l)
    <3>1. /\ \A i \in DOMAIN rows : rows'[i] = rows[i]
          /\ DOMAIN rows' = DOMAIN rows \cup {Len(rows) + 1}
          /\ rows'[Len(rows) + 1] = l
      BY <2>1, <2>7, AppendedRow
    <3>2. LaunchAnnouncedOnce'
      BY <2>1, <3>1 DEF RowsInv, LaunchAnnouncedOnce, IsRun
    <3>3. \A i \in DOMAIN rows' : rows'[i] \in Launches => rows'[i] \in completed
      BY <2>1, <3>1 DEF RowsInv, IsRun
    <3>4. \A t \in Sweepers \ {s} : sweep[t].at = "publish" =>
            \A i \in DOMAIN rows' : rows'[i] # sweep[t].launch
      BY <2>1, <3>1 DEF RowsInv
    <3> QED
      BY <2>3, <2>4, <3>2, <3>3, <3>4 DEF RowsInv, IsRun
  <2> QED
    BY <2>5, <2>6, <2>7
<1>6. ASSUME NEW s \in Sweepers, SweepFails(s) PROVE RowsInv'
  <2>1. \A t \in Sweepers : sweep'[t].at = "publish" => sweep'[t] = sweep[t]
    BY <1>6 DEF SweepFails, SweepIdle, TypeOK
  <2> QED
    BY <1>6, <2>1, RowsKept DEF SweepFails, table
<1>7. CASE WriteAttempt \/ WriteTell
  <2>1. "runs" \in Tasks
    BY DEF Tasks
  <2>2. rows' = rows \/ rows' = Append(rows, Other)
    BY <1>7, <2>1, PublishedRow DEF WriteAttempt, WriteTell, table
  <2> QED
    BY <1>7, <2>2, RowsOther DEF WriteAttempt, WriteTell
<1>8. CASE RunsReceive \/ RunsLagged \/ RunsQuery \/ RunsQueryFails \/ RunsRow \/ WriteManifest
  BY <1>8, RowsKept
  DEF RunsReceive, RunsLagged, RunsQuery, RunsQueryFails, RunsRow, WriteManifest, table
<1>9. CASE Log
  BY <1>9, RowsKept DEF Log, LogStart, LogReceive, LogLagged, table
<1>10. CASE Restart
  <2>1. \A t \in Sweepers : sweep'[t].at # "publish"
    BY <1>10 DEF Restart, SweepIdle
  <2> QED
    BY <1>10, <2>1, RowsKept DEF Restart
<1>11. CASE UNCHANGED deliveryVars
  BY <1>11, RowsKept DEF deliveryVars
<1> QED
  BY <1>1, <1>2, <1>3, <1>4, <1>5, <1>6, <1>7, <1>8, <1>9, <1>10, <1>11 DEF Next, Sweep, Runs

(* complete_tool_launch: the sweep that sets completed_at is the one that  *)
(* publishes, and sets it at most once for every launch, so the table has  *)
(* at most one completed run of a launch, whatever the number of sweepers  *)
(* and of restarts.                                                        *)
THEOREM CompletionPublishedOnce == Spec => []LaunchAnnouncedOnce
<1>1. Init => RowsInv
  BY DEF Init, ProcessInit, RowsInv, LaunchAnnouncedOnce, SweepIdle
<1>2. TypeOK /\ RowsInv /\ [Next]_deliveryVars => RowsInv'
  BY RowsInvStep
<1>3. RowsInv => LaunchAnnouncedOnce
  BY DEF RowsInv
<1> QED
  BY <1>1, <1>2, <1>3, DeliveryTypeCorrect, PTL DEF Spec

-----------------------------------------------------------------------------
(* The channel.                                                            *)

\* A row that is inserted has a number nobody has sent or waits to send.
LEMMA ChannelInsert ==
  ASSUME TypeOK, ChannelInv, NEW t \in Tasks, NEW topic \in Launches \cup {Other},
         Insert(t, topic), UNCHANGED bus
  PROVE  ChannelInv'
<1>1. /\ Len(rows) \in Nat
      /\ \A u \in Tasks : outgoing[u] \in 0 .. Len(rows)
      /\ \A k \in 1 .. Len(sent) : sent[k] \in 1 .. Len(rows)
  BY ElementOfSeq DEF TypeOK
<1>2. /\ outgoing'[t] = Len(rows) + 1
      /\ \A u \in Tasks \ {t} : outgoing'[u] = outgoing[u]
  BY DEF Insert, TypeOK
<1>3. sent' = sent /\ next' = next
  BY DEF bus
<1>4. \A u \in Tasks : outgoing'[u] # 0 => \A k \in 1 .. Len(sent) : sent[k] # outgoing'[u]
  BY <1>1, <1>2 DEF ChannelInv
<1>5. \A u, v \in Tasks : outgoing'[u] # 0 /\ outgoing'[u] = outgoing'[v] => u = v
  <2> SUFFICES ASSUME NEW u \in Tasks, NEW v \in Tasks,
                      outgoing'[u] # 0, outgoing'[u] = outgoing'[v], u # v
               PROVE  FALSE
    OBVIOUS
  <2>1. CASE u = t
    BY <1>1, <1>2, <2>1
  <2>2. CASE v = t
    BY <1>1, <1>2, <2>2
  <2>3. CASE u # t /\ v # t
    BY <1>2, <2>3 DEF ChannelInv
  <2> QED
    BY <2>1, <2>2, <2>3
<1> QED
  BY <1>3, <1>4, <1>5 DEF ChannelInv

LEMMA ChannelPublish ==
  ASSUME TypeOK, ChannelInv, NEW t \in Tasks, NEW topic \in Launches \cup {Other},
         Publish(t, topic), UNCHANGED bus
  PROVE  ChannelInv'
<1>1. CASE Insert(t, topic)
  BY <1>1, ChannelInsert
<1>2. CASE UNCHANGED table
  BY <1>2 DEF table, bus, ChannelInv
<1> QED
  BY <1>1, <1>2 DEF Publish

LEMMA ChannelKept ==
  ASSUME ChannelInv, UNCHANGED <<outgoing, sent, next>>
  PROVE  ChannelInv'
BY DEF ChannelInv

\* A receiver that reads, or is moved after a lag, stays in the ring.
LEMMA ChannelRead ==
  ASSUME TypeOK, ChannelInv, NEW r \in Receivers, Receive(r) \/ CatchUp(r),
         UNCHANGED <<outgoing, sent>>
  PROVE  ChannelInv'
<1>1. Len(sent) \in Nat /\ RingSize \in Nat \ {0} /\ next[r] \in Nat
  BY DeliveryAssumption DEF TypeOK
<1>2. Oldest <= Len(sent) + 1
  BY <1>1 DEF Oldest
<1>3. next[r] + 1 <= Len(sent) + 1 \/ ~ Receive(r)
  BY <1>1 DEF Receive, CaughtUp
<1>4. next'[r] <= Len(sent) + 1
  BY <1>2, <1>3 DEF Receive, CatchUp, TypeOK
<1>5. \A q \in Receivers \ {r} : next'[q] = next[q]
  BY DEF Receive, CatchUp, TypeOK
<1> QED
  BY <1>4, <1>5 DEF ChannelInv

\* What a send does to the channel.
LEMMA SentRow ==
  ASSUME TypeOK, NEW t \in Tasks, Send(t)
  PROVE  /\ Len(sent) \in Nat
         /\ Len(sent') = Len(sent) + 1
         /\ sent'[Len(sent) + 1] = outgoing[t]
         /\ \A k \in 1 .. Len(sent) : sent'[k] = sent[k]
         /\ outgoing[t] \in 1 .. Len(rows)
<1>1. outgoing[t] \in 1 .. Len(rows)
  BY DEF Send, Free, TypeOK
<1>2. sent' = Append(sent, outgoing[t])
  BY DEF Send
<1>3. sent \in Seq(1 .. Len(rows))
  BY DEF TypeOK
<1> QED
  BY <1>1, <1>2, <1>3

LEMMA ChannelSend ==
  ASSUME TypeOK, ChannelInv, NEW t \in Tasks, Send(t)
  PROVE  ChannelInv'
<1> DEFINE n == Len(sent)
<1>1. /\ n \in Nat /\ Len(sent') = n + 1
      /\ sent'[n + 1] = outgoing[t]
      /\ \A k \in 1 .. n : sent'[k] = sent[k]
  BY SentRow
<1>2. outgoing[t] # 0 /\ next' = next
  BY DEF Send, Free
<1>3. outgoing'[t] = 0 /\ \A u \in Tasks \ {t} : outgoing'[u] = outgoing[u]
  BY DEF Send, TypeOK
<1> HIDE DEF n
<1>4. \A k \in 1 .. n + 1 : k \in 1 .. n \/ k = n + 1
  BY <1>1
<1>5. \A r \in Receivers : next'[r] <= Len(sent') + 1
  <2>1. \A r \in Receivers : next[r] \in Nat /\ next[r] <= n + 1
    BY DEF ChannelInv, TypeOK, n
  <2> QED
    BY <1>1, <1>2, <2>1
<1>6. \A j, k \in 1 .. n + 1 : sent'[j] = sent'[k] => j = k
  <2> SUFFICES ASSUME NEW j \in 1 .. n + 1, NEW k \in 1 .. n + 1, sent'[j] = sent'[k]
               PROVE  j = k
    OBVIOUS
  <2>1. \A i \in 1 .. n : sent[i] # outgoing[t]
    BY <1>2 DEF ChannelInv, n
  <2>2. CASE j \in 1 .. n /\ k \in 1 .. n
    BY <1>1, <2>2 DEF ChannelInv, n
  <2>3. CASE j = n + 1 \/ k = n + 1
    BY <1>1, <1>4, <2>1, <2>3
  <2> QED
    BY <1>4, <2>2, <2>3
<1>7. \A u \in Tasks : outgoing'[u] # 0 => \A k \in 1 .. n + 1 : sent'[k] # outgoing'[u]
  <2> SUFFICES ASSUME NEW u \in Tasks, outgoing'[u] # 0, NEW k \in 1 .. n + 1
               PROVE  sent'[k] # outgoing'[u]
    OBVIOUS
  <2>1. u # t /\ outgoing'[u] = outgoing[u]
    BY <1>3
  <2>2. CASE k \in 1 .. n
    BY <1>1, <2>1, <2>2 DEF ChannelInv, n
  <2>3. CASE k = n + 1
    BY <1>1, <1>2, <2>1, <2>3 DEF ChannelInv
  <2> QED
    BY <1>4, <2>2, <2>3
<1>8. \A u, v \in Tasks : outgoing'[u] # 0 /\ outgoing'[u] = outgoing'[v] => u = v
  BY <1>3 DEF ChannelInv
<1> QED
  BY <1>1, <1>5, <1>6, <1>7, <1>8 DEF ChannelInv

LEMMA ChannelInvStep ==
  ASSUME TypeOK, ChannelInv, [Next]_deliveryVars
  PROVE  ChannelInv'
<1>0. /\ "runs" \in Tasks /\ "flush" \in Tasks /\ Sweepers \subseteq Tasks
      /\ "runs" \in Receivers /\ "log" \in Receivers
  BY DEF Tasks, Receivers
<1>1. ASSUME NEW t \in Tasks, Send(t) PROVE ChannelInv'
  BY <1>1, ChannelSend
<1>2. CASE FlushRow
  BY <1>0, <1>2, ChannelInsert DEF FlushRow
<1>3. ASSUME NEW s \in Sweepers, SweepPublish(s) PROVE ChannelInv'
  <2>1. sweep[s].launch \in Launches \cup {Other}
    BY DEF TypeOK, SweepState
  <2> QED
    BY <1>0, <1>3, <2>1, ChannelPublish DEF SweepPublish
<1>4. ASSUME NEW s \in Sweepers,
             SweepList(s) \/ SweepFails(s) \/ \E l \in Launches : SweepComplete(s, l)
      PROVE  ChannelInv'
  BY <1>4, ChannelKept DEF SweepList, SweepFails, SweepComplete, table, bus
<1>5. CASE RunsReceive
  BY <1>0, <1>5, ChannelRead DEF RunsReceive, table
<1>6. CASE RunsLagged
  BY <1>0, <1>6, ChannelRead DEF RunsLagged, table
<1>7. CASE RunsQuery \/ RunsQueryFails \/ RunsRow \/ WriteManifest
  BY <1>7, ChannelKept DEF RunsQuery, RunsQueryFails, RunsRow, WriteManifest, table, bus
<1>8. CASE WriteAttempt
  <2>1. CASE Publish("runs", Other)
    BY <1>0, <1>8, <2>1, ChannelPublish DEF WriteAttempt
  <2>2. CASE UNCHANGED table
    BY <1>8, <2>2, ChannelKept DEF WriteAttempt, table, bus
  <2> QED
    BY <1>8, <2>1, <2>2 DEF WriteAttempt
<1>9. CASE WriteTell
  BY <1>0, <1>9, ChannelPublish DEF WriteTell
<1>10. CASE LogStart
  BY <1>10, ChannelKept DEF LogStart, table, bus
<1>11. CASE LogReceive
  BY <1>0, <1>11, ChannelRead DEF LogReceive, table
<1>12. CASE LogLagged
  BY <1>0, <1>12, ChannelRead DEF LogLagged, table
<1>13. CASE Restart
  <2>1. /\ Len(sent') = 0
        /\ \A t \in Tasks : outgoing'[t] = 0
        /\ \A r \in Receivers : next'[r] = 1
    BY <1>13 DEF Restart
  <2> QED
    BY <2>1 DEF ChannelInv
<1>14. CASE UNCHANGED deliveryVars
  BY <1>14, ChannelKept DEF deliveryVars
<1> QED
  BY <1>1, <1>2, <1>3, <1>4, <1>5, <1>6, <1>7, <1>8, <1>9, <1>10, <1>11, <1>12,
     <1>13, <1>14 DEF Next, Sweep, Runs, Log

-----------------------------------------------------------------------------
(* The log forwarder.                                                      *)

\* Any step of the others.
LEMMA LogInvOthers ==
  ASSUME TypeOK, ChannelInv, LogInv, UNCHANGED <<log, shown>>,
         next'["log"] = next["log"], Len(rows') \in Nat, Len(rows) <= Len(rows'),
         \/ sent' = sent
         \/ \E t \in Tasks : Send(t)
  PROVE  LogInv'
<1>1. Len(rows) \in Nat /\ shown \subseteq 1 .. Len(rows) /\ log.cursor \in Nat
      /\ Len(sent) \in Nat /\ next["log"] \in Nat
  BY DEF TypeOK, LogState, Receivers
<1>2. ASSUME log.at = "live"
      PROVE  \A id \in 1 .. Len(rows') : log.seed < id /\ id <= log.cursor => id \in shown
  BY <1>1, <1>2 DEF LogInv
<1>3. ASSUME log.at = "live", log.ok, CaughtUp("log")'
      PROVE  \A k \in 1 .. Len(sent') : sent'[k] <= log.cursor
  <2>1. CASE sent' = sent
    BY <1>3, <2>1 DEF LogInv, CaughtUp
  <2>2. CASE \E t \in Tasks : Send(t)
    <3>1. Len(sent') = Len(sent) + 1 /\ \A k \in 1 .. Len(sent) : sent'[k] = sent[k]
      BY <2>2, SentRow
    <3>2. next["log"] <= Len(sent) + 1
      BY DEF ChannelInv, Receivers
    <3> QED
      BY <1>1, <1>3, <3>1, <3>2 DEF CaughtUp
  <2> QED
    BY <2>1, <2>2
<1> QED
  BY <1>1, <1>2, <1>3 DEF LogInv

LEMMA LogInvStep ==
  ASSUME TypeOK, TypeOK', ChannelInv, LogInv, [Next]_deliveryVars
  PROVE  LogInv'
<1>0. /\ Len(rows) \in Nat /\ Len(rows') \in Nat /\ Len(sent) \in Nat
      /\ next["log"] \in Nat \ {0} /\ log \in LogState
      /\ \A k \in 1 .. Len(sent) : sent[k] \in 1 .. Len(rows)
      /\ DOMAIN rows = 1 .. Len(rows)
  BY ElementOfSeq DEF TypeOK, Receivers
<1>1. ASSUME NEW t \in Tasks, Send(t) PROVE LogInv'
  <2>1. UNCHANGED <<rows, next, log, shown>>
    BY <1>1 DEF Send, logVars
  <2> QED
    BY <1>0, <1>1, <2>1, LogInvOthers
<1>2. CASE FlushRow
  <2>1. "flush" \in Tasks /\ Other \in Launches \cup {Other}
    BY DEF Tasks
  <2>2. Len(rows') = Len(rows) + 1
    BY <1>2, <2>1, InsertTypes DEF FlushRow
  <2> QED
    BY <1>0, <1>2, <2>2, LogInvOthers DEF FlushRow, bus, logVars
<1>3. ASSUME NEW t \in Tasks, NEW topic \in Launches \cup {Other}, Publish(t, topic),
             UNCHANGED <<bus, logVars>>
      PROVE  LogInv'
  <2>1. Len(rows) <= Len(rows')
    BY <1>3, PublishTypes
  <2> QED
    BY <1>0, <1>3, <2>1, LogInvOthers DEF bus, logVars
<1>4. ASSUME UNCHANGED <<rows, log, shown, sent>>, next'["log"] = next["log"]
      PROVE  LogInv'
  BY <1>0, <1>4, LogInvOthers
<1>5. ASSUME NEW s \in Sweepers, SweepPublish(s) PROVE LogInv'
  <2>1. s \in Tasks /\ sweep[s].launch \in Launches \cup {Other}
    BY DEF TypeOK, SweepState, Tasks
  <2> QED
    BY <1>3, <1>5, <2>1 DEF SweepPublish
<1>6. ASSUME NEW s \in Sweepers,
             SweepList(s) \/ SweepFails(s) \/ \E l \in Launches : SweepComplete(s, l)
      PROVE  LogInv'
  BY <1>4, <1>6 DEF SweepList, SweepFails, SweepComplete, table, bus, logVars
<1>7. CASE RunsReceive \/ RunsLagged
  <2>1. next'["log"] = next["log"]
    BY <1>7 DEF RunsReceive, RunsLagged, Receive, CatchUp, TypeOK, Receivers
  <2> QED
    BY <1>4, <1>7, <2>1 DEF RunsReceive, RunsLagged, table, logVars
<1>8. CASE RunsQuery \/ RunsQueryFails \/ RunsRow \/ WriteManifest
  BY <1>4, <1>8 DEF RunsQuery, RunsQueryFails, RunsRow, WriteManifest, table, bus, logVars
<1>9. CASE WriteAttempt \/ WriteTell
  <2>1. "runs" \in Tasks
    BY DEF Tasks
  <2>2. CASE Publish("runs", Other)
    BY <1>3, <1>9, <2>1, <2>2 DEF WriteAttempt, WriteTell
  <2>3. CASE UNCHANGED table
    BY <1>4, <1>9, <2>3 DEF WriteAttempt, WriteTell, table, bus, logVars
  <2> QED
    BY <1>9, <2>2, <2>3 DEF WriteAttempt, WriteTell
<1>10. CASE LogStart
  <2> DEFINE seed == IF Len(rows) > Window THEN Len(rows) - Window ELSE 0
  <2>1. seed \in Nat /\ seed <= Len(rows)
    BY <1>0, DeliveryAssumption
  <2>2. /\ log.at = "start" /\ next["log"] = 1
        /\ UNCHANGED <<rows, sent, next, shown>>
    BY <1>10 DEF LogStart, LogInv, table, bus
  <2>3. CASE log' = [log EXCEPT !.at = "live", !.cursor = seed, !.seed = seed]
    <3>1. log'.at = "live" /\ log'.cursor = seed /\ log'.seed = seed
      BY <1>0, <2>3 DEF LogState
    <3>2. CaughtUp("log")' => Len(sent') = 0
      BY <1>0, <2>2 DEF CaughtUp
    <3>3. \A id \in 1 .. Len(rows') : ~ (seed < id /\ id <= seed)
      BY <2>1
    <3> QED
      BY <2>1, <2>2, <3>1, <3>2, <3>3 DEF LogInv
  <2>4. CASE log' = [log EXCEPT !.at = "stopped"]
    BY <1>0, <2>4 DEF LogInv, LogState
  <2> QED
    BY <1>10, <2>3, <2>4 DEF LogStart
<1>11. CASE LogReceive
  <2>1. log.at = "live" /\ UNCHANGED <<rows, sent>>
    BY <1>11 DEF LogReceive, table
  <2>2. CASE /\ shown' = shown \cup {id \in DOMAIN rows : id > log.cursor}
             /\ log' = [log EXCEPT !.cursor = Len(rows), !.ok = TRUE]
    <3>1. log'.at = "live" /\ log'.cursor = Len(rows) /\ log'.seed = log.seed
      BY <1>0, <2>1, <2>2 DEF LogState
    <3>2. \A id \in 1 .. Len(rows) : log.seed < id => id \in shown'
      BY <1>0, <2>1, <2>2 DEF LogInv, LogState
    <3> QED
      BY <1>0, <2>1, <3>1, <3>2 DEF LogInv
  <2>3. CASE log' = [log EXCEPT !.ok = FALSE] /\ UNCHANGED shown
    <3>1. log'.at = "live" /\ log'.cursor = log.cursor /\ log'.seed = log.seed /\ ~ log'.ok
      BY <1>0, <2>1, <2>3 DEF LogState
    <3> QED
      BY <2>1, <2>3, <3>1 DEF LogInv
  <2> QED
    BY <1>11, <2>2, <2>3 DEF LogReceive
<1>12. CASE LogLagged
  <2>1. UNCHANGED <<rows, sent, log, shown>> /\ log.at = "live"
    BY <1>12 DEF LogLagged, table, logVars
  <2>2. next'["log"] = Oldest /\ next["log"] < Oldest
    BY <1>12 DEF LogLagged, CatchUp, Lagging, TypeOK, Receivers
  <2>3. ~ CaughtUp("log")'
    BY <1>0, <2>1, <2>2, DeliveryAssumption DEF Oldest, CaughtUp
  <2> QED
    BY <2>1, <2>3 DEF LogInv
<1>13. CASE Restart
  BY <1>13 DEF Restart, LogStarting, LogInv, Receivers
<1>14. CASE UNCHANGED deliveryVars
  BY <1>4, <1>14 DEF deliveryVars
<1> QED
  BY <1>1, <1>2, <1>5, <1>6, <1>7, <1>8, <1>9, <1>10, <1>11, <1>12, <1>13, <1>14
  DEF Next, Sweep, Runs, Log

(* start_log_forwarder: a forwarder that waits for events after a          *)
(* successful query has shown every row that was sent, those it lagged     *)
(* behind included, whatever the capacity of the channel.                  *)
THEOREM ForwarderMissesNothing == Spec => []LogMissesNothing
<1>1. Init => ChannelInv /\ LogInv
  <2> SUFFICES ASSUME Init PROVE ChannelInv /\ LogInv
    OBVIOUS
  <2>1. /\ Len(sent) = 0
        /\ \A t \in Tasks : outgoing[t] = 0
        /\ \A r \in Receivers : next[r] = 1
        /\ log.at = "start" /\ log.ok
    BY DEF Init, ProcessInit, LogStarting
  <2> QED
    BY <2>1 DEF ChannelInv, LogInv, Receivers
<1>2. TypeOK /\ TypeOK' /\ ChannelInv /\ LogInv /\ [Next]_deliveryVars => (ChannelInv /\ LogInv)'
  BY ChannelInvStep, LogInvStep
<1>3. TypeOK /\ LogInv => LogMissesNothing
  <2> SUFFICES ASSUME TypeOK, LogInv, log.at = "live", log.ok, CaughtUp("log"),
                      NEW k \in DOMAIN sent, sent[k] > log.seed
               PROVE  sent[k] \in shown
    BY DEF LogMissesNothing
  <2>1. k \in 1 .. Len(sent) /\ sent[k] \in 1 .. Len(rows) /\ Len(rows) \in Nat /\ log.seed \in Nat
    BY ElementOfSeq DEF TypeOK, LogState
  <2> QED
    BY <2>1 DEF LogInv
<1> QED
  BY <1>1, <1>2, <1>3, DeliveryTypeCorrect, PTL DEF Spec

-----------------------------------------------------------------------------
(* The steps of the subscriber, apart from the table and the channel.      *)

\* Runs that are inserted come after everything it knows.
LEMMA SubRunsGrow ==
  ASSUME NEW n \in Nat, NEW w \in SubState(n), NEW R \in SUBSET (1 .. n), NEW T, NEW P,
         NEW S, R \subseteq S, \A i \in S : i \in R \/ (i \in Nat /\ n < i),
         SubOK(w, R, T, P)
  PROVE  SubOK(w, S, T, P)
<1>1. SubFields(w, n)
  BY SubStateFields
<1>2. \A i \in S : i <= w.cursor \/ i < w.row \/ (\E j \in w.page : i < j) => i \in R
  BY <1>1 DEF SubFields
<1>3. \A i \in S : i <= w.cursor => i \in T
  BY <1>2 DEF SubOK
<1>4. FromPage(w) => \A i \in S : i < w.row => i <= w.cursor
  BY <1>2 DEF SubOK
<1>5. \A i \in S, j \in w.page :
        i < j => i <= w.cursor \/ i \in w.page \/ (FromPage(w) /\ i = w.row)
  BY <1>2 DEF SubOK
<1> QED
  BY <1>3, <1>4, <1>5 DEF SubOK

\* It goes back to the loop with nothing of a page in hand.
LEMMA SubBack ==
  ASSUME NEW w, NEW R, NEW T, NEW P, SubOK(w, R, T, P), ~ FromPage(w)
  PROVE  SubOK(Back(w), R, T, P)
<1>1. /\ Back(w).at = "recv" /\ Back(w).mode = "live" /\ Back(w).page = {}
      /\ Back(w).full = FALSE /\ Back(w).cursor = w.cursor
  BY DEF Back, SubIdle
<1> QED
  BY <1>1 DEF SubOK, FromPage, InHand

\* The next row of a page, the next page, or back, with nothing in hand.
LEMMA SubNextRow ==
  ASSUME NEW n \in Nat, NEW w \in SubState(n), NEW R, NEW T, NEW P,
         w.mode = "replay",
         w.page \subseteq R,
         \A j \in w.page : w.cursor < j,
         \A i \in R : i <= w.cursor => i \in T,
         \A i \in R, j \in w.page : i < j => i <= w.cursor \/ i \in w.page,
         \A i \in P : i <= w.cursor
  PROVE  SubOK(NextRow(w), R, T, P)
<1>1. CASE w.page # {}
  <2> DEFINE v == [w EXCEPT !.at = "row", !.row = 0]
  <2>1. NextRow(w) = v
    BY <1>1 DEF NextRow
  <2>2. /\ v.at = "row" /\ v.mode = "replay" /\ v.page = w.page
        /\ v.cursor = w.cursor
    BY DEF SubState
  <2> QED
    BY <2>1, <2>2 DEF SubOK, FromPage, InHand
<1>2. CASE w.page = {} /\ w.full
  <2> DEFINE v == [w EXCEPT !.at = "query", !.row = 0, !.full = FALSE]
  <2>1. NextRow(w) = v
    BY <1>2 DEF NextRow
  <2>2. /\ v.at = "query" /\ v.mode = "replay" /\ v.page = {} /\ v.full = FALSE
        /\ v.cursor = w.cursor
    BY <1>2 DEF SubState
  <2> QED
    BY <2>1, <2>2 DEF SubOK, FromPage, InHand
<1>3. CASE w.page = {} /\ ~ w.full
  <2>1. NextRow(w) = Back(w)
    BY <1>3 DEF NextRow
  <2>2. /\ Back(w).at = "recv" /\ Back(w).mode = "live" /\ Back(w).page = {}
        /\ Back(w).full = FALSE /\ Back(w).cursor = w.cursor
    BY DEF Back, SubIdle
  <2> QED
    BY <2>1, <2>2 DEF SubOK, FromPage, InHand
<1> QED
  BY <1>1, <1>2, <1>3

\* A page is queried.
LEMMA SubQuery ==
  ASSUME NEW n \in Nat, NEW w \in SubState(n), NEW R \in SUBSET (1 .. n), NEW T, NEW P,
         SubOK(w, R, T, P), w.at = "query",
         NEW page, NEW full \in BOOLEAN,
         page \subseteq {i \in R : i > w.cursor},
         \A i \in page, j \in {i \in R : i > w.cursor} \ page : i < j
  PROVE  SubOK(NextRow([w EXCEPT !.page = page, !.full = full]), R, T, P)
<1> DEFINE v == [w EXCEPT !.page = page, !.full = full]
<1>1. SubFields(w, n)
  BY SubStateFields
<1>2. page \in SUBSET (1 .. n)
  OBVIOUS
<1>3. v \in SubState(n)
  BY <1>2 DEF SubState
<1>4. v.mode = w.mode /\ v.page = page /\ v.cursor = w.cursor
  BY DEF SubState
<1>5. w.mode = "replay" /\ ~ FromPage(w)
  BY <1>1 DEF SubFields, SubOK, FromPage, InHand
<1>6. \A j \in page : w.cursor < j
  BY <1>1, <1>2 DEF SubFields
<1>7. \A i \in R, j \in page : i < j => i <= w.cursor \/ i \in page
  <2> SUFFICES ASSUME NEW i \in R, NEW j \in page, i < j, ~ (i <= w.cursor), i \notin page
               PROVE  FALSE
    OBVIOUS
  <2>1. i \in Nat /\ j \in Nat /\ w.cursor \in Nat
    BY <1>1, <1>2 DEF SubFields
  <2>2. i > w.cursor
    BY <2>1
  <2>3. j < i
    BY <2>2
  <2> QED
    BY <2>1, <2>3
<1>8. \A i \in R : i <= w.cursor => i \in T
  BY DEF SubOK
<1>9. \A i \in P : i <= w.cursor
  BY <1>5 DEF SubOK
<1> HIDE DEF v
<1>10. SubOK(NextRow(v), R, T, P)
  BY <1>3, <1>4, <1>5, <1>6, <1>7, <1>8, <1>9, SubNextRow
<1> QED
  BY <1>10 DEF v

\* A row of the page is taken up.
LEMMA SubRowTaken ==
  ASSUME NEW n \in Nat, NEW w \in SubState(n), NEW R \in SUBSET (1 .. n), NEW T, NEW P,
         SubOK(w, R, T, P), w.at = "row",
         NEW id \in w.page, \A j \in w.page : id <= j
  PROVE  /\ SubOK([w EXCEPT !.at = "attempt", !.row = id, !.page = @ \ {id}],
                  R, T \cup {id}, P \cup {id})
         /\ id \notin P /\ w.cursor < id
<1> DEFINE v == [w EXCEPT !.at = "attempt", !.row = id, !.page = @ \ {id}]
<1>1. SubFields(w, n)
  BY SubStateFields
<1>2. /\ v.at = "attempt" /\ v.row = id /\ v.page = w.page \ {id}
      /\ v.mode = w.mode /\ v.cursor = w.cursor /\ v.full = w.full
  BY DEF SubState
<1>3. w.mode = "replay" /\ ~ FromPage(w)
  BY <1>1 DEF SubFields, SubOK, FromPage, InHand
<1>4. /\ w.page \subseteq R
      /\ \A j \in w.page : w.cursor < j
      /\ \A i \in R : i <= w.cursor => i \in T
      /\ \A i \in R, j \in w.page : i < j => i <= w.cursor \/ i \in w.page
      /\ \A i \in P : i <= w.cursor
  BY <1>3 DEF SubOK
<1>5. w.cursor < id /\ id \in Nat /\ w.cursor \in Nat /\ \A j \in w.page : j \in Nat
  BY <1>1, <1>4 DEF SubFields
<1>6. \A j \in v.page : id < j
  BY <1>2, <1>5
<1>7. \A i \in R : i < id => i <= w.cursor
  <2> SUFFICES ASSUME NEW i \in R, i < id, i \in w.page PROVE FALSE
    BY <1>4
  <2> QED
    BY <1>5
<1>8. FromPage(v)
  BY <1>2, <1>3 DEF FromPage, InHand
<1>9. \A i \in R, j \in v.page : i < j => i <= v.cursor \/ i \in v.page \/ i = v.row
  BY <1>2, <1>4
<1>10. \A i \in P \cup {id} : i <= v.cursor \/ i = v.row
  BY <1>2, <1>4
<1>11. id \notin P
  BY <1>4, <1>5
<1> HIDE DEF v
<1>12. SubOK(v, R, T \cup {id}, P \cup {id})
  BY <1>2, <1>3, <1>4, <1>5, <1>6, <1>7, <1>8, <1>9, <1>10 DEF SubOK, InHand
<1> QED
  BY <1>5, <1>11, <1>12 DEF v

\* A live row is taken up.
LEMMA SubLiveTaken ==
  ASSUME NEW n \in Nat, NEW w \in SubState(n), NEW R, NEW T, NEW P,
         SubOK(w, R, T, P), w.at = "recv", NEW id
  PROVE  SubOK([w EXCEPT !.at = "attempt", !.row = id], R, T \cup {id}, P)
<1> DEFINE v == [w EXCEPT !.at = "attempt", !.row = id]
<1>1. /\ v.at = "attempt" /\ v.row = id /\ v.page = w.page
      /\ v.mode = w.mode /\ v.cursor = w.cursor /\ v.full = w.full
  BY DEF SubState
<1>2. w.mode = "live" /\ w.page = {} /\ ~ FromPage(w) /\ ~ FromPage(v)
  BY <1>1 DEF SubOK, FromPage, InHand
<1> HIDE DEF v
<1>3. SubOK(v, R, T \cup {id}, P)
  BY <1>1, <1>2 DEF SubOK, InHand
<1> QED
  BY <1>3 DEF v

\* Between the steps of a write.
LEMMA SubAt ==
  ASSUME NEW n \in Nat, NEW w \in SubState(n), NEW R, NEW T, NEW P, SubOK(w, R, T, P),
         InHand(w), NEW at \in {"write", "tell"}
  PROVE  SubOK([w EXCEPT !.at = at], R, T, P)
<1> DEFINE v == [w EXCEPT !.at = at]
<1>1. /\ v.at = at /\ v.row = w.row /\ v.page = w.page
      /\ v.mode = w.mode /\ v.cursor = w.cursor /\ v.full = w.full
  BY DEF SubState
<1>2. InHand(v) /\ (FromPage(v) <=> FromPage(w))
  BY <1>1 DEF FromPage, InHand
<1> HIDE DEF v
<1>3. SubOK(v, R, T, P)
  BY <1>1, <1>2 DEF SubOK
<1> QED
  BY <1>3 DEF v

\* A row is done.
LEMMA SubDone ==
  ASSUME NEW n \in Nat, NEW w \in SubState(n), NEW R \in SUBSET (1 .. n), NEW T, NEW P \in SUBSET R,
         SubOK(w, R, T, P), InHand(w)
  PROVE  SubOK(IF w.mode = "live" THEN Back(w) ELSE NextRow([w EXCEPT !.cursor = w.row]),
               R, T, P)
<1>1. SubFields(w, n)
  BY SubStateFields
<1>2. CASE w.mode = "live"
  BY <1>2, SubBack DEF FromPage
<1>3. CASE w.mode # "live"
  <2> DEFINE v == [w EXCEPT !.cursor = w.row]
  <2>1. FromPage(w)
    BY <1>1, <1>3 DEF FromPage, SubFields
  <2>2. v \in SubState(n) /\ v.mode = "replay" /\ v.page = w.page /\ v.cursor = w.row
    BY <1>1, <1>3 DEF SubState, SubFields
  <2>3. w.row \in T /\ w.cursor < w.row /\ w.page \subseteq R
    BY <2>1 DEF SubOK, FromPage
  <2>4. \A i \in R : i <= w.row => i \in T
    <3> SUFFICES ASSUME NEW i \in R, i <= w.row PROVE i \in T
      OBVIOUS
    <3>1. i = w.row \/ i < w.row
      BY <1>1 DEF SubFields
    <3> QED
      BY <2>1, <2>3, <3>1 DEF SubOK
  <2>5. \A i \in R, j \in w.page : i < j => i <= w.row \/ i \in w.page
    <3> SUFFICES ASSUME NEW i \in R, NEW j \in w.page, i < j, i <= w.cursor
                 PROVE  i <= w.row
      <4>1. \A i \in R, j \in w.page : i < j => i <= w.cursor \/ i \in w.page \/ i = w.row
        BY DEF SubOK
      <4>2. w.row \in Nat
        BY <1>1 DEF SubFields
      <4> QED
        BY <4>1, <4>2
    <3>1. i \in Nat /\ w.cursor \in Nat /\ w.row \in Nat
      BY <1>1 DEF SubFields
    <3> QED
      BY <2>3, <3>1
  <2>6. \A i \in P : i <= w.row
    <3> SUFFICES ASSUME NEW i \in P PROVE i <= w.row
      OBVIOUS
    <3>1. i <= w.cursor \/ i = w.row
      BY DEF SubOK
    <3>2. i \in Nat /\ w.cursor \in Nat /\ w.row \in Nat
      BY <1>1 DEF SubFields
    <3> QED
      BY <2>3, <3>1, <3>2
  <2>7. \A j \in w.page : w.row < j
    BY <2>1 DEF SubOK
  <2> HIDE DEF v
  <2>8. SubOK(NextRow(v), R, T, P)
    <3>1. /\ \A j \in v.page : v.cursor < j
          /\ \A i \in R : i <= v.cursor => i \in T
          /\ \A i \in R, j \in v.page : i < j => i <= v.cursor \/ i \in v.page
          /\ \A i \in P : i <= v.cursor
          /\ v.page \subseteq R
      BY <2>2, <2>3, <2>4, <2>5, <2>6, <2>7
    <3> QED
      BY <2>2, <3>1, SubNextRow
  <2> QED
    BY <1>3, <2>8 DEF v
<1> QED
  BY <1>2, <1>3

-----------------------------------------------------------------------------
(* The table under the subscriber.                                         *)

SubscriberInv == ReplayInv /\ TakenInv /\ ManifestInv /\ SlipInv

\* The table stays or grows by a row, a run only of a launch without one.
TableGrows ==
  \/ rows' = rows
  \/ \E topic \in Launches \cup {Other} :
       /\ rows' = Append(rows, topic)
       /\ topic \in Launches => \A i \in 1 .. Len(rows) : rows[i] # topic

LEMMA RunIdsFacts ==
  ASSUME TypeOK
  PROVE  /\ Len(rows) \in Nat
         /\ RunIds \in SUBSET (1 .. Len(rows))
         /\ \A i \in RunIds : rows[i] \in Launches
         /\ \A i \in 1 .. Len(rows) : rows[i] \in Launches => i \in RunIds
         /\ TakenIds \subseteq RunIds /\ ReplayedIds \in SUBSET RunIds
         /\ sub \in SubState(Len(rows)) /\ SubFields(sub, Len(rows))
         /\ \A k \in 1 .. Len(sent) : sent[k] \in 1 .. Len(rows)
         /\ \A l \in Launches : handled[l].live \in Nat /\ handled[l].replay \in Nat
<1>1. Len(rows) \in Nat /\ sub \in SubState(Len(rows))
  BY DEF TypeOK
<1>2. SubFields(sub, Len(rows))
  BY <1>1, SubStateFields
<1>3. \A k \in 1 .. Len(sent) : sent[k] \in 1 .. Len(rows)
  BY ElementOfSeq DEF TypeOK
<1>4. \A l \in Launches : handled[l].live \in Nat /\ handled[l].replay \in Nat
  BY DEF TypeOK, Taking
<1> QED
  BY <1>1, <1>2, <1>3, <1>4 DEF RunIds, TakenIds, ReplayedIds, IsRun

LEMMA RunIdsGrow ==
  ASSUME TypeOK, TakenInv, TableGrows, UNCHANGED handled
  PROVE  /\ Len(rows') \in Nat /\ Len(rows) <= Len(rows')
         /\ \A i \in 1 .. Len(rows) : rows'[i] = rows[i]
         /\ RunIds \subseteq RunIds'
         /\ \A i \in RunIds' : i \in RunIds \/ (i \in Nat /\ Len(rows) < i)
         /\ TakenIds' = TakenIds /\ ReplayedIds' = ReplayedIds
<1>0. Len(rows) \in Nat
  BY DEF TypeOK
<1>1. CASE rows' = rows
  BY <1>0, <1>1 DEF RunIds, TakenIds, ReplayedIds, IsRun, Taken
<1>2. ASSUME NEW topic \in Launches \cup {Other}, rows' = Append(rows, topic),
             topic \in Launches => \A i \in 1 .. Len(rows) : rows[i] # topic
      PROVE  /\ Len(rows') \in Nat /\ Len(rows) <= Len(rows')
             /\ \A i \in 1 .. Len(rows) : rows'[i] = rows[i]
             /\ RunIds \subseteq RunIds'
             /\ \A i \in RunIds' : i \in RunIds \/ (i \in Nat /\ Len(rows) < i)
             /\ TakenIds' = TakenIds /\ ReplayedIds' = ReplayedIds
  <2> DEFINE n == Len(rows)
  <2>1. /\ n \in Nat /\ Len(rows') = n + 1 /\ rows'[n + 1] = topic
        /\ \A i \in 1 .. n : rows'[i] = rows[i]
        /\ \A i \in 1 .. Len(rows') : i \in 1 .. n \/ i = n + 1
    BY <1>2, AppendedRow
  <2> HIDE DEF n
  <2>2. 1 .. n \subseteq 1 .. Len(rows')
    BY <2>1
  <2>3. \A i \in 1 .. n : i \in RunIds' <=> i \in RunIds
    BY <2>1, <2>2 DEF RunIds, IsRun, n
  <2>4. RunIds \subseteq 1 .. n /\ RunIds' \subseteq 1 .. Len(rows')
    BY DEF RunIds, n
  <2>5. \A i \in RunIds' : i \in RunIds \/ i = n + 1
    BY <2>1, <2>3, <2>4
  <2>6. n + 1 \in RunIds' => topic \in Launches /\ ~ Taken(topic)
    <3> SUFFICES ASSUME n + 1 \in RunIds' PROVE topic \in Launches /\ ~ Taken(topic)
      OBVIOUS
    <3>1. topic \in Launches
      BY <2>1 DEF RunIds, IsRun
    <3>2. ~ \E i \in RunIds : rows[i] = topic
      BY <1>2, <3>1, <2>4 DEF n
    <3> QED
      BY <3>1, <3>2 DEF TakenInv
  <2>7. topic \in Launches /\ ~ Taken(topic) => ~ (handled[topic].replay > 0)
    <3> SUFFICES ASSUME topic \in Launches, handled[topic].replay > 0 PROVE Taken(topic)
      OBVIOUS
    <3>1. handled[topic].live \in Nat /\ handled[topic].replay \in Nat
      BY DEF TypeOK, Taking
    <3> QED
      BY <3>1 DEF Taken
  <2>8. TakenIds' = TakenIds
    <3>1. \A i \in RunIds : Taken(rows[i])' <=> Taken(rows[i])
      BY <2>1, <2>4 DEF Taken
    <3>2. \A i \in RunIds' : i \notin RunIds => ~ Taken(rows[i])'
      BY <2>1, <2>5, <2>6 DEF Taken
    <3> QED
      BY <2>3, <2>4, <3>1, <3>2 DEF TakenIds
  <2>9. ReplayedIds' = ReplayedIds
    <3>1. \A i \in RunIds : handled'[rows'[i]].replay > 0 <=> handled[rows[i]].replay > 0
      BY <2>1, <2>4
    <3>2. \A i \in RunIds' : i \notin RunIds => ~ (handled'[rows'[i]].replay > 0)
      BY <2>1, <2>5, <2>6, <2>7
    <3> QED
      BY <2>3, <2>4, <3>1, <3>2 DEF ReplayedIds
  <2>10. Len(rows') \in Nat /\ Len(rows) <= Len(rows')
    BY <2>1 DEF n
  <2>11. RunIds \subseteq RunIds'
    BY <2>3, <2>4
  <2>12. \A i \in RunIds' : i \in RunIds \/ (i \in Nat /\ Len(rows) < i)
    BY <2>1, <2>5 DEF n
  <2> QED
    BY <2>1, <2>8, <2>9, <2>10, <2>11, <2>12 DEF n
<1> QED
  BY <1>1, <1>2 DEF TableGrows

\* A run is taken up.
LEMMA TookUp ==
  ASSUME TypeOK, RowsInv, UNCHANGED rows, NEW id \in RunIds,
         NEW mode \in {"live", "replay"}, TakeUp(id, mode)
  PROVE  /\ RunIds' = RunIds
         /\ TakenIds' = TakenIds \cup {id}
         /\ ReplayedIds' = IF mode = "replay" THEN ReplayedIds \cup {id} ELSE ReplayedIds
         /\ \A l \in Launches :
              /\ l # rows[id] => handled'[l] = handled[l]
              /\ l = rows[id] =>
                   /\ handled'[l].live = handled[l].live + (IF mode = "live" THEN 1 ELSE 0)
                   /\ handled'[l].replay = handled[l].replay + (IF mode = "replay" THEN 1 ELSE 0)
<1> DEFINE r == rows[id]
<1>1. r \in Launches /\ handled[r] \in Taking
  BY DEF RunIds, IsRun, TypeOK
<1>2. \A l \in Launches : l # r => handled'[l] = handled[l]
  BY DEF TakeUp, TypeOK
<1>3. /\ mode = "live" => handled'[r] = [handled[r] EXCEPT !.live = @ + 1]
      /\ mode = "replay" => handled'[r] = [handled[r] EXCEPT !.replay = @ + 1]
  BY <1>1 DEF TakeUp, TypeOK
<1>4. /\ handled[r].live \in Nat /\ handled[r].replay \in Nat
      /\ handled'[r].live = handled[r].live + (IF mode = "live" THEN 1 ELSE 0)
      /\ handled'[r].replay = handled[r].replay + (IF mode = "replay" THEN 1 ELSE 0)
  BY <1>1, <1>3 DEF Taking
<1>5. RunIds' = RunIds
  BY DEF RunIds, IsRun
<1>6. \A i \in RunIds : i # id => rows[i] # r /\ rows[i] \in Launches
  BY DEF RowsInv, LaunchAnnouncedOnce, RunIds, IsRun, TypeOK
<1>7. \A i \in RunIds : Taken(rows[i])' <=> (Taken(rows[i]) \/ i = id)
  <2> SUFFICES ASSUME NEW i \in RunIds PROVE Taken(rows[i])' <=> (Taken(rows[i]) \/ i = id)
    OBVIOUS
  <2>1. CASE i = id
    BY <1>4, <2>1 DEF Taken
  <2>2. CASE i # id
    BY <1>2, <1>6, <2>2 DEF Taken
  <2> QED
    BY <2>1, <2>2
<1>8. TakenIds' = TakenIds \cup {id}
  BY <1>5, <1>7 DEF TakenIds
<1>9. \A i \in RunIds : handled'[rows[i]].replay > 0 <=>
        (handled[rows[i]].replay > 0 \/ (i = id /\ mode = "replay"))
  <2> SUFFICES ASSUME NEW i \in RunIds
               PROVE  handled'[rows[i]].replay > 0 <=>
                        (handled[rows[i]].replay > 0 \/ (i = id /\ mode = "replay"))
    OBVIOUS
  <2>1. CASE i = id
    BY <1>4, <2>1
  <2>2. CASE i # id
    BY <1>2, <1>6, <2>2
  <2> QED
    BY <2>1, <2>2
<1>10. ReplayedIds' = IF mode = "replay" THEN ReplayedIds \cup {id} ELSE ReplayedIds
  <2>1. CASE mode = "replay"
    BY <1>5, <1>9, <2>1 DEF ReplayedIds
  <2>2. CASE mode # "replay"
    BY <1>5, <1>9, <2>2 DEF ReplayedIds
  <2> QED
    BY <2>1, <2>2
<1> QED
  BY <1>2, <1>4, <1>5, <1>8, <1>10

-----------------------------------------------------------------------------
(* The steps of the others.                                                *)

Elsewhere ==
  /\ TableGrows
  /\ UNCHANGED <<sub, handled, gaveUp, manifests>>
  /\ next'["runs"] = next["runs"]
  /\ count'.restarts = count.restarts
  /\ \/ sent' = sent
     \/ \E t \in Tasks : Send(t)

LEMMA ElsewhereSent ==
  ASSUME TypeOK, Elsewhere
  PROVE  /\ Len(sent) \in Nat /\ Len(sent') \in Nat /\ Len(sent) <= Len(sent')
         /\ \A k \in 1 .. Len(sent) : sent'[k] = sent[k]
         /\ Lagging("runs") => Lagging("runs")'
<1>0. Len(sent) \in Nat /\ next["runs"] \in Nat /\ RingSize \in Nat \ {0}
  BY DeliveryAssumption DEF TypeOK, Receivers
<1>1. CASE sent' = sent
  BY <1>0, <1>1 DEF Elsewhere, Lagging, Oldest
<1>2. CASE \E t \in Tasks : Send(t)
  <2>1. Len(sent') = Len(sent) + 1 /\ \A k \in 1 .. Len(sent) : sent'[k] = sent[k]
    BY <1>2, SentRow
  <2>2. Lagging("runs") => Lagging("runs")'
    BY <1>0, <2>1 DEF Elsewhere, Lagging, Oldest
  <2> QED
    BY <1>0, <2>1, <2>2
<1> QED
  BY <1>1, <1>2 DEF Elsewhere

LEMMA ElsewhereKeeps ==
  ASSUME TypeOK, ChannelInv, SubscriberInv, Elsewhere
  PROVE  SubscriberInv'
<1>0. /\ ReplayInv /\ TakenInv /\ ManifestInv /\ SlipInv
      /\ TableGrows /\ UNCHANGED <<sub, handled, gaveUp, manifests>>
      /\ next'["runs"] = next["runs"] /\ count'.restarts = count.restarts
  BY DEF SubscriberInv, Elsewhere
<1>1. /\ Len(rows) \in Nat /\ RunIds \in SUBSET (1 .. Len(rows))
      /\ TakenIds \subseteq RunIds /\ sub \in SubState(Len(rows))
      /\ \A k \in 1 .. Len(sent) : sent[k] \in 1 .. Len(rows)
  BY RunIdsFacts
<1>2. /\ \A i \in 1 .. Len(rows) : rows'[i] = rows[i]
      /\ RunIds \subseteq RunIds'
      /\ \A i \in RunIds' : i \in RunIds \/ (i \in Nat /\ Len(rows) < i)
      /\ TakenIds' = TakenIds /\ ReplayedIds' = ReplayedIds
  BY <1>0, RunIdsGrow
<1>3. /\ Len(sent) \in Nat /\ Len(sent') \in Nat /\ Len(sent) <= Len(sent')
      /\ \A k \in 1 .. Len(sent) : sent'[k] = sent[k]
      /\ Lagging("runs") => Lagging("runs")'
  BY ElsewhereSent
<1>4. ReplayInv'
  <2>1. SubOK(sub, RunIds', TakenIds, ReplayedIds)
    BY <1>0, <1>1, <1>2, SubRunsGrow DEF ReplayInv
  <2> QED
    BY <1>0, <1>2, <2>1 DEF ReplayInv
<1>5. TakenInv'
  <2> SUFFICES ASSUME NEW l \in Launches
               PROVE  /\ Taken(l)' => \E i \in RunIds' : rows'[i] = l
                      /\ handled'[l].live > 0 =>
                           \E k \in 1 .. Len(sent') : k < next'["runs"] /\ rows'[sent'[k]] = l
                      /\ handled'[l].live <= 1 /\ handled'[l].replay <= 1
    BY DEF TakenInv
  <2>1. handled'[l] = handled[l]
    BY <1>0
  <2>2. Taken(l) => \E i \in RunIds' : rows'[i] = l
    BY <1>0, <1>1, <1>2 DEF TakenInv
  <2>3. ASSUME NEW k \in 1 .. Len(sent), k < next["runs"], rows[sent[k]] = l
        PROVE  k \in 1 .. Len(sent') /\ k < next'["runs"] /\ rows'[sent'[k]] = l
    BY <1>0, <1>1, <1>2, <1>3, <2>3
  <2> QED
    BY <1>0, <2>1, <2>2, <2>3 DEF TakenInv, Taken
<1>6. ManifestInv'
  <2>1. ASSUME NEW l \in Launches PROVE Pending(l)' = Pending(l)
    <3>1. CASE sub.at \in {"attempt", "write"}
      <4>1. sub.row \in 1 .. Len(rows)
        BY <1>0, <1>1, <3>1 DEF ReplayInv, SubOK, InHand
      <4> QED
        BY <1>0, <1>2, <4>1 DEF Pending
    <3>2. CASE sub.at \notin {"attempt", "write"}
      BY <1>0, <3>2 DEF Pending
    <3> QED
      BY <3>1, <3>2
  <2> QED
    BY <1>0, <2>1 DEF ManifestInv
<1>7. SlipInv'
  <2>1. next["runs"] \in Nat /\ next["runs"] <= Len(sent) + 1
    BY DEF ChannelInv, TypeOK, Receivers
  <2>2. ASSUME NEW k \in 1 .. Len(sent'), k < next'["runs"], sent'[k] \in RunIds'
        PROVE  k \in 1 .. Len(sent) /\ k < next["runs"] /\ sent[k] \in RunIds /\ sent'[k] = sent[k]
    <3>1. k \in 1 .. Len(sent)
      BY <1>0, <1>3, <2>1, <2>2
    <3> QED
      BY <1>0, <1>1, <1>2, <1>3, <2>2, <3>1
  <2> QED
    BY <1>0, <1>2, <1>3, <2>2 DEF SlipInv
<1> QED
  BY <1>4, <1>5, <1>6, <1>7 DEF SubscriberInv

LEMMA ElsewhereSteps ==
  ASSUME TypeOK, RowsInv,
         \/ \E t \in Tasks : Send(t)
         \/ FlushRow
         \/ \E s \in Sweepers : SweepList(s) \/ Sweep(s) \/ SweepFails(s)
         \/ Log
         \/ UNCHANGED deliveryVars
  PROVE  Elsewhere
<1>0. count \in Bounded /\ "runs" \in Receivers /\ "log" \in Receivers
  BY DEF TypeOK, Receivers
<1>1. ASSUME Fault PROVE count'.restarts = count.restarts
  BY <1>0, <1>1 DEF Fault, Bounded
<1>2. ASSUME NEW t \in Tasks, Send(t) PROVE Elsewhere
  BY <1>2 DEF Send, Elsewhere, TableGrows, subVars
<1>3. CASE FlushRow
  <2>1. rows' = Append(rows, Other) /\ Other \notin Launches
    BY <1>3, DeliveryAssumption DEF FlushRow, Insert
  <2>2. count'.restarts = count.restarts
    BY <1>0, <1>3 DEF FlushRow, Bounded
  <2> QED
    BY <1>3, <2>1, <2>2 DEF FlushRow, Elsewhere, TableGrows, bus, subVars
<1>4. ASSUME NEW s \in Sweepers, SweepList(s) PROVE Elsewhere
  BY <1>4 DEF SweepList, Elsewhere, TableGrows, table, bus, subVars
<1>5. ASSUME NEW s \in Sweepers, NEW l \in Launches, SweepComplete(s, l) PROVE Elsewhere
  BY <1>5 DEF SweepComplete, Elsewhere, TableGrows, table, bus, subVars
<1>6. ASSUME NEW s \in Sweepers, SweepPublish(s) PROVE Elsewhere
  <2> DEFINE l == sweep[s].launch
  <2>1. l \in Launches \cup {Other} /\ \A i \in 1 .. Len(rows) : rows[i] # l
    <3>1. DOMAIN rows = 1 .. Len(rows)
      BY DEF TypeOK
    <3> QED
      BY <1>6, <3>1 DEF SweepPublish, RowsInv, TypeOK, SweepState
  <2>2. rows' = rows \/ rows' = Append(rows, l)
    <3>1. s \in Tasks
      BY DEF Tasks
    <3> QED
      BY <1>6, <3>1, PublishedRow DEF SweepPublish
  <2>3. TableGrows
    BY <2>1, <2>2 DEF TableGrows
  <2>4. count'.restarts = count.restarts
    BY <1>1, <1>6 DEF SweepPublish, Publish
  <2> QED
    BY <1>6, <2>3, <2>4 DEF SweepPublish, Elsewhere, bus, subVars
<1>7. ASSUME NEW s \in Sweepers, SweepFails(s) PROVE Elsewhere
  BY <1>1, <1>7 DEF SweepFails, Elsewhere, TableGrows, table, bus, subVars
<1>8. CASE LogStart
  BY <1>1, <1>8 DEF LogStart, Elsewhere, TableGrows, table, bus, subVars
<1>9. CASE LogReceive
  <2>1. next'["runs"] = next["runs"]
    BY <1>0, <1>9 DEF LogReceive, Receive, TypeOK
  <2> QED
    BY <1>1, <1>9, <2>1 DEF LogReceive, Elsewhere, TableGrows, table, subVars
<1>10. CASE LogLagged
  <2>1. next'["runs"] = next["runs"]
    BY <1>0, <1>10 DEF LogLagged, CatchUp, TypeOK
  <2> QED
    BY <1>10, <2>1 DEF LogLagged, Elsewhere, TableGrows, table, subVars
<1>11. CASE UNCHANGED deliveryVars
  BY <1>11 DEF deliveryVars, Elsewhere, TableGrows
<1> QED
  BY <1>2, <1>3, <1>4, <1>5, <1>6, <1>7, <1>8, <1>9, <1>10, <1>11 DEF Sweep, Log

-----------------------------------------------------------------------------
(* The steps of the subscriber.                                            *)

LEMMA ReceiveKeeps ==
  ASSUME TypeOK, RowsInv, ChannelInv, SubscriberInv, RunsReceive
  PROVE  SubscriberInv'
<1> DEFINE p == next["runs"]
           id == sent[p]
<1>0. /\ ReplayInv /\ TakenInv /\ ManifestInv /\ SlipInv /\ "runs" \in Receivers
      /\ UNCHANGED <<rows, manifests, sent, gaveUp, count>> /\ sub.at = "recv"
  BY DEF SubscriberInv, RunsReceive, InLoop, Receivers, table
<1>1. /\ Len(rows) \in Nat /\ RunIds \in SUBSET (1 .. Len(rows))
      /\ \A i \in RunIds : rows[i] \in Launches
      /\ \A i \in 1 .. Len(rows) : rows[i] \in Launches => i \in RunIds
      /\ sub \in SubState(Len(rows)) /\ SubFields(sub, Len(rows))
      /\ TakenIds \subseteq RunIds
  BY RunIdsFacts
<1>2. p \in 1 .. Len(sent) /\ id \in 1 .. Len(rows) /\ next'["runs"] = p + 1 /\ ~ Lagging("runs")
  BY <1>0, ReceiveTypes DEF RunsReceive, Receive, TypeOK
<1>3. Len(sent) \in Nat /\ \A k \in 1 .. Len(sent) : k < p + 1 => k < p \/ k = p
  BY <1>2
<1>4. ~ sub.full /\ sub.page = {}
  BY <1>0 DEF ReplayInv, SubOK
<1>5. gaveUp \/ \A k \in 1 .. Len(sent) : k < p /\ sent[k] \in RunIds => sent[k] \in TakenIds
  BY <1>0, <1>2, <1>4 DEF SlipInv
<1>6. CASE /\ IsRun(id) /\ TakeUp(id, "live")
           /\ sub' = [sub EXCEPT !.at = "attempt", !.row = id]
  <2> DEFINE r == rows[id]
  <2>0. id \in RunIds /\ r \in Launches
    BY <1>1, <1>2, <1>6 DEF IsRun
  <2>1. /\ RunIds' = RunIds /\ TakenIds' = TakenIds \cup {id} /\ ReplayedIds' = ReplayedIds
        /\ \A l \in Launches : l # r => handled'[l] = handled[l]
        /\ handled'[r].live = handled[r].live + 1
        /\ handled'[r].replay = handled[r].replay
    <3>1. /\ RunIds' = RunIds /\ TakenIds' = TakenIds \cup {id}
          /\ ReplayedIds' = IF "live" = "replay" THEN ReplayedIds \cup {id} ELSE ReplayedIds
          /\ \A l \in Launches :
               /\ l # rows[id] => handled'[l] = handled[l]
               /\ l = rows[id] =>
                    /\ handled'[l].live = handled[l].live + (IF "live" = "live" THEN 1 ELSE 0)
                    /\ handled'[l].replay = handled[l].replay + (IF "live" = "replay" THEN 1 ELSE 0)
      BY <1>0, <1>6, <2>0, TookUp
    <3>2. handled[r].replay \in Nat
      BY <2>0, RunIdsFacts
    <3> QED
      BY <2>0, <3>1, <3>2
  <2>2. /\ sub'.at = "attempt" /\ sub'.row = id /\ sub'.page = sub.page /\ sub'.full = sub.full
    BY <1>1, <1>6 DEF SubState
  <2>3. ReplayInv'
    <3>1. SubOK(sub', RunIds, TakenIds \cup {id}, ReplayedIds)
      BY <1>0, <1>1, <1>6, SubLiveTaken DEF ReplayInv
    <3> QED
      BY <2>1, <3>1 DEF ReplayInv
  <2>4. handled[r].live = 0
    <3>1. ASSUME NEW k \in 1 .. Len(sent), k < p, rows[sent[k]] = r PROVE FALSE
      <4>1. sent[k] \in 1 .. Len(rows) /\ DOMAIN rows = 1 .. Len(rows)
        BY ElementOfSeq DEF TypeOK
      <4>2. sent[k] = id
        BY <1>2, <2>0, <3>1, <4>1 DEF RowsInv, LaunchAnnouncedOnce, IsRun
      <4>3. k = p
        BY <1>2, <4>2 DEF ChannelInv
      <4> QED
        BY <1>2, <3>1, <4>3
    <3>2. handled[r].live \in Nat
      BY <2>0, RunIdsFacts
    <3> QED
      BY <1>0, <2>0, <3>1, <3>2 DEF TakenInv
  <2>5. TakenInv'
    <3> SUFFICES ASSUME NEW l \in Launches
                 PROVE  /\ Taken(l)' => \E i \in RunIds' : rows'[i] = l
                        /\ handled'[l].live > 0 =>
                             \E k \in 1 .. Len(sent') : k < next'["runs"] /\ rows'[sent'[k]] = l
                        /\ handled'[l].live <= 1 /\ handled'[l].replay <= 1
      BY DEF TakenInv
    <3>1. CASE l = r
      BY <1>0, <1>2, <2>0, <2>1, <2>4, <3>1 DEF TakenInv
    <3>2. CASE l # r
      <4>1. handled'[l] = handled[l]
        BY <2>1, <3>2
      <4>2. \A k \in 1 .. Len(sent) : k < p => k < p + 1
        BY <1>2
      <4> QED
        BY <1>0, <1>2, <2>1, <4>1, <4>2 DEF TakenInv, Taken
    <3> QED
      BY <3>1, <3>2
  <2>6. ManifestInv'
    <3> SUFFICES ASSUME NEW l \in Launches
                 PROVE  manifests'[l] + Pending(l)'
                          <= 2 * count'.restarts + handled'[l].live + handled'[l].replay
      BY DEF ManifestInv
    <3>1. Pending(l) = 0
      BY <1>0 DEF Pending
    <3>2. /\ manifests[l] \in Nat /\ count.restarts \in Nat
          /\ handled[l].live \in Nat /\ handled[l].replay \in Nat
      BY RunIdsFacts DEF TypeOK, Bounded
    <3>3. manifests[l] <= 2 * count.restarts + handled[l].live + handled[l].replay
      BY <1>0, <3>1, <3>2 DEF ManifestInv
    <3>4. CASE l = r
      <4>1. Pending(l)' = 1
        BY <1>0, <2>2, <3>4 DEF Pending
      <4> QED
        BY <1>0, <2>1, <3>2, <3>3, <3>4, <4>1
    <3>5. CASE l # r
      <4>1. Pending(l)' = 0
        BY <1>0, <2>2, <3>5 DEF Pending
      <4> QED
        BY <1>0, <2>1, <3>2, <3>3, <3>5, <4>1
    <3> QED
      BY <3>4, <3>5
  <2>7. SlipInv'
    BY <1>0, <1>2, <1>3, <1>5, <2>1 DEF SlipInv
  <2> QED
    BY <2>3, <2>5, <2>6, <2>7 DEF SubscriberInv
<1>7. CASE ~ IsRun(id) /\ UNCHANGED <<sub, handled>>
  <2>0. id \notin RunIds
    BY <1>7 DEF RunIds
  <2>1. RunIds' = RunIds /\ TakenIds' = TakenIds /\ ReplayedIds' = ReplayedIds
    BY <1>0, <1>7 DEF RunIds, TakenIds, ReplayedIds, IsRun, Taken
  <2>2. ReplayInv' /\ ManifestInv'
    BY <1>0, <1>7, <2>1 DEF ReplayInv, ManifestInv, Pending
  <2>3. TakenInv'
    <3>1. \A k \in 1 .. Len(sent) : k < p => k < p + 1
      BY <1>2
    <3> QED
      BY <1>0, <1>2, <1>7, <2>1, <3>1 DEF TakenInv, Taken
  <2>4. SlipInv'
    BY <1>0, <1>2, <1>3, <1>5, <1>7, <2>0, <2>1 DEF SlipInv
  <2> QED
    BY <2>2, <2>3, <2>4 DEF SubscriberInv
<1> QED
  BY <1>6, <1>7 DEF RunsReceive

\* A step that leaves the table, what was taken up and the channel alone.
LEMMA SubMoves ==
  ASSUME TypeOK, SubscriberInv, UNCHANGED <<rows, handled, sent, manifests>>,
         next["runs"] <= next'["runs"], next'["runs"] \in Nat,
         count'.restarts = count.restarts,
         sub.at \notin {"attempt", "write"}, sub'.at \notin {"attempt", "write"},
         SubOK(sub', RunIds, TakenIds, ReplayedIds),
         \/ sub'.at = "query" \/ sub'.full \/ gaveUp'
         \/ RunIds \subseteq TakenIds \cup sub'.page
  PROVE  SubscriberInv'
<1>0. ReplayInv /\ TakenInv /\ ManifestInv
  BY DEF SubscriberInv
<1>1. RunIds' = RunIds /\ TakenIds' = TakenIds /\ ReplayedIds' = ReplayedIds
  BY DEF RunIds, TakenIds, ReplayedIds, IsRun, Taken
<1>2. ReplayInv'
  BY <1>1 DEF ReplayInv
<1>3. TakenInv'
  <2>1. next["runs"] \in Nat /\ Len(sent) \in Nat
    BY DEF TypeOK, Receivers
  <2>2. \A k \in 1 .. Len(sent) : k < next["runs"] => k < next'["runs"]
    BY <2>1
  <2> QED
    BY <1>0, <1>1, <2>2 DEF TakenInv, Taken
<1>4. ManifestInv'
  BY <1>0 DEF ManifestInv, Pending
<1>5. SlipInv'
  BY <1>1 DEF SlipInv
<1> QED
  BY <1>2, <1>3, <1>4, <1>5 DEF SubscriberInv

LEMMA LaggedKeeps ==
  ASSUME TypeOK, SubscriberInv, RunsLagged
  PROVE  SubscriberInv'
<1>1. ReplayInv /\ sub.at = "recv" /\ UNCHANGED <<rows, handled, sent, manifests, count>>
      /\ sub' = [sub EXCEPT !.at = "query", !.mode = "replay"]
  BY DEF SubscriberInv, RunsLagged, InLoop, table
<1>2. sub \in SubState(Len(rows))
  BY RunIdsFacts
<1>3. next["runs"] \in Nat /\ Len(sent) \in Nat /\ next'["runs"] = Oldest
      /\ next["runs"] < Oldest /\ RingSize \in Nat
  BY DeliveryAssumption DEF RunsLagged, CatchUp, Lagging, TypeOK, Receivers
<1>4. Oldest \in Nat
  BY <1>3 DEF Oldest
<1>5. /\ sub'.at = "query" /\ sub'.mode = "replay" /\ sub'.page = sub.page
      /\ sub'.full = sub.full /\ sub'.cursor = sub.cursor
  BY <1>1, <1>2 DEF SubState
<1>6. SubOK(sub', RunIds, TakenIds, ReplayedIds)
  BY <1>1, <1>5 DEF ReplayInv, SubOK, FromPage, InHand
<1> QED
  BY <1>1, <1>3, <1>4, <1>5, <1>6, SubMoves

LEMMA QueryKeeps ==
  ASSUME TypeOK, SubscriberInv, RunsQuery
  PROVE  SubscriberInv'
<1>0. /\ ReplayInv /\ sub.at = "query"
      /\ UNCHANGED <<rows, manifests, sent, next, handled, gaveUp, count>>
  BY DEF SubscriberInv, RunsQuery, table, bus
<1>1. /\ Len(rows) \in Nat /\ RunIds \in SUBSET (1 .. Len(rows))
      /\ sub \in SubState(Len(rows)) /\ SubFields(sub, Len(rows))
  BY RunIdsFacts
<1>2. RunsAfter(sub.cursor) = {i \in RunIds : i > sub.cursor}
  BY DEF RunsAfter, RunIds, TypeOK
<1>3. PICK page \in SUBSET RunsAfter(sub.cursor) :
        /\ IsFirstPage(page, RunsAfter(sub.cursor))
        /\ sub' = NextRow([sub EXCEPT !.page = page, !.full = (Cardinality(page) = PageSize)])
  BY DEF RunsQuery
<1> DEFINE full == Cardinality(page) = PageSize
           v == [sub EXCEPT !.page = page, !.full = full]
<1>4. \A i \in page, j \in {i \in RunIds : i > sub.cursor} \ page : i < j
  BY <1>2, <1>3 DEF IsFirstPage
<1>5. SubOK(sub', RunIds, TakenIds, ReplayedIds)
  <2>1. full \in BOOLEAN
    OBVIOUS
  <2>2. page \subseteq {i \in RunIds : i > sub.cursor}
    BY <1>2
  <2>3. sub' = NextRow([sub EXCEPT !.page = page, !.full = full])
    BY <1>3
  <2> HIDE DEF full
  <2>4. SubOK(NextRow([sub EXCEPT !.page = page, !.full = full]), RunIds, TakenIds, ReplayedIds)
    BY <1>0, <1>1, <1>4, <2>1, <2>2, SubQuery DEF ReplayInv
  <2> QED
    BY <2>3, <2>4
<1>6. full \/ page = RunsAfter(sub.cursor)
  <2>1. IsFiniteSet(page)
    <3>1. IsFiniteSet(1 .. Len(rows))
      BY <1>1, FS_Interval
    <3>2. page \subseteq 1 .. Len(rows)
      BY <1>1, <1>2
    <3> QED
      BY <3>1, <3>2, FS_Subset
  <2>2. Cardinality(page) \in Nat /\ PageSize \in Nat
    BY <2>1, FS_CardinalityType, DeliveryAssumption
  <2>3. /\ Cardinality(page) <= PageSize
        /\ Cardinality(page) < PageSize => page = RunsAfter(sub.cursor)
    BY <1>3 DEF IsFirstPage
  <2> QED
    BY <2>2, <2>3
<1>7. v.page = page /\ v.full = full /\ v.cursor = sub.cursor
  BY <1>1 DEF SubState
<1>8. /\ sub'.at \notin {"attempt", "write"}
      /\ sub'.at = "query" \/ sub'.full \/ sub'.page = RunsAfter(sub.cursor)
  <2>0. sub' = NextRow(v)
    BY <1>3
  <2>1. DOMAIN v = {"at", "mode", "cursor", "row", "page", "full"}
    BY <1>1 DEF SubState
  <2> HIDE DEF v
  <2>2. CASE v.page # {}
    <3>1. sub' = [v EXCEPT !.at = "row", !.row = 0]
      BY <2>0, <2>2 DEF NextRow
    <3>2. sub'.at = "row" /\ sub'.page = v.page /\ sub'.full = v.full
      BY <2>1, <3>1
    <3> QED
      BY <1>6, <1>7, <3>2
  <2>3. CASE v.page = {} /\ v.full
    <3>1. sub' = [v EXCEPT !.at = "query", !.row = 0, !.full = FALSE]
      BY <2>0, <2>3 DEF NextRow
    <3> QED
      BY <2>1, <3>1
  <2>4. CASE v.page = {} /\ ~ v.full
    <3>1. sub'.at = "recv" /\ sub'.page = {}
      BY <2>0, <2>4 DEF NextRow, Back, SubIdle
    <3> QED
      BY <1>6, <1>7, <2>4, <3>1
  <2> QED
    BY <2>2, <2>3, <2>4
<1>9. RunIds \subseteq TakenIds \cup RunsAfter(sub.cursor)
  <2> SUFFICES ASSUME NEW i \in RunIds, ~ (i > sub.cursor) PROVE i \in TakenIds
    BY <1>2
  <2>1. i <= sub.cursor
    BY <1>1 DEF SubFields
  <2> QED
    BY <1>0, <2>1 DEF ReplayInv, SubOK
<1>10. next["runs"] \in Nat
  BY DEF TypeOK, Receivers
<1>11. \/ sub'.at = "query" \/ sub'.full \/ gaveUp'
       \/ RunIds \subseteq TakenIds \cup sub'.page
  BY <1>8, <1>9
<1> QED
  BY <1>0, <1>5, <1>8, <1>10, <1>11, SubMoves

LEMMA QueryFailsKeeps ==
  ASSUME TypeOK, SubscriberInv, RunsQueryFails
  PROVE  SubscriberInv'
<1>1. /\ ReplayInv /\ sub.at = "query" /\ sub' = Back(sub) /\ gaveUp'
      /\ UNCHANGED <<rows, manifests, sent, next, handled>>
  BY DEF SubscriberInv, RunsQueryFails, table, bus
<1>2. count'.restarts = count.restarts
  BY DEF RunsQueryFails, Fault, TypeOK, Bounded
<1>3. ~ FromPage(sub)
  BY <1>1 DEF FromPage, InHand
<1>4. SubOK(sub', RunIds, TakenIds, ReplayedIds)
  BY <1>1, <1>3, SubBack DEF ReplayInv
<1>5. sub'.at = "recv"
  BY <1>1 DEF Back, SubIdle
<1>6. next["runs"] \in Nat
  BY DEF TypeOK, Receivers
<1> QED
  BY <1>1, <1>2, <1>4, <1>5, <1>6, SubMoves

LEMMA RowKeeps ==
  ASSUME TypeOK, RowsInv, SubscriberInv, RunsRow
  PROVE  SubscriberInv'
<1>0. /\ ReplayInv /\ TakenInv /\ ManifestInv /\ SlipInv /\ sub.at = "row"
      /\ UNCHANGED <<rows, manifests, sent, next, gaveUp, count>>
  BY DEF SubscriberInv, RunsRow, table, bus
<1>1. /\ Len(rows) \in Nat /\ RunIds \in SUBSET (1 .. Len(rows))
      /\ \A i \in RunIds : rows[i] \in Launches
      /\ sub \in SubState(Len(rows))
      /\ \A l \in Launches : handled[l].live \in Nat /\ handled[l].replay \in Nat
  BY RunIdsFacts
<1>2. PICK id \in sub.page :
        /\ \A j \in sub.page : id <= j
        /\ TakeUp(id, "replay")
        /\ sub' = [sub EXCEPT !.at = "attempt", !.row = id, !.page = @ \ {id}]
  BY DEF RunsRow
<1> DEFINE r == rows[id]
<1>3. id \in RunIds /\ r \in Launches
  BY <1>0, <1>1 DEF ReplayInv, SubOK
<1>4. /\ RunIds' = RunIds /\ TakenIds' = TakenIds \cup {id}
      /\ ReplayedIds' = ReplayedIds \cup {id}
      /\ \A l \in Launches : l # r => handled'[l] = handled[l]
      /\ handled'[r].live = handled[r].live
      /\ handled'[r].replay = handled[r].replay + 1
  <2>1. /\ RunIds' = RunIds /\ TakenIds' = TakenIds \cup {id}
        /\ ReplayedIds' = IF "replay" = "replay" THEN ReplayedIds \cup {id} ELSE ReplayedIds
        /\ \A l \in Launches :
             /\ l # rows[id] => handled'[l] = handled[l]
             /\ l = rows[id] =>
                  /\ handled'[l].live = handled[l].live + (IF "replay" = "live" THEN 1 ELSE 0)
                  /\ handled'[l].replay = handled[l].replay + (IF "replay" = "replay" THEN 1 ELSE 0)
    BY <1>0, <1>2, <1>3, TookUp
  <2> QED
    BY <1>1, <1>3, <2>1
<1>5. /\ SubOK(sub', RunIds, TakenIds \cup {id}, ReplayedIds \cup {id})
      /\ id \notin ReplayedIds
  BY <1>0, <1>1, <1>2, SubRowTaken DEF ReplayInv
<1>6. ReplayInv'
  BY <1>4, <1>5 DEF ReplayInv
<1>7. sub'.at = "attempt" /\ sub'.row = id /\ sub'.page = sub.page \ {id} /\ sub'.full = sub.full
  BY <1>1, <1>2 DEF SubState
<1>8. handled[r].replay = 0
  BY <1>1, <1>3, <1>5 DEF ReplayedIds
<1>9. TakenInv'
  <2> SUFFICES ASSUME NEW l \in Launches
               PROVE  /\ Taken(l)' => \E i \in RunIds' : rows'[i] = l
                      /\ handled'[l].live > 0 =>
                           \E k \in 1 .. Len(sent') : k < next'["runs"] /\ rows'[sent'[k]] = l
                      /\ handled'[l].live <= 1 /\ handled'[l].replay <= 1
    BY DEF TakenInv
  <2>1. CASE l = r
    BY <1>0, <1>3, <1>4, <1>8, <2>1 DEF TakenInv
  <2>2. CASE l # r
    BY <1>0, <1>4, <2>2 DEF TakenInv, Taken
  <2> QED
    BY <2>1, <2>2
<1>10. ManifestInv'
  <2> SUFFICES ASSUME NEW l \in Launches
               PROVE  manifests'[l] + Pending(l)'
                        <= 2 * count'.restarts + handled'[l].live + handled'[l].replay
    BY DEF ManifestInv
  <2>1. Pending(l) = 0
    BY <1>0 DEF Pending
  <2>2. /\ manifests[l] \in Nat /\ count.restarts \in Nat
        /\ handled[l].live \in Nat /\ handled[l].replay \in Nat
    BY <1>1 DEF TypeOK, Bounded
  <2>3. manifests[l] <= 2 * count.restarts + handled[l].live + handled[l].replay
    BY <1>0, <2>1, <2>2 DEF ManifestInv
  <2>4. CASE l = r
    <3>1. Pending(l)' = 1
      BY <1>0, <1>7, <2>4 DEF Pending
    <3> QED
      BY <1>0, <1>4, <2>2, <2>3, <2>4, <3>1
  <2>5. CASE l # r
    <3>1. Pending(l)' = 0
      BY <1>0, <1>7, <2>5 DEF Pending
    <3> QED
      BY <1>0, <1>4, <2>2, <2>3, <2>5, <3>1
  <2> QED
    BY <2>4, <2>5
<1>11. SlipInv'
  <2>1. Lagging("runs")' = Lagging("runs")
    BY <1>0 DEF Lagging, Oldest
  <2>2. TakenIds' \cup sub'.page = TakenIds \cup sub.page
    BY <1>4, <1>7
  <2> QED
    BY <1>0, <1>4, <1>7, <2>1, <2>2 DEF SlipInv
<1> QED
  BY <1>6, <1>9, <1>10, <1>11 DEF SubscriberInv

\* A step of a write: the row in hand stays, or is done.
LEMMA WriteKeeps ==
  ASSUME TypeOK, SubscriberInv, InHand(sub), TableGrows,
         UNCHANGED <<handled, gaveUp, sent, next>>,
         count'.restarts = count.restarts,
         sub' \in SubState(Len(rows)),
         SubOK(sub', RunIds, TakenIds, ReplayedIds),
         sub'.page = sub.page,
         sub.full => sub'.full \/ sub'.at = "query",
         \A l \in Launches : manifests'[l] \in Nat /\ Pending(l)' \in Nat
           /\ manifests'[l] + Pending(l)' <= manifests[l] + Pending(l)
  PROVE  SubscriberInv'
<1>0. ReplayInv /\ TakenInv /\ ManifestInv /\ SlipInv
  BY DEF SubscriberInv
<1>1. /\ Len(rows) \in Nat /\ RunIds \in SUBSET (1 .. Len(rows))
      /\ \A k \in 1 .. Len(sent) : sent[k] \in 1 .. Len(rows)
      /\ \A l \in Launches : handled[l].live \in Nat /\ handled[l].replay \in Nat
  BY RunIdsFacts
<1>2. /\ \A i \in 1 .. Len(rows) : rows'[i] = rows[i]
      /\ RunIds \subseteq RunIds'
      /\ \A i \in RunIds' : i \in RunIds \/ (i \in Nat /\ Len(rows) < i)
      /\ TakenIds' = TakenIds /\ ReplayedIds' = ReplayedIds
  BY <1>0, RunIdsGrow
<1>3. ReplayInv'
  <2>1. SubOK(sub', RunIds', TakenIds, ReplayedIds)
    BY <1>1, <1>2, SubRunsGrow
  <2> QED
    BY <1>2, <2>1 DEF ReplayInv
<1>4. TakenInv'
  <2> SUFFICES ASSUME NEW l \in Launches
               PROVE  /\ Taken(l)' => \E i \in RunIds' : rows'[i] = l
                      /\ handled'[l].live > 0 =>
                           \E k \in 1 .. Len(sent') : k < next'["runs"] /\ rows'[sent'[k]] = l
                      /\ handled'[l].live <= 1 /\ handled'[l].replay <= 1
    BY DEF TakenInv
  <2>1. Taken(l) => \E i \in RunIds' : rows'[i] = l
    BY <1>0, <1>1, <1>2 DEF TakenInv
  <2>2. ASSUME NEW k \in 1 .. Len(sent), rows[sent[k]] = l
        PROVE  rows'[sent'[k]] = l
    BY <1>1, <1>2, <2>2
  <2> QED
    BY <1>0, <2>1, <2>2 DEF TakenInv, Taken
<1>5. ManifestInv'
  <2> SUFFICES ASSUME NEW l \in Launches
               PROVE  manifests'[l] + Pending(l)'
                        <= 2 * count'.restarts + handled'[l].live + handled'[l].replay
    BY DEF ManifestInv
  <2>1. manifests[l] \in Nat /\ Pending(l) \in Nat /\ count.restarts \in Nat
    BY DEF TypeOK, Bounded, Pending
  <2>2. /\ manifests'[l] \in Nat /\ Pending(l)' \in Nat
        /\ manifests'[l] + Pending(l)' <= manifests[l] + Pending(l)
    OBVIOUS
  <2>3. manifests[l] + Pending(l) <= 2 * count.restarts + handled[l].live + handled[l].replay
    BY <1>0 DEF ManifestInv
  <2> DEFINE after == manifests'[l] + Pending(l)'
             before == manifests[l] + Pending(l)
             bound == 2 * count.restarts + handled[l].live + handled[l].replay
  <2>4. after <= before /\ before <= bound
    BY <2>2, <2>3
  <2>5. after \in Nat /\ before \in Nat /\ bound \in Nat
    <3>1. after \in Nat
      BY <2>2
    <3>2. before \in Nat
      BY <2>1
    <3>3. handled[l].live \in Nat /\ handled[l].replay \in Nat /\ count.restarts \in Nat
      BY <1>1, <2>1
    <3>4. bound \in Nat
      <4>1. \A x, y, z \in Nat : 2 * x + y + z \in Nat
        OBVIOUS
      <4> QED
        BY <3>3, <4>1
    <3> QED
      BY <3>1, <3>2, <3>4
  <2>6. bound' = bound
    OBVIOUS
  <2> HIDE DEF after, before, bound
  <2>7. after <= bound
    BY <2>4, <2>5
  <2> QED
    BY <2>6, <2>7 DEF after, bound
<1>6. SlipInv'
  <2>1. Lagging("runs")' = Lagging("runs")
    BY DEF Lagging, Oldest
  <2>2. \A k \in 1 .. Len(sent) : sent[k] \in RunIds' => sent[k] \in RunIds
    BY <1>1, <1>2
  <2>3. sub.at # "query"
    BY DEF InHand
  <2> QED
    BY <1>0, <1>2, <2>1, <2>2, <2>3 DEF SlipInv
<1> QED
  BY <1>3, <1>4, <1>5, <1>6 DEF SubscriberInv

LEMMA DoneFacts ==
  ASSUME TypeOK, ReplayInv, InHand(sub), Done
  PROVE  /\ sub' \in SubState(Len(rows))
         /\ SubOK(sub', RunIds, TakenIds, ReplayedIds)
         /\ sub'.page = sub.page
         /\ sub.full => sub'.full \/ sub'.at = "query"
         /\ sub'.at \notin {"attempt", "write"}
<1>1. /\ Len(rows) \in Nat /\ RunIds \in SUBSET (1 .. Len(rows))
      /\ sub \in SubState(Len(rows)) /\ ReplayedIds \in SUBSET RunIds
  BY RunIdsFacts
<1>2. sub' \in SubState(Len(rows))
  BY <1>1, DoneTypes
<1>3. SubOK(sub', RunIds, TakenIds, ReplayedIds)
  BY <1>1, SubDone DEF ReplayInv, Done
<1>4. /\ sub'.page = sub.page
      /\ sub.full => sub'.full \/ sub'.at = "query"
      /\ sub'.at \notin {"attempt", "write"}
  <2>1. CASE sub.mode = "live"
    <3>1. sub' = Back(sub)
      BY <2>1 DEF Done
    <3>2. sub.page = {} /\ ~ sub.full
      BY <2>1 DEF ReplayInv, SubOK
    <3> QED
      BY <3>1, <3>2 DEF Back, SubIdle
  <2>2. CASE sub.mode # "live"
    <3> DEFINE v == [sub EXCEPT !.cursor = sub.row]
    <3>1. sub' = NextRow(v)
      BY <2>2 DEF Done
    <3>2. v.page = sub.page /\ v.full = sub.full
          /\ DOMAIN v = {"at", "mode", "cursor", "row", "page", "full"}
      BY <1>1 DEF SubState
    <3> HIDE DEF v
    <3>3. CASE v.page # {}
      <4>1. sub' = [v EXCEPT !.at = "row", !.row = 0]
        BY <3>1, <3>3 DEF NextRow
      <4> QED
        BY <3>2, <4>1
    <3>4. CASE v.page = {} /\ v.full
      <4>1. sub' = [v EXCEPT !.at = "query", !.row = 0, !.full = FALSE]
        BY <3>1, <3>4 DEF NextRow
      <4> QED
        BY <3>2, <3>4, <4>1
    <3>5. CASE v.page = {} /\ ~ v.full
      <4>1. sub' = Back(v)
        BY <3>1, <3>5 DEF NextRow
      <4> QED
        BY <3>2, <3>5, <4>1 DEF Back, SubIdle
    <3> QED
      BY <3>3, <3>4, <3>5
  <2> QED
    BY <2>1, <2>2
<1> QED
  BY <1>2, <1>3, <1>4

\* What the steps of a write have to show about the manifests.
LEMMA PendingFacts ==
  ASSUME TypeOK, ReplayInv, InHand(sub), TableGrows
  PROVE  /\ rows[sub.row] \in Launches /\ sub.row \in 1 .. Len(rows)
         /\ rows'[sub.row] = rows[sub.row]
         /\ \A l \in Launches : manifests[l] \in Nat /\ Pending(l) \in {0, 1}
         /\ \A l \in Launches : sub.at \in {"attempt", "write"} =>
              Pending(l) = IF l = rows[sub.row] THEN 1 ELSE 0
<1>1. sub.row \in RunIds
  BY RunIdsFacts DEF ReplayInv, SubOK
<1>2. sub.row \in 1 .. Len(rows) /\ rows[sub.row] \in Launches
  BY <1>1 DEF RunIds, IsRun
<1>3. rows'[sub.row] = rows[sub.row]
  <2>1. CASE rows' = rows
    BY <2>1
  <2>2. ASSUME NEW topic \in Launches \cup {Other}, rows' = Append(rows, topic)
        PROVE  rows'[sub.row] = rows[sub.row]
    BY <1>2, <2>2, AppendedRow
  <2> QED
    BY <2>1, <2>2 DEF TableGrows
<1>4. \A l \in Launches : manifests[l] \in Nat /\ Pending(l) \in {0, 1}
  BY DEF TypeOK, Pending
<1>5. \A l \in Launches : sub.at \in {"attempt", "write"} =>
        Pending(l) = IF l = rows[sub.row] THEN 1 ELSE 0
  BY DEF Pending
<1> QED
  BY <1>2, <1>3, <1>4, <1>5

LEMMA WriteStepsKeep ==
  ASSUME TypeOK, SubscriberInv, WriteAttempt \/ WriteManifest \/ WriteTell
  PROVE  SubscriberInv'
<1>0. /\ ReplayInv /\ InHand(sub) /\ UNCHANGED <<handled, gaveUp, sent, next>>
      /\ sub \in SubState(Len(rows)) /\ Len(rows) \in Nat
      /\ count \in Bounded /\ "runs" \in Tasks /\ Other \notin Launches
  BY DeliveryAssumption
  DEF SubscriberInv, WriteAttempt, WriteManifest, WriteTell, InHand, bus, TypeOK, Tasks
<1>1. TableGrows
  <2>1. rows' = rows \/ rows' = Append(rows, Other)
    BY <1>0, PublishedRow DEF WriteAttempt, WriteManifest, WriteTell, table
  <2> QED
    BY <1>0, <2>1 DEF TableGrows
<1>2. count'.restarts = count.restarts
  <2>1. ASSUME Fault PROVE count'.restarts = count.restarts
    BY <1>0, <2>1 DEF Fault, Bounded
  <2> QED
    BY <2>1 DEF WriteAttempt, WriteManifest, WriteTell, Publish
<1>3. /\ rows'[sub.row] = rows[sub.row]
      /\ \A l \in Launches : manifests[l] \in Nat /\ Pending(l) \in {0, 1}
      /\ \A l \in Launches : sub.at \in {"attempt", "write"} =>
           Pending(l) = IF l = rows[sub.row] THEN 1 ELSE 0
  BY <1>0, <1>1, PendingFacts
<1>4. CASE Done /\ UNCHANGED manifests
  <2>1. /\ sub' \in SubState(Len(rows))
        /\ SubOK(sub', RunIds, TakenIds, ReplayedIds)
        /\ sub'.page = sub.page
        /\ sub.full => sub'.full \/ sub'.at = "query"
        /\ sub'.at \notin {"attempt", "write"}
    BY <1>0, <1>4, DoneFacts
  <2>2. ASSUME NEW l \in Launches
        PROVE  /\ manifests'[l] \in Nat /\ Pending(l)' \in Nat
               /\ manifests'[l] + Pending(l)' <= manifests[l] + Pending(l)
    <3>1. Pending(l)' = 0
      BY <2>1 DEF Pending
    <3> QED
      BY <1>3, <1>4, <3>1
  <2> QED
    BY <1>0, <1>1, <1>2, <2>1, <2>2, WriteKeeps
<1>5. ASSUME NEW at \in {"write", "tell"}, sub' = [sub EXCEPT !.at = at],
             \A l \in Launches : manifests'[l] \in Nat /\ Pending(l)' \in Nat
               /\ manifests'[l] + Pending(l)' <= manifests[l] + Pending(l)
      PROVE  SubscriberInv'
  <2>1. SubOK(sub', RunIds, TakenIds, ReplayedIds)
    BY <1>0, <1>5, SubAt DEF ReplayInv
  <2>2. sub' \in SubState(Len(rows)) /\ sub'.page = sub.page /\ sub'.full = sub.full
    BY <1>0, <1>5 DEF SubState
  <2> QED
    BY <1>0, <1>1, <1>2, <1>5, <2>1, <2>2, WriteKeeps
<1>6. CASE WriteAttempt
  <2>1. sub.at = "attempt" /\ UNCHANGED manifests
    BY <1>6 DEF WriteAttempt
  <2>2. CASE sub' = [sub EXCEPT !.at = "write"]
    <3>1. sub'.at = "write" /\ sub'.row = sub.row
      BY <1>0, <2>2 DEF SubState
    <3>2. ASSUME NEW l \in Launches PROVE Pending(l)' = Pending(l)
      BY <1>3, <2>1, <3>1 DEF Pending
    <3>3. ASSUME NEW l \in Launches
          PROVE  /\ manifests'[l] \in Nat /\ Pending(l)' \in Nat
                 /\ manifests'[l] + Pending(l)' <= manifests[l] + Pending(l)
      BY <1>3, <2>1, <3>2
    <3> QED
      BY <1>5, <2>2, <3>3
  <2> QED
    BY <1>4, <1>6, <2>1, <2>2 DEF WriteAttempt
<1>7. CASE WriteManifest
  <2>1. sub.at = "write"
    BY <1>7 DEF WriteManifest
  <2>2. CASE sub' = [sub EXCEPT !.at = "tell"]
    <3>1. sub'.at = "tell"
      BY <1>0, <2>2 DEF SubState
    <3>2. \/ manifests' = [manifests EXCEPT ![rows[sub.row]] = @ + 1]
          \/ manifests' = manifests
      BY <1>7 DEF WriteManifest, Done
    <3>3. ASSUME NEW l \in Launches
          PROVE  /\ manifests'[l] \in Nat /\ Pending(l)' \in Nat
                 /\ manifests'[l] + Pending(l)' <= manifests[l] + Pending(l)
      <4>1. Pending(l)' = 0
        BY <3>1 DEF Pending
      <4>2. manifests \in [Launches -> Nat]
        BY DEF TypeOK
      <4>3. CASE l = rows[sub.row]
        <5>1. Pending(l) = 1
          BY <1>3, <2>1, <4>3
        <5> QED
          BY <1>3, <3>2, <4>1, <4>2, <4>3, <5>1
      <4>4. CASE l # rows[sub.row]
        <5>1. manifests'[l] = manifests[l]
          BY <3>2, <4>2, <4>4
        <5> QED
          BY <1>3, <4>1, <5>1
      <4> QED
        BY <4>3, <4>4
    <3> QED
      BY <1>5, <2>2, <3>3
  <2> QED
    BY <1>4, <1>7, <2>2 DEF WriteManifest
<1>8. CASE WriteTell
  BY <1>4, <1>8 DEF WriteTell
<1> QED
  BY <1>6, <1>7, <1>8

LEMMA RestartKeeps ==
  ASSUME TypeOK, SubscriberInv, Restart
  PROVE  SubscriberInv'
<1>1. /\ UNCHANGED <<rows, manifests>> /\ Len(sent') = 0
      /\ \A l \in Launches : handled'[l].live = 0 /\ handled'[l].replay = 0
      /\ sub'.at = "recv" /\ sub'.mode = "live" /\ sub'.page = {} /\ ~ sub'.full
      /\ sub'.cursor = 0
  <2>1. /\ UNCHANGED <<rows, manifests>> /\ sent' = <<>> /\ handled' = Untouched
        /\ sub' = SubIdle
    BY DEF Restart
  <2>2. Len(sent') = 0
    BY <2>1
  <2>3. \A l \in Launches : handled'[l].live = 0 /\ handled'[l].replay = 0
    BY <2>1 DEF Untouched
  <2> QED
    BY <2>1, <2>2, <2>3 DEF SubIdle
<1>2. RunIds \subseteq 1 .. Len(rows) /\ \A i \in RunIds : rows[i] \in Launches
  BY RunIdsFacts
<1>3. RunIds' = RunIds
  BY <1>1 DEF RunIds, IsRun
<1>4. TakenIds' = {} /\ ReplayedIds' = {}
  <2>1. \A i \in RunIds : handled'[rows'[i]].live = 0 /\ handled'[rows'[i]].replay = 0
    BY <1>1, <1>2
  <2>2. \A i \in RunIds : ~ Taken(rows[i])'
    BY <2>1 DEF Taken
  <2> QED
    BY <1>3, <2>1, <2>2 DEF TakenIds, ReplayedIds
<1>5. ReplayInv'
  <2>1. Len(rows) \in Nat /\ \A i \in RunIds : ~ (i <= 0)
    BY <1>2, RunIdsFacts
  <2> QED
    BY <1>1, <1>3, <1>4, <2>1 DEF ReplayInv, SubOK, FromPage, InHand
<1>6. TakenInv'
  BY <1>1 DEF TakenInv, Taken
<1>7. ManifestInv'
  <2> SUFFICES ASSUME NEW l \in Launches
               PROVE  manifests'[l] + Pending(l)'
                        <= 2 * count'.restarts + handled'[l].live + handled'[l].replay
    BY DEF ManifestInv
  <2>1. /\ manifests[l] \in Nat /\ Pending(l) \in Nat
        /\ handled[l].live \in Nat /\ handled[l].replay \in Nat
    BY RunIdsFacts DEF TypeOK, Pending
  <2>2. count.restarts \in Nat /\ count'.restarts = count.restarts + 1
    BY DEF TypeOK, Bounded, Restart
  <2>3. /\ manifests[l] + Pending(l) <= 2 * count.restarts + handled[l].live + handled[l].replay
        /\ handled[l].live <= 1 /\ handled[l].replay <= 1
    BY DEF SubscriberInv, ManifestInv, TakenInv
  <2>4. \A m, p, c, v, w \in Nat :
          m + p <= 2 * c + v + w /\ v <= 1 /\ w <= 1 => m <= 2 * (c + 1)
    OBVIOUS
  <2>5. manifests[l] <= 2 * (count.restarts + 1)
    BY <2>1, <2>2, <2>3, <2>4
  <2>6. manifests'[l] + Pending(l)' = manifests[l]
    BY <1>1, <2>1 DEF Pending
  <2>7. 2 * count'.restarts + handled'[l].live + handled'[l].replay = 2 * (count.restarts + 1)
    <3>1. \A c \in Nat : 2 * (c + 1) + 0 + 0 = 2 * (c + 1)
      OBVIOUS
    <3> QED
      BY <1>1, <2>2, <3>1
  <2> QED
    BY <2>5, <2>6, <2>7
<1>8. SlipInv'
  BY <1>1 DEF SlipInv
<1> QED
  BY <1>5, <1>6, <1>7, <1>8 DEF SubscriberInv

-----------------------------------------------------------------------------
(* Theorems about the subscriber.                                          *)

DeliveryInv == RowsInv /\ ChannelInv /\ SubscriberInv

LEMMA DeliveryInvHolds == Spec => [](TypeOK /\ DeliveryInv)
<1>1. Init => DeliveryInv
  <2> SUFFICES ASSUME Init PROVE DeliveryInv
    OBVIOUS
  <2>1. /\ Len(rows) = 0 /\ Len(sent) = 0 /\ DOMAIN rows = {}
        /\ \A l \in Launches : handled[l].live = 0 /\ handled[l].replay = 0 /\ manifests[l] = 0
        /\ sub = SubIdle /\ count.restarts = 0
        /\ \A t \in Tasks : outgoing[t] = 0
        /\ \A r \in Receivers : next[r] = 1
        /\ \A s \in Sweepers : sweep[s].at = "idle"
    BY DEF Init, ProcessInit, Untouched, SweepIdle
  <2>2. RowsInv
    BY <2>1 DEF RowsInv, LaunchAnnouncedOnce
  <2>3. ChannelInv
    BY <2>1 DEF ChannelInv
  <2>4. RunIds = {} /\ TakenIds = {} /\ ReplayedIds = {}
    BY <2>1 DEF RunIds, TakenIds, ReplayedIds
  <2>5. ReplayInv
    BY <2>1, <2>4 DEF ReplayInv, SubOK, SubIdle, FromPage, InHand
  <2>6. TakenInv
    BY <2>1 DEF TakenInv, Taken
  <2>7. ManifestInv
    BY <2>1 DEF ManifestInv, Pending, SubIdle
  <2>8. SlipInv
    BY <2>1 DEF SlipInv
  <2> QED
    BY <2>2, <2>3, <2>5, <2>6, <2>7, <2>8 DEF DeliveryInv, SubscriberInv
<1>2. TypeOK /\ DeliveryInv /\ [Next]_deliveryVars => DeliveryInv'
  <2> SUFFICES ASSUME TypeOK, RowsInv, ChannelInv, SubscriberInv, [Next]_deliveryVars
               PROVE  DeliveryInv'
    BY DEF DeliveryInv
  <2>1. RowsInv' /\ ChannelInv'
    BY RowsInvStep, ChannelInvStep
  <2>2. ASSUME \/ \E t \in Tasks : Send(t)
               \/ FlushRow
               \/ \E s \in Sweepers : SweepList(s) \/ Sweep(s) \/ SweepFails(s)
               \/ Log
               \/ UNCHANGED deliveryVars
        PROVE  SubscriberInv'
    BY <2>2, ElsewhereSteps, ElsewhereKeeps
  <2>3. ASSUME Runs PROVE SubscriberInv'
    BY <2>3, ReceiveKeeps, LaggedKeeps, QueryKeeps, RowKeeps, WriteStepsKeep DEF Runs
  <2>4. ASSUME RunsQueryFails PROVE SubscriberInv'
    BY <2>4, QueryFailsKeeps
  <2>5. ASSUME Restart PROVE SubscriberInv'
    BY <2>5, RestartKeeps
  <2>6. SubscriberInv'
    BY <2>2, <2>3, <2>4, <2>5 DEF Next
  <2> QED
    BY <2>1, <2>6 DEF DeliveryInv
<1> QED
  BY <1>1, <1>2, DeliveryTypeCorrect, PTL DEF Spec

(* The subscriber's cursor: a run that was broadcast and not taken up is   *)
(* still in the ring, in a page or behind a cursor that will be read from, *)
(* or a query has failed and it is behind the cursor.                      *)
THEOREM NoBroadcastRunSlips == Spec => []NoRunSlips
<1>1. TypeOK /\ DeliveryInv => NoRunSlips
  <2> SUFFICES ASSUME TypeOK, ReplayInv, SlipInv, NEW k \in DOMAIN sent,
                      IsRun(sent[k]), ~ Taken(rows[sent[k]])
               PROVE  Ahead(sent[k]) \/ (gaveUp /\ sent[k] > sub.cursor)
    BY DEF NoRunSlips, DeliveryInv, SubscriberInv
  <2>1. /\ k \in 1 .. Len(sent) /\ sent[k] \in 1 .. Len(rows) /\ next["runs"] \in Nat
        /\ SubFields(sub, Len(rows))
    BY RunIdsFacts DEF TypeOK, Receivers
  <2>2. sent[k] \in RunIds /\ sent[k] \notin TakenIds
    BY <2>1 DEF RunIds, TakenIds
  <2>3. sent[k] > sub.cursor
    <3>1. ~ (sent[k] <= sub.cursor)
      BY <2>2 DEF ReplayInv, SubOK
    <3> QED
      BY <2>1, <3>1 DEF SubFields
  <2>4. CASE k >= next["runs"]
    BY <2>4 DEF Ahead
  <2>5. CASE k < next["runs"]
    <3>1. \/ sub.at = "query" \/ sub.full \/ gaveUp \/ Lagging("runs")
          \/ sent[k] \in sub.page
      BY <2>1, <2>2, <2>5 DEF SlipInv
    <3> QED
      BY <2>3, <3>1 DEF Ahead
  <2> QED
    BY <2>1, <2>4, <2>5
<1> QED
  BY <1>1, DeliveryInvHolds, PTL

(* A process takes a run up at most once from the ring and once from the   *)
(* table, so a run has at most two manifests for each process.             *)
THEOREM ManifestsBounded == Spec => []DuplicatesBounded
<1>1. TypeOK /\ DeliveryInv => DuplicatesBounded
  <2> SUFFICES ASSUME TypeOK, TakenInv, ManifestInv, NEW l \in Launches
               PROVE  /\ handled[l].live <= 1 /\ handled[l].replay <= 1
                      /\ manifests[l] <= 2 * (count.restarts + 1)
    BY DEF DuplicatesBounded, DeliveryInv, SubscriberInv
  <2>1. /\ manifests[l] \in Nat /\ Pending(l) \in Nat /\ count.restarts \in Nat
        /\ handled[l].live \in Nat /\ handled[l].replay \in Nat
    BY RunIdsFacts DEF TypeOK, Bounded, Pending
  <2>2. /\ manifests[l] + Pending(l) <= 2 * count.restarts + handled[l].live + handled[l].replay
        /\ handled[l].live <= 1 /\ handled[l].replay <= 1
    BY DEF ManifestInv, TakenInv
  <2>3. \A m, p, c, v, w \in Nat :
          m + p <= 2 * c + v + w /\ v <= 1 /\ w <= 1 => m <= 2 * (c + 1)
    OBVIOUS
  <2> QED
    BY <2>1, <2>2, <2>3
<1> QED
  BY <1>1, DeliveryInvHolds, PTL

-----------------------------------------------------------------------------
(* The subscriber comes to rest.                                           *)

\* The rows inserted and not yet sent, those it has still to read, and the runs
\* a replay would still take up.
Unsent == {id \in 1 .. Len(rows) : \E t \in Tasks : outgoing[t] = id}

Unread ==
  {id \in 1 .. Len(rows) :
     \/ \E t \in Tasks : outgoing[t] = id
     \/ \E k \in 1 .. Len(sent) : next["runs"] <= k /\ sent[k] = id}

UnreadRuns == {id \in Unread : IsRun(id)}

Behind == {id \in RunIds : sub.cursor < id /\ ~ (FromPage(sub) /\ id = sub.row)}

\* What the subscriber has to do with what it has in hand.
InTurn ==
  CASE sub.at = "recv"    -> 0
    [] sub.at = "row"     -> 1
    [] sub.at = "query"   -> 2
    [] sub.at = "tell"    -> 7
    [] sub.at = "write"   -> 8
    [] sub.at = "attempt" -> 13

\* A message costs more than the query after a lag, a run more than the two events
\* that its manifest puts on the bus, and a row that is not sent a step more.
ToDo == InTurn + Cardinality(Unsent) + 3 * Cardinality(Unread)
          + 11 * Cardinality(UnreadRuns) + 13 * Cardinality(Behind)

ComesToRest ==
  /\ Runs \/ RunsQueryFails \/ (\E t \in Tasks : Send(t)) => ToDo' < ToDo
  /\ ToDo' > ToDo => FlushRow \/ (\E s \in Sweepers : SweepPublish(s)) \/ Restart

\* All of it is counted in natural numbers.
LEMMA ToDoCounts ==
  ASSUME TypeOK
  PROVE  /\ IsFiniteSet(Unsent) /\ Cardinality(Unsent) \in Nat
         /\ IsFiniteSet(Unread) /\ Cardinality(Unread) \in Nat
         /\ IsFiniteSet(UnreadRuns) /\ Cardinality(UnreadRuns) \in Nat
         /\ IsFiniteSet(Behind) /\ Cardinality(Behind) \in Nat
         /\ InTurn \in Nat
<1>1. Len(rows) \in Nat
  BY DEF TypeOK
<1>2. IsFiniteSet(1 .. Len(rows))
  BY <1>1, FS_Interval
<1>3. /\ Unsent \in SUBSET (1 .. Len(rows)) /\ Unread \in SUBSET (1 .. Len(rows))
      /\ UnreadRuns \in SUBSET (1 .. Len(rows)) /\ Behind \in SUBSET (1 .. Len(rows))
  BY DEF Unsent, Unread, UnreadRuns, Behind, RunIds
<1>4. \A S \in SUBSET (1 .. Len(rows)) : IsFiniteSet(S) /\ Cardinality(S) \in Nat
  BY <1>2, FS_Subset, FS_CardinalityType
<1>5. InTurn \in Nat
  <2>1. sub.at \in {"recv", "query", "row", "attempt", "write", "tell"}
    BY <1>1, SubStateFields DEF TypeOK, SubFields
  <2> QED
    BY <2>1 DEF InTurn
<1> QED
  BY <1>3, <1>4, <1>5

\* One element more or less.
LEMMA OneLess ==
  ASSUME NEW S, IsFiniteSet(S), NEW x \in S, NEW T, T \subseteq S \ {x}
  PROVE  Cardinality(T) <= Cardinality(S) - 1
<1>1. /\ IsFiniteSet(S \ {x})
      /\ Cardinality(S \ {x}) = Cardinality(S) - 1
  BY FS_RemoveElement
<1>2. Cardinality(T) <= Cardinality(S \ {x})
  BY <1>1, FS_Subset
<1> QED
  BY <1>1, <1>2

\* The subscriber inserts an event of another topic: one more to send and to read.
LEMMA OwnEvent ==
  ASSUME TypeOK, TypeOK', DeliveryInv, Publish("runs", Other), UNCHANGED bus
  PROVE  /\ Cardinality(Unsent') <= Cardinality(Unsent) + 1
         /\ Cardinality(Unread') <= Cardinality(Unread) + 1
         /\ UnreadRuns' = UnreadRuns /\ RunIds' = RunIds
<1>0. "runs" \in Tasks
  BY DEF Tasks
<1>1. CASE UNCHANGED table
  <2>1. rows' = rows /\ outgoing' = outgoing /\ sent' = sent /\ next' = next
    BY <1>1 DEF table, bus
  <2>2. Unsent' = Unsent /\ Unread' = Unread /\ UnreadRuns' = UnreadRuns /\ RunIds' = RunIds
    BY <2>1 DEF Unsent, Unread, UnreadRuns, RunIds, IsRun
  <2> QED
    BY <2>2, ToDoCounts
<1>2. CASE Insert("runs", Other)
  <2> DEFINE new == Len(rows) + 1
  <2>1. /\ Len(rows) \in Nat /\ Len(rows') = new /\ rows'[new] = Other
        /\ \A i \in 1 .. Len(rows) : rows'[i] = rows[i]
        /\ \A i \in 1 .. Len(rows') : i \in 1 .. Len(rows) \/ i = new
    BY <1>2, AppendedRow DEF Insert
  <2>2. /\ sent' = sent /\ next' = next
        /\ outgoing["runs"] = 0 /\ outgoing'["runs"] = new
        /\ \A t \in Tasks : t # "runs" => outgoing'[t] = outgoing[t]
    BY <1>0, <1>2 DEF Insert, Free, bus, TypeOK
  <2> HIDE DEF new
  <2>3. \A i \in 1 .. Len(rows) :
          (\E t \in Tasks : outgoing'[t] = i) => \E t \in Tasks : outgoing[t] = i
    <3> SUFFICES ASSUME NEW i \in 1 .. Len(rows), NEW t \in Tasks, outgoing'[t] = i
                 PROVE  outgoing[t] = i
      OBVIOUS
    <3>1. i # new
      BY <2>1 DEF new
    <3> QED
      BY <2>2, <3>1
  <2>4. Unsent' \subseteq Unsent \cup {new}
    BY <2>1, <2>3 DEF Unsent
  <2>5. Unread' \subseteq Unread \cup {new}
    BY <2>1, <2>2, <2>3 DEF Unread
  <2>6. RunIds' = RunIds
    <3>1. \A i \in 1 .. Len(rows) : i \in 1 .. Len(rows')
      BY <2>1 DEF new
    <3> QED
      BY <2>1, <3>1, DeliveryAssumption DEF RunIds, IsRun
  <2>7. UnreadRuns' = UnreadRuns
    <3>1. UnreadRuns = Unread \cap RunIds /\ UnreadRuns' = Unread' \cap RunIds'
      BY DEF UnreadRuns, RunIds, Unread
    <3>2. \A i \in 1 .. Len(rows) :
            (\E t \in Tasks : outgoing[t] = i) => \E t \in Tasks : outgoing'[t] = i
      BY <2>2
    <3>3. Unread \subseteq Unread'
      <4>1. \A i \in 1 .. Len(rows) : i \in 1 .. Len(rows')
        BY <2>1 DEF new
      <4> QED
        BY <2>2, <3>2, <4>1 DEF Unread
    <3>4. new \notin RunIds
      BY <2>1 DEF RunIds, new
    <3> QED
      BY <2>5, <2>6, <3>1, <3>3, <3>4
  <2>8. \A S, T : IsFiniteSet(S) /\ T \subseteq S \cup {new}
                    => Cardinality(T) <= Cardinality(S) + 1
    <3> SUFFICES ASSUME NEW S, NEW T, IsFiniteSet(S), T \subseteq S \cup {new}
                 PROVE  Cardinality(T) <= Cardinality(S) + 1
      OBVIOUS
    <3>1. /\ IsFiniteSet(S \cup {new})
          /\ Cardinality(S \cup {new}) = IF new \in S THEN Cardinality(S) ELSE Cardinality(S) + 1
      BY FS_AddElement
    <3>2. Cardinality(T) <= Cardinality(S \cup {new})
      BY <3>1, FS_Subset
    <3>3. Cardinality(S) \in Nat
      BY FS_CardinalityType
    <3>4. IsFiniteSet(T) /\ Cardinality(T) \in Nat
      BY <3>1, FS_Subset, FS_CardinalityType
    <3> QED
      BY <3>1, <3>2, <3>3, <3>4
  <2> QED
    BY <2>4, <2>5, <2>6, <2>7, <2>8, ToDoCounts
<1> QED
  BY <1>1, <1>2 DEF Publish

\* What an end of a row leaves: at most a query, and as many rows behind.
LEMMA DoneLeaves ==
  ASSUME TypeOK, DeliveryInv, InHand(sub), Done, RunIds' = RunIds
  PROVE  Behind' = Behind /\ InTurn' \in Nat /\ InTurn' <= 2
<1>1. SubFields(sub, Len(rows)) /\ SubOK(sub, RunIds, TakenIds, ReplayedIds)
      /\ RunIds \in SUBSET (1 .. Len(rows)) /\ sub \in SubState(Len(rows))
  BY RunIdsFacts DEF DeliveryInv, SubscriberInv, ReplayInv
<1>2. CASE sub.mode = "live"
  <2>1. sub' = Back(sub)
    BY <1>2 DEF Done
  <2>2. sub'.at = "recv" /\ sub'.cursor = sub.cursor
    BY <2>1 DEF Back, SubIdle
  <2>3. ~ FromPage(sub) /\ ~ FromPage(sub')
    BY <1>2, <2>2 DEF FromPage, InHand
  <2>4. Behind' = Behind
    BY <2>2, <2>3 DEF Behind
  <2> QED
    BY <2>2, <2>4 DEF InTurn
<1>3. CASE sub.mode # "live"
  <2> DEFINE w == [sub EXCEPT !.cursor = sub.row]
  <2>1. sub' = NextRow(w)
    BY <1>3 DEF Done
  <2>2. w.cursor = sub.row
    BY <1>1 DEF SubFields
  <2>3. sub'.at \in {"recv", "row", "query"} /\ sub'.cursor = w.cursor
    <3>1. w \in SubState(Len(rows))
      BY <1>1 DEF SubState, SubFields
    <3> HIDE DEF w
    <3>2. w = [at |-> w.at, mode |-> w.mode, cursor |-> w.cursor, row |-> w.row,
               page |-> w.page, full |-> w.full]
      BY <3>1 DEF SubState
    <3> QED
      BY <2>1, <3>2 DEF NextRow, Back, SubIdle
  <2>4. FromPage(sub) /\ ~ FromPage(sub')
    BY <1>1, <1>3, <2>3 DEF FromPage, InHand, SubFields
  <2>5. sub.cursor < sub.row /\ \A i \in RunIds : i < sub.row => i <= sub.cursor
    BY <1>1, <2>4 DEF SubOK
  <2>6. \A i \in RunIds : sub.row < i <=> (sub.cursor < i /\ i # sub.row)
    <3>1. /\ sub.row \in Nat /\ sub.cursor \in Nat
          /\ \A i \in RunIds : i \in Nat
      BY <1>1 DEF SubFields
    <3> QED
      BY <2>5, <3>1
  <2>7. Behind' = Behind
    BY <2>2, <2>3, <2>4, <2>6 DEF Behind
  <2> QED
    BY <2>3, <2>7 DEF InTurn
<1> QED
  BY <1>2, <1>3

\* A step that leaves the table, the channel and the subscriber alone.
LEMMA ToDoKept ==
  ASSUME UNCHANGED <<rows, outgoing, sent, sub>>, next'["runs"] = next["runs"]
  PROVE  ToDo' = ToDo
<1>1. RunIds' = RunIds /\ Unsent' = Unsent /\ Unread' = Unread
  BY DEF RunIds, IsRun, Unsent, Unread
<1>2. UnreadRuns' = UnreadRuns /\ Behind' = Behind
  BY <1>1 DEF UnreadRuns, IsRun, Behind
<1> QED
  BY <1>1, <1>2 DEF ToDo, InTurn

\* A send: one less to send, and as much to read.
LEMMA SendComes ==
  ASSUME TypeOK, TypeOK', DeliveryInv, NEW t \in Tasks, Send(t)
  PROVE  ToDo' < ToDo
<1> DEFINE id == outgoing[t]
<1>1. /\ Len(sent) \in Nat /\ Len(sent') = Len(sent) + 1 /\ sent'[Len(sent) + 1] = id
      /\ \A k \in 1 .. Len(sent) : sent'[k] = sent[k]
      /\ id \in 1 .. Len(rows)
  BY SentRow
<1>2. /\ rows' = rows /\ sub' = sub /\ next' = next
      /\ outgoing'[t] = 0 /\ \A u \in Tasks \ {t} : outgoing'[u] = outgoing[u]
  BY DEF Send, TypeOK, subVars
<1>3. /\ \A u \in Tasks : outgoing[u] = id => u = t
      /\ next["runs"] <= Len(sent) + 1 /\ next["runs"] \in Nat
  BY <1>1 DEF DeliveryInv, ChannelInv, TypeOK, Receivers
<1> HIDE DEF id
<1>4. id \in Unsent
  BY <1>1 DEF Unsent, id
<1>5. Unsent' \subseteq Unsent \ {id}
  <2> SUFFICES ASSUME NEW i \in Unsent' PROVE i \in Unsent \ {id}
    OBVIOUS
  <2>1. i \in 1 .. Len(rows)
    BY <1>2 DEF Unsent
  <2>2. PICK u \in Tasks : outgoing'[u] = i
    BY DEF Unsent
  <2>3. u # t
    BY <1>2, <2>1, <2>2
  <2> QED
    BY <1>2, <1>3, <2>1, <2>2, <2>3 DEF Unsent
<1>6. Unread' = Unread
  <2>1. \A i \in 1 .. Len(rows) : i \in Unread => i \in Unread'
    <3> SUFFICES ASSUME NEW i \in 1 .. Len(rows), i \in Unread PROVE i \in Unread'
      OBVIOUS
    <3>1. CASE i = id
      <4>1. Len(sent) + 1 \in 1 .. Len(sent')
        BY <1>1
      <4> QED
        BY <1>1, <1>2, <1>3, <3>1, <4>1 DEF Unread
    <3>2. CASE i # id
      <4>1. CASE \E u \in Tasks : outgoing[u] = i
        BY <1>2, <3>2, <4>1 DEF Unread, id
      <4>2. CASE \E k \in 1 .. Len(sent) : next["runs"] <= k /\ sent[k] = i
        <5>1. \A k \in 1 .. Len(sent) : k \in 1 .. Len(sent')
          BY <1>1
        <5> QED
          BY <1>1, <1>2, <4>2, <5>1 DEF Unread
      <4> QED
        BY <4>1, <4>2 DEF Unread
    <3> QED
      BY <3>1, <3>2
  <2>2. \A i \in 1 .. Len(rows) : i \in Unread' => i \in Unread
    <3> SUFFICES ASSUME NEW i \in 1 .. Len(rows), i \in Unread' PROVE i \in Unread
      OBVIOUS
    <3>1. CASE \E u \in Tasks : outgoing'[u] = i
      <4>1. PICK u \in Tasks : outgoing'[u] = i
        BY <3>1
      <4>2. u # t
        BY <1>2, <4>1
      <4> QED
        BY <1>2, <4>1, <4>2 DEF Unread
    <3>2. CASE \E k \in 1 .. Len(sent') : next'["runs"] <= k /\ sent'[k] = i
      <4>1. PICK k \in 1 .. Len(sent') : next["runs"] <= k /\ sent'[k] = i
        BY <1>2, <3>2
      <4>2. CASE k \in 1 .. Len(sent)
        BY <1>1, <4>1, <4>2 DEF Unread
      <4>3. CASE k = Len(sent) + 1
        BY <1>1, <4>1, <4>3 DEF Unread, id
      <4> QED
        BY <1>1, <4>2, <4>3
    <3> QED
      BY <3>1, <3>2 DEF Unread
  <2> QED
    BY <1>2, <2>1, <2>2 DEF Unread
<1>7. UnreadRuns' = UnreadRuns /\ RunIds' = RunIds
  BY <1>2, <1>6 DEF UnreadRuns, RunIds, IsRun
<1>8. Behind' = Behind /\ InTurn' = InTurn
  BY <1>2, <1>7 DEF Behind, InTurn
<1>9. Cardinality(Unsent') <= Cardinality(Unsent) - 1
  BY <1>4, <1>5, OneLess, ToDoCounts
<1>10. Cardinality(Unsent') \in Nat
  <2>1. Len(rows) \in Nat /\ IsFiniteSet(1 .. Len(rows))
    BY FS_Interval DEF TypeOK
  <2> QED
    BY <1>5, FS_Subset, FS_CardinalityType, ToDoCounts
<1> QED
  BY <1>6, <1>7, <1>8, <1>9, <1>10, ToDoCounts DEF ToDo

\* Messages read or lost, at least the next one: what the rest may cost.
LEMMA ReadComes ==
  ASSUME TypeOK, DeliveryInv, UNCHANGED <<rows, outgoing, sent>>,
         next["runs"] \in 1 .. Len(sent), next'["runs"] \in Nat, next["runs"] < next'["runs"]
  PROVE  /\ Cardinality(Unsent') = Cardinality(Unsent)
         /\ Cardinality(Unread') \in Nat /\ Cardinality(UnreadRuns') \in Nat
         /\ Cardinality(Unread') <= Cardinality(Unread) - 1
         /\ Cardinality(UnreadRuns')
              <= IF IsRun(sent[next["runs"]]) THEN Cardinality(UnreadRuns) - 1
                                              ELSE Cardinality(UnreadRuns)
         /\ RunIds' = RunIds
<1> DEFINE id == sent[next["runs"]]
<1>0. Len(sent) \in Nat /\ Len(rows) \in Nat /\ next["runs"] \in Nat
      /\ id \in 1 .. Len(rows)
  BY ElementOfSeq DEF TypeOK, Receivers
<1>1. Unsent' = Unsent /\ RunIds' = RunIds
  BY DEF Unsent, RunIds, IsRun
<1>2. id \in Unread
  BY <1>0 DEF Unread
<1>3. Unread' \subseteq Unread \ {id}
  <2> SUFFICES ASSUME NEW i \in Unread' PROVE i \in Unread /\ i # id
    OBVIOUS
  <2>1. i \in 1 .. Len(rows)
    BY DEF Unread
  <2>2. CASE \E t \in Tasks : outgoing[t] = i
    <3>1. PICK t \in Tasks : outgoing[t] = i
      BY <2>2
    <3>2. outgoing[t] # 0
      BY <1>0, <2>1, <3>1
    <3>3. \A k \in 1 .. Len(sent) : sent[k] # outgoing[t]
      BY <3>2 DEF DeliveryInv, ChannelInv
    <3> QED
      BY <2>1, <3>1, <3>3 DEF Unread
  <2>3. CASE \E k \in 1 .. Len(sent) : next'["runs"] <= k /\ sent[k] = i
    <3>1. PICK k \in 1 .. Len(sent) : next'["runs"] <= k /\ sent[k] = i
      BY <2>3
    <3>2. next["runs"] < k /\ next["runs"] <= k
      BY <1>0, <3>1
    <3>3. \A j, m \in 1 .. Len(sent) : sent[j] = sent[m] => j = m
      BY DEF DeliveryInv, ChannelInv
    <3>4. i # id
      BY <1>0, <3>1, <3>2, <3>3
    <3> QED
      BY <2>1, <3>1, <3>2, <3>4 DEF Unread
  <2> QED
    BY <2>2, <2>3 DEF Unread
<1>4. /\ UnreadRuns' \subseteq UnreadRuns \ {id}
      /\ IsRun(id) => id \in UnreadRuns
  BY <1>2, <1>3 DEF UnreadRuns, IsRun
<1> HIDE DEF id
<1>5. /\ Cardinality(Unread') <= Cardinality(Unread) - 1
      /\ IsRun(id) => Cardinality(UnreadRuns') <= Cardinality(UnreadRuns) - 1
  BY <1>2, <1>3, <1>4, OneLess, ToDoCounts
<1>6. /\ Cardinality(UnreadRuns') <= Cardinality(UnreadRuns)
      /\ Cardinality(Unread') \in Nat /\ Cardinality(UnreadRuns') \in Nat
  <2>1. IsFiniteSet(Unread') /\ IsFiniteSet(UnreadRuns')
    BY <1>3, <1>4, FS_Subset, ToDoCounts
  <2>2. UnreadRuns' \in SUBSET UnreadRuns
    BY <1>4
  <2> QED
    BY <2>1, <2>2, FS_Subset, FS_CardinalityType, ToDoCounts
<1> QED
  BY <1>1, <1>5, <1>6 DEF id

LEMMA ReceiveComes ==
  ASSUME TypeOK, DeliveryInv, RunsReceive
  PROVE  ToDo' < ToDo
<1> DEFINE id == sent[next["runs"]]
<1>0. "runs" \in Receivers /\ next["runs"] \in Nat
  BY DEF Receivers, TypeOK
<1>1. /\ next["runs"] \in 1 .. Len(sent) /\ next'["runs"] = next["runs"] + 1
      /\ UNCHANGED <<rows, outgoing, sent>>
  BY <1>0, ReceiveTypes DEF RunsReceive, Receive, TypeOK, table
<1>2. /\ Cardinality(Unsent') = Cardinality(Unsent)
      /\ Cardinality(Unread') \in Nat /\ Cardinality(UnreadRuns') \in Nat
      /\ Cardinality(Unread') <= Cardinality(Unread) - 1
      /\ Cardinality(UnreadRuns')
           <= IF IsRun(id) THEN Cardinality(UnreadRuns) - 1 ELSE Cardinality(UnreadRuns)
      /\ RunIds' = RunIds
  BY <1>0, <1>1, ReadComes
<1>3. sub.at = "recv" /\ sub.mode = "live" /\ sub \in SubState(Len(rows))
  BY DEF RunsReceive, InLoop, DeliveryInv, SubscriberInv, ReplayInv, SubOK, TypeOK
<1>4. CASE IsRun(id) /\ sub' = [sub EXCEPT !.at = "attempt", !.row = id]
  <2>1. sub'.at = "attempt" /\ sub'.mode = "live" /\ sub'.cursor = sub.cursor
    BY <1>3, <1>4 DEF SubState
  <2>2. ~ FromPage(sub) /\ ~ FromPage(sub')
    BY <1>3, <2>1 DEF FromPage
  <2>3. Behind' = Behind
    BY <1>2, <2>1, <2>2 DEF Behind
  <2>4. InTurn = 0 /\ InTurn' = 13
    BY <1>3, <2>1 DEF InTurn
  <2> QED
    BY <1>2, <1>4, <2>3, <2>4, ToDoCounts DEF ToDo
<1>5. CASE sub' = sub
  <2>1. Behind' = Behind /\ InTurn' = InTurn
    BY <1>2, <1>5 DEF Behind, InTurn
  <2>2. Cardinality(UnreadRuns') <= Cardinality(UnreadRuns)
    BY <1>2, ToDoCounts
  <2> QED
    BY <1>2, <2>1, <2>2, ToDoCounts DEF ToDo
<1> QED
  BY <1>4, <1>5 DEF RunsReceive, subVars

LEMMA LaggedComes ==
  ASSUME TypeOK, DeliveryInv, RunsLagged
  PROVE  ToDo' < ToDo
<1>0. "runs" \in Receivers /\ next["runs"] \in Nat \ {0} /\ Len(sent) \in Nat
      /\ RingSize \in Nat \ {0}
  BY DeliveryAssumption DEF Receivers, TypeOK
<1>1. /\ next["runs"] < Oldest /\ next'["runs"] = Oldest
      /\ UNCHANGED <<rows, outgoing, sent>>
  BY <1>0 DEF RunsLagged, CatchUp, Lagging, TypeOK, table
<1>2. Oldest \in Nat /\ next["runs"] \in 1 .. Len(sent)
  BY <1>0, <1>1 DEF Oldest
<1>3. /\ Cardinality(Unsent') = Cardinality(Unsent)
      /\ Cardinality(Unread') \in Nat /\ Cardinality(UnreadRuns') \in Nat
      /\ Cardinality(Unread') <= Cardinality(Unread) - 1
      /\ Cardinality(UnreadRuns')
           <= IF IsRun(sent[next["runs"]]) THEN Cardinality(UnreadRuns) - 1
                                           ELSE Cardinality(UnreadRuns)
      /\ RunIds' = RunIds
  BY <1>1, <1>2, ReadComes
<1>4. sub.at = "recv" /\ sub.mode = "live" /\ sub \in SubState(Len(rows))
  BY DEF RunsLagged, InLoop, DeliveryInv, SubscriberInv, ReplayInv, SubOK, TypeOK
<1>5. sub'.at = "query" /\ sub'.cursor = sub.cursor
  BY <1>4 DEF RunsLagged, SubState
<1>6. Behind' = Behind
  BY <1>3, <1>4, <1>5 DEF Behind, FromPage, InHand
<1>7. InTurn = 0 /\ InTurn' = 2
  BY <1>4, <1>5 DEF InTurn
<1>8. Cardinality(UnreadRuns') <= Cardinality(UnreadRuns)
  BY <1>3, ToDoCounts
<1> QED
  BY <1>3, <1>6, <1>7, <1>8, ToDoCounts DEF ToDo

\* With the table and the channel alone, the subscriber's own part decides.
LEMMA OwnPart ==
  ASSUME TypeOK, UNCHANGED <<rows, outgoing, sent, next>>,
         Cardinality(Behind') \in Nat, InTurn' \in Nat,
         InTurn' + 13 * Cardinality(Behind') < InTurn + 13 * Cardinality(Behind)
  PROVE  ToDo' < ToDo
<1>1. Unsent' = Unsent /\ Unread' = Unread
  BY DEF Unsent, Unread
<1>2. UnreadRuns' = UnreadRuns
  BY <1>1 DEF UnreadRuns, IsRun
<1> QED
  BY <1>1, <1>2, ToDoCounts DEF ToDo

LEMMA QueryComes ==
  ASSUME TypeOK, DeliveryInv, RunsQuery \/ RunsQueryFails
  PROVE  ToDo' < ToDo
<1>0. /\ UNCHANGED <<rows, outgoing, sent, next>> /\ RunIds' = RunIds
      /\ sub.at = "query" /\ sub \in SubState(Len(rows)) /\ PageSize \in Nat \ {0}
  BY DeliveryAssumption DEF RunsQuery, RunsQueryFails, table, bus, RunIds, IsRun, TypeOK
<1>1. sub'.at \in {"recv", "row"} /\ sub'.cursor = sub.cursor
  <2>1. CASE RunsQueryFails
    BY <2>1 DEF RunsQueryFails, Back, SubIdle
  <2>2. CASE RunsQuery
    <3>1. PICK page \in SUBSET RunsAfter(sub.cursor) :
            sub' = NextRow([sub EXCEPT !.page = page,
                                       !.full = (Cardinality(page) = PageSize)])
      BY <2>2 DEF RunsQuery
    <3> DEFINE w == [sub EXCEPT !.page = page, !.full = (Cardinality(page) = PageSize)]
    <3>2. w.page = page /\ w.full = (Cardinality(page) = PageSize) /\ w.cursor = sub.cursor
      BY <1>0 DEF SubState
    <3>3. page = {} => ~ w.full
      BY <1>0, <3>2, FS_EmptySet
    <3>4. [w EXCEPT !.at = "row", !.row = 0].at = "row"
          /\ [w EXCEPT !.at = "row", !.row = 0].cursor = sub.cursor
      BY <1>0 DEF SubState
    <3>5. Back(w).at = "recv" /\ Back(w).cursor = w.cursor
      BY DEF Back, SubIdle
    <3> HIDE DEF w
    <3>6. CASE page = {}
      <4>1. NextRow(w) = Back(w)
        BY <3>2, <3>3, <3>6 DEF NextRow
      <4> QED
        BY <3>1, <3>2, <3>5, <4>1 DEF w
    <3>7. CASE page # {}
      <4>1. NextRow(w) = [w EXCEPT !.at = "row", !.row = 0]
        BY <3>2, <3>7 DEF NextRow
      <4> QED
        BY <3>1, <3>4, <4>1 DEF w
    <3> QED
      BY <3>6, <3>7
  <2> QED
    BY <2>1, <2>2
<1>2. Behind' = Behind
  BY <1>0, <1>1 DEF Behind, FromPage, InHand
<1>3. InTurn = 2 /\ InTurn' \in {0, 1}
  BY <1>0, <1>1 DEF InTurn
<1> QED
  BY <1>0, <1>2, <1>3, OwnPart, ToDoCounts

LEMMA RowComes ==
  ASSUME TypeOK, DeliveryInv, RunsRow
  PROVE  ToDo' < ToDo
<1>0. /\ UNCHANGED <<rows, outgoing, sent, next>> /\ RunIds' = RunIds
      /\ sub.at = "row" /\ sub \in SubState(Len(rows))
  BY DEF RunsRow, table, bus, RunIds, IsRun, TypeOK
<1>1. PICK id \in sub.page :
        sub' = [sub EXCEPT !.at = "attempt", !.row = id, !.page = @ \ {id}]
  BY DEF RunsRow
<1>2. sub.mode = "replay" /\ id \in RunIds /\ sub.cursor < id
  <2>1. SubOK(sub, RunIds, TakenIds, ReplayedIds)
    BY DEF DeliveryInv, SubscriberInv, ReplayInv
  <2> QED
    BY <1>0, <2>1 DEF SubOK, SubState
<1>3. sub'.at = "attempt" /\ sub'.row = id /\ sub'.mode = "replay" /\ sub'.cursor = sub.cursor
  BY <1>0, <1>1, <1>2 DEF SubState
<1>4. id \in Behind /\ Behind' \subseteq Behind \ {id}
  BY <1>0, <1>2, <1>3 DEF Behind, FromPage, InHand
<1>5. Cardinality(Behind') <= Cardinality(Behind) - 1 /\ Cardinality(Behind') \in Nat
  <2>1. IsFiniteSet(Behind')
    BY <1>4, FS_Subset, ToDoCounts
  <2> QED
    BY <1>4, <2>1, OneLess, FS_CardinalityType, ToDoCounts
<1>6. InTurn = 1 /\ InTurn' = 13
  BY <1>0, <1>3 DEF InTurn
<1> QED
  BY <1>0, <1>5, <1>6, OwnPart, ToDoCounts

\* The two events of a write cost less than the steps it takes.
LEMMA WriteComes ==
  ASSUME TypeOK, TypeOK', DeliveryInv, WriteAttempt \/ WriteManifest \/ WriteTell
  PROVE  ToDo' < ToDo
<1>0. InHand(sub) /\ UNCHANGED bus /\ sub \in SubState(Len(rows))
  BY DEF WriteAttempt, WriteManifest, WriteTell, InHand, TypeOK
<1>1. ASSUME UNCHANGED table, Done PROVE ToDo' < ToDo
  <2>1. UNCHANGED <<rows, outgoing, sent, next>> /\ RunIds' = RunIds
    BY <1>0, <1>1 DEF table, bus, RunIds, IsRun
  <2>2. Behind' = Behind /\ InTurn' \in Nat /\ InTurn' <= 2
    BY <1>0, <1>1, <2>1, DoneLeaves
  <2>3. InTurn >= 7
    BY <1>0 DEF InHand, InTurn
  <2> QED
    BY <2>1, <2>2, <2>3, OwnPart, ToDoCounts
<1>2. ASSUME Publish("runs", Other), Behind' = Behind, InTurn' \in Nat, InTurn' + 4 < InTurn
      PROVE  ToDo' < ToDo
  <2>1. /\ Cardinality(Unsent') <= Cardinality(Unsent) + 1
        /\ Cardinality(Unread') <= Cardinality(Unread) + 1
        /\ UnreadRuns' = UnreadRuns
    BY <1>0, <1>2, OwnEvent
  <2>2. Cardinality(Unsent') \in Nat /\ Cardinality(Unread') \in Nat
    <3>1. Len(rows') \in Nat
      BY DEF TypeOK
    <3>2. IsFiniteSet(1 .. Len(rows'))
      BY <3>1, FS_Interval
    <3>3. Unsent' \in SUBSET (1 .. Len(rows')) /\ Unread' \in SUBSET (1 .. Len(rows'))
      BY DEF Unsent, Unread
    <3> QED
      BY <3>2, <3>3, FS_Subset, FS_CardinalityType
  <2> QED
    BY <1>2, <2>1, <2>2, ToDoCounts DEF ToDo
<1>3. ASSUME NEW at \in {"write", "tell"}, sub' = [sub EXCEPT !.at = at], RunIds' = RunIds
      PROVE  Behind' = Behind /\ sub'.at = at
  <2>1. sub'.at = at /\ sub'.mode = sub.mode /\ sub'.row = sub.row /\ sub'.cursor = sub.cursor
    BY <1>0, <1>3 DEF SubState
  <2>2. FromPage(sub') <=> FromPage(sub)
    BY <1>0, <2>1 DEF FromPage, InHand
  <2> QED
    BY <1>3, <2>1, <2>2 DEF Behind
<1>4. CASE WriteAttempt
  <2>1. CASE Publish("runs", Other) /\ sub' = [sub EXCEPT !.at = "write"]
    <3>1. RunIds' = RunIds
      BY <1>0, <2>1, OwnEvent
    <3>2. Behind' = Behind /\ sub'.at = "write" /\ sub.at = "attempt"
      BY <1>3, <1>4, <2>1, <3>1 DEF WriteAttempt
    <3>3. InTurn = 13 /\ InTurn' = 8
      BY <3>2 DEF InTurn
    <3> QED
      BY <1>2, <2>1, <3>2, <3>3
  <2> QED
    BY <1>1, <1>4, <2>1 DEF WriteAttempt
<1>5. CASE WriteManifest
  <2>1. CASE sub' = [sub EXCEPT !.at = "tell"]
    <3>1. UNCHANGED <<rows, outgoing, sent, next>> /\ RunIds' = RunIds
      BY <1>0, <1>5 DEF WriteManifest, table, bus, RunIds, IsRun
    <3>2. Behind' = Behind /\ sub'.at = "tell" /\ sub.at = "write"
      BY <1>3, <1>5, <2>1, <3>1 DEF WriteManifest
    <3>3. InTurn = 8 /\ InTurn' = 7
      BY <3>2 DEF InTurn
    <3> QED
      BY <3>1, <3>2, <3>3, OwnPart, ToDoCounts
  <2> QED
    BY <1>1, <1>5, <2>1 DEF WriteManifest
<1>6. CASE WriteTell
  <2>1. Publish("runs", Other) /\ Done /\ sub.at = "tell"
    BY <1>6 DEF WriteTell
  <2>2. RunIds' = RunIds
    BY <1>0, <2>1, OwnEvent
  <2>3. Behind' = Behind /\ InTurn' \in Nat /\ InTurn' <= 2
    BY <1>0, <2>1, <2>2, DoneLeaves
  <2>4. InTurn = 7
    BY <2>1 DEF InTurn
  <2>5. InTurn' + 4 < InTurn
    <3>1. \A i, j \in Nat : i <= 2 /\ j = 7 => i + 4 < j
      OBVIOUS
    <3> QED
      BY <2>3, <2>4, <3>1
  <2> QED
    BY <1>2, <2>1, <2>3, <2>5
<1> QED
  BY <1>4, <1>5, <1>6

LEMMA ComesToRestStep ==
  ASSUME TypeOK, TypeOK', DeliveryInv, [Next]_deliveryVars, ToDo \in Nat, ToDo' \in Nat
  PROVE  [ComesToRest]_deliveryVars
<1>0. "log" # "runs"
  OBVIOUS
<1>1. ASSUME Runs \/ RunsQueryFails \/ \E t \in Tasks : Send(t) PROVE ToDo' < ToDo
  BY <1>1, SendComes, ReceiveComes, LaggedComes, QueryComes, RowComes, WriteComes DEF Runs
<1>2. ASSUME \/ \E s \in Sweepers : SweepList(s) \/ SweepFails(s)
             \/ \E s \in Sweepers, l \in Launches : SweepComplete(s, l)
      PROVE  ToDo' = ToDo
  <2>1. UNCHANGED <<rows, outgoing, sent, sub, next>>
    BY <1>2 DEF SweepList, SweepFails, SweepComplete, table, bus, subVars
  <2> QED
    BY <2>1, ToDoKept
<1>3. ASSUME Log PROVE ToDo' = ToDo
  <2>1. UNCHANGED <<rows, outgoing, sent, sub>>
    BY <1>3 DEF Log, LogStart, LogReceive, LogLagged, table, bus, subVars
  <2>2. next'["runs"] = next["runs"]
    BY <1>0, <1>3 DEF Log, LogStart, LogReceive, LogLagged, Receive, CatchUp, bus, TypeOK,
       Receivers
  <2> QED
    BY <2>1, <2>2, ToDoKept
<1> QED
  BY <1>1, <1>2, <1>3 DEF ComesToRest, Next, Sweep

\* The manifests a replay writes are events on the bus it replays for, yet a
\* replay does not feed itself: every step of the subscriber, and every send,
\* uses up work that only the publishing of others or a restart adds.
THEOREM SubscriberComesToRest == Spec => [][ComesToRest]_deliveryVars
<1> DEFINE Counted == ToDo \in Nat
<1>1. TypeOK => Counted
  BY ToDoCounts DEF ToDo
<1>2. TypeOK /\ TypeOK' /\ DeliveryInv /\ Counted /\ Counted' /\ [Next]_deliveryVars
        => [ComesToRest]_deliveryVars
  BY ComesToRestStep
<1> QED
  BY <1>1, <1>2, DeliveryInvHolds, PTL DEF Spec
=============================================================================
