--------------------------- MODULE InboxPlansProofs --------------------------
(***************************************************************************)
(* Theorems of InboxPlans, for any items, plans, callers, channel and      *)
(* number of faults.                                                       *)
(***************************************************************************)
EXTENDS InboxPlans, FiniteSetTheorems, SequenceTheorems, TLAPS

-----------------------------------------------------------------------------
(* Type correctness.                                                       *)

Event == [plan : Plans, state : PlanStates]

CloserRow == [at : Steps \cup {"idle"},
              end : [plan : Plans \cup {None}, state : PlanStates],
              item : Items \cup {None},
              todo : SUBSET Event]

CallSteps == {"idle", "insert", "ready", "link", "mark", "discard", "reset", "unlink"}

CallRow == [at : CallSteps, item : Items \cup {None}, plan : Plans \cup {None}]

\* The events the listener has not received.
Waiting == {bus[n] : n \in 1 .. Len(bus)}

BusOK == bus \in Seq(Event) /\ Len(bus) <= BusSize

\* An announcement adds one event, and the channel drops what it cannot hold.
LEMMA AnnounceBus ==
  ASSUME BusOK, NEW p \in Plans, NEW s \in PlanStates, Announce(p, s)
  PROVE  BusOK' /\ Waiting' \subseteq Waiting \cup {End(p, s)}
<1> DEFINE sent == Append(bus, End(p, s))
<1>1. End(p, s) \in Event
  BY DEF End, Event
<1>2. /\ sent \in Seq(Event) /\ Len(sent) = Len(bus) + 1
      /\ \A n \in 1 .. Len(bus) : sent[n] = bus[n]
      /\ sent[Len(bus) + 1] = End(p, s)
  BY <1>1, AppendProperties DEF BusOK
<1>3. bus' = IF Len(sent) > BusSize THEN Tail(sent) ELSE sent
  BY DEF Announce
<1>4. Len(bus) \in Nat /\ BusSize \in Nat \ {0}
  BY InboxAssumption DEF BusOK
<1>5. \A n \in 1 .. Len(sent) : sent[n] \in Waiting \cup {End(p, s)}
  <2>1. \A n \in 1 .. Len(sent) : n \in 1 .. Len(bus) \/ n = Len(bus) + 1
    BY <1>2, <1>4
  <2> QED
    BY <1>2, <2>1 DEF Waiting
<1> HIDE DEF sent
<1>6. CASE Len(sent) > BusSize
  <2>1. sent # <<>>
    BY <1>2, <1>4
  <2>2. /\ Tail(sent) \in Seq(Event) /\ Len(Tail(sent)) = Len(sent) - 1
        /\ \A n \in 1 .. Len(Tail(sent)) : Tail(sent)[n] = sent[n + 1]
    BY <1>2, <2>1, HeadTailProperties
  <2>3. \A n \in 1 .. Len(bus') : bus'[n] \in Waiting \cup {End(p, s)}
    BY <1>2, <1>3, <1>4, <1>5, <1>6, <2>2
  <2> QED
    BY <1>2, <1>3, <1>4, <1>6, <2>2, <2>3 DEF BusOK, Waiting
<1>7. CASE ~ (Len(sent) > BusSize)
  <2>1. bus' = sent
    BY <1>3, <1>7
  <2>2. Len(sent) <= BusSize
    BY <1>2, <1>4, <1>7
  <2> QED
    BY <1>2, <1>5, <2>1, <2>2 DEF BusOK, Waiting
<1> QED
  BY <1>6, <1>7

\* Receiving takes the first event.
LEMMA ReceiveBus ==
  ASSUME BusOK, bus # <<>>, bus' = Tail(bus)
  PROVE  BusOK' /\ Waiting' \subseteq Waiting /\ Head(bus) \in Waiting /\ Head(bus) \in Event
<1>1. /\ bus' \in Seq(Event) /\ Len(bus') = Len(bus) - 1
      /\ \A n \in 1 .. Len(bus') : bus'[n] = bus[n + 1]
  BY HeadTailProperties DEF BusOK
<1>2. Len(bus) \in Nat /\ Len(bus) > 0 /\ BusSize \in Nat
  BY EmptySeq, InboxAssumption DEF BusOK
<1>3. Head(bus) = bus[1] /\ 1 \in 1 .. Len(bus)
  BY <1>2 DEF BusOK
<1>4. \A n \in 1 .. Len(bus) : bus[n] \in Event
  BY ElementOfSeq DEF BusOK
<1>5. \A n \in 1 .. Len(bus') : n + 1 \in 1 .. Len(bus)
  BY <1>1, <1>2
<1> QED
  BY <1>1, <1>2, <1>3, <1>4, <1>5 DEF BusOK, Waiting

\* A call has the item and the plan its next step needs, and so has a closer.
CallFits ==
  \A u \in Users :
    /\ user[u].at # "idle" => user[u].item \in Items
    /\ user[u].at \notin {"idle", "insert"} => user[u].plan \in Plans

CloserFits ==
  \A c \in Closers :
    /\ closer[c].at # "idle" => closer[c].end \in Event
    /\ closer[c].at \in {"session", "print", "state", "delete"} => closer[c].item \in Items
    /\ closer[c].at \in {"idle", "lock", "register"} => closer[c].item = None

\* A closer's step keeps its row well typed, and everything it writes.
LEMMA CloserTypes ==
  ASSUME TypeOK, CloserFits, NEW c \in Closers, CloserStep(c) \/ StepFails(c)
  PROVE  TypeOK'
<1>1. closer \in [Closers -> CloserRow] /\ closer[c] \in CloserRow /\ BusOK
  BY DEF TypeOK, CloserRow, BusOK, Event
<1>2. UNCHANGED <<bus, plan, user>>
  BY DEF CloserStep, Lock, Register, InsertSession, InsertFingerprint, Find, SetState, DeleteLink,
     StepFails, db
<1>3. closer' \in [Closers -> CloserRow] /\ lock' \in [Plans -> Closers \cup {None}]
  <2>1. ASSUME NEW step \in Steps, Goto(c, step)
        PROVE  closer' \in [Closers -> CloserRow]
    BY <1>1, <2>1 DEF Goto, CloserRow
  <2>2. ASSUME Leave(c)
        PROVE  closer' \in [Closers -> CloserRow] /\ lock' \in [Plans -> Closers \cup {None}]
    BY <1>1, <2>2 DEF Leave, CloserRow, IdleCloser, End, PlanStates, TypeOK
  <2>3. ASSUME NEW i \in Items, NEW step \in Steps,
               closer' = [closer EXCEPT ![c].at = step, ![c].item = i]
        PROVE  closer' \in [Closers -> CloserRow]
    BY <1>1, <2>3 DEF CloserRow
  <2>4. CASE Lock(c)
    BY <2>1, <2>4 DEF Lock, TypeOK, Steps
  <2>5. CASE Register(c)
    BY <2>1, <2>3, <2>5 DEF Register, LinkedTo, TypeOK, Steps
  <2>6. CASE InsertSession(c) \/ InsertFingerprint(c) \/ SetState(c)
    BY <2>1, <2>6 DEF InsertSession, InsertFingerprint, SetState, TypeOK, Steps
  <2>7. CASE Find(c)
    BY <2>2, <2>3, <2>7 DEF Find, LinkedTo, TypeOK, Steps
  <2>8. CASE DeleteLink(c) \/ StepFails(c)
    BY <2>2, <2>8 DEF DeleteLink, StepFails
  <2> QED
    BY <2>4, <2>5, <2>6, <2>7, <2>8 DEF CloserStep
<1>4. /\ item' \in [Items -> ItemStates] /\ link' \in [Items -> Plans \cup {None}]
      /\ session' \in [Items -> Nat] /\ print' \in [Items -> Nat] /\ faults' \in Nat
  <2>1. CASE InsertSession(c)
    <3>1. PICK i \in Items : session' = [session EXCEPT ![i] = @ + 1]
      BY <2>1 DEF InsertSession, At, CloserFits
    <3>2. session[i] + 1 \in Nat
      BY DEF TypeOK
    <3>3. session' \in [Items -> Nat]
      BY <3>1, <3>2 DEF TypeOK
    <3> QED
      BY <2>1, <3>3 DEF InsertSession, TypeOK
  <2>2. CASE InsertFingerprint(c)
    <3>1. PICK i \in Items : print' = [print EXCEPT ![i] = @ + 1]
      BY <2>2 DEF InsertFingerprint, At, CloserFits
    <3>2. print[i] + 1 \in Nat
      BY DEF TypeOK
    <3>3. print' \in [Items -> Nat]
      BY <3>1, <3>2 DEF TypeOK
    <3> QED
      BY <2>2, <3>3 DEF InsertFingerprint, TypeOK
  <2>3. CASE SetState(c)
    BY <2>3 DEF SetState, TypeOK, ItemStates
  <2>4. CASE DeleteLink(c)
    BY <2>4 DEF DeleteLink, TypeOK
  <2>5. CASE Lock(c) \/ Register(c) \/ Find(c) \/ StepFails(c)
    BY <2>5 DEF Lock, Register, Find, StepFails, db, TypeOK
  <2> QED
    BY <2>1, <2>2, <2>3, <2>4, <2>5 DEF CloserStep
<1> QED
  BY <1>2, <1>3, <1>4 DEF TypeOK, CloserRow, Event

\* What the listener receives and the sweep lists are events.
LEMMA TaskTypes ==
  ASSUME TypeOK, ListenerReceives \/ SweepStarts \/ SweepTakes
  PROVE  TypeOK'
<1>1. closer \in [Closers -> CloserRow] /\ BusOK /\ {"listener", "sweep"} = Closers
  BY DEF TypeOK, CloserRow, BusOK, Event, Closers
<1>2. UNCHANGED <<item, link, plan, session, print, lock, user, faults>>
  BY DEF ListenerReceives, SweepStarts, SweepTakes, db
<1>3. \A end \in Event : FirstStep(end) \in Steps
  BY DEF FirstStep, Steps
<1>4. CASE ListenerReceives
  <2>1. BusOK' /\ Head(bus) \in Event
    BY <1>1, <1>4, ReceiveBus DEF ListenerReceives
  <2>2. PICK end \in Event :
          closer' = [closer EXCEPT !["listener"].at = FirstStep(end), !["listener"].end = end]
    BY <1>4, <2>1 DEF ListenerReceives
  <2>3. closer' \in [Closers -> CloserRow]
    BY <1>1, <1>3, <2>2 DEF CloserRow, Event
  <2> QED
    BY <1>2, <2>1, <2>3 DEF TypeOK, CloserRow, BusOK, Event
<1>5. CASE SweepStarts
  <2>1. \A i \in Orphans : End(link[i], plan[link[i]]) \in Event
    BY DEF Orphans, End, Event, TypeOK
  <2>2. {End(link[i], plan[link[i]]) : i \in Orphans} \subseteq Event
    BY <2>1
  <2>3. closer' \in [Closers -> CloserRow]
    BY <1>1, <1>5, <2>2 DEF SweepStarts, CloserRow
  <2> QED
    BY <1>2, <1>5, <2>3 DEF SweepStarts, TypeOK, CloserRow, Event
<1>6. CASE SweepTakes
  <2>1. PICK end \in closer["sweep"].todo :
          closer' = [closer EXCEPT !["sweep"].at = FirstStep(end), !["sweep"].end = end,
                                   !["sweep"].todo = @ \ {end}]
    BY <1>6 DEF SweepTakes
  <2>2. end \in Event /\ closer["sweep"].todo \ {end} \subseteq Event
    BY <1>1 DEF CloserRow
  <2>3. closer' \in [Closers -> CloserRow]
    BY <1>1, <1>3, <2>1, <2>2 DEF CloserRow, Event
  <2> QED
    BY <1>2, <1>6, <2>3 DEF SweepTakes, TypeOK, CloserRow, Event
<1> QED
  BY <1>4, <1>5, <1>6

\* The calls of the users keep the types as well, ...
LEMMA UserTypes ==
  ASSUME TypeOK, CallFits, NEW u \in Users, UserStep(u)
  PROVE  TypeOK'
<1>1. user \in [Users -> CallRow] /\ user[u] \in CallRow /\ BusOK
  BY DEF TypeOK, CallRow, CallSteps, BusOK, Event
<1>2. user' \in [Users -> CallRow]
  <2>1. IdleUser \in CallRow
    BY DEF IdleUser, CallRow, CallSteps
  <2>2. ASSUME NEW i \in Items, ConfirmCheck(u, i) \/ CancelRead(u, i)
        PROVE  user' \in [Users -> CallRow]
    <3>1. CASE ConfirmCheck(u, i)
      BY <1>1, <3>1 DEF ConfirmCheck, CallRow, CallSteps
    <3>2. CASE CancelRead(u, i)
      <4>1. link[i] \in Plans
        BY <3>2 DEF CancelRead, TypeOK
      <4> QED
        BY <1>1, <3>2, <4>1 DEF CancelRead, CallRow, CallSteps
    <3> QED
      BY <2>2, <3>1, <3>2
  <2>3. ASSUME NEW p \in Plans, ConfirmInsert(u, p)
        PROVE  user' \in [Users -> CallRow]
    BY <1>1, <2>3 DEF ConfirmInsert, CallRow, CallSteps
  <2>4. CASE \/ ConfirmReady(u) \/ ConfirmLink(u) \/ ConfirmMark(u) \/ CancelDiscard(u)
             \/ CancelReset(u) \/ CancelUnlink(u) \/ CallFails(u)
    <3>1. \/ user' = [user EXCEPT ![u] = IdleUser]
          \/ \E step \in CallSteps : user' = [user EXCEPT ![u].at = step]
      BY <2>4 DEF ConfirmReady, ConfirmLink, ConfirmMark, CancelDiscard, CancelReset,
         CancelUnlink, CallFails, CallSteps
    <3> QED
      BY <1>1, <2>1, <3>1 DEF CallRow
  <2> QED
    BY <2>2, <2>3, <2>4 DEF UserStep
<1>3. BusOK'
  <2>1. UNCHANGED bus \/ \E p \in Plans : Announce(p, "discarded")
    <3>1. CASE CancelDiscard(u)
      BY <3>1 DEF CancelDiscard, CallFits
    <3> QED
      BY <3>1 DEF UserStep, ConfirmCheck, CancelRead, ConfirmInsert, ConfirmReady, ConfirmLink,
         ConfirmMark, CancelReset, CancelUnlink, CallFails, db
  <2> QED
    BY <1>1, <2>1, AnnounceBus DEF PlanStates, BusOK
<1>4. /\ item' \in [Items -> ItemStates] /\ link' \in [Items -> Plans \cup {None}]
      /\ plan' \in [Plans -> PlanStates] /\ UNCHANGED <<session, print, closer, lock>>
      /\ faults' \in Nat
  <2>1. UNCHANGED <<session, print, closer, lock>> /\ faults' \in Nat
    <3>1. UNCHANGED <<session, print, closer, lock>> /\ faults' \in {faults, faults + 1}
      BY DEF UserStep, ConfirmCheck, CancelRead, ConfirmInsert, ConfirmReady, ConfirmLink,
         ConfirmMark, CancelDiscard, CancelReset, CancelUnlink, CallFails, db
    <3> QED
      BY <3>1 DEF TypeOK
  <2>2. item' \in [Items -> ItemStates]
    BY DEF UserStep, ConfirmCheck, CancelRead, ConfirmInsert, ConfirmReady, ConfirmLink,
       ConfirmMark, CancelDiscard, CancelReset, CancelUnlink, CallFails, db, TypeOK, ItemStates
  <2>3. plan' \in [Plans -> PlanStates]
    <3>1. \/ UNCHANGED plan
          \/ \E p, s : plan' = [plan EXCEPT ![p] = s] /\ s \in PlanStates
      <4>1. CASE ConfirmReady(u) \/ CancelDiscard(u) \/ \E p \in Plans : ConfirmInsert(u, p)
        BY <4>1 DEF ConfirmReady, CancelDiscard, ConfirmInsert, PlanStates
      <4> QED
        BY <4>1 DEF UserStep, ConfirmCheck, CancelRead, ConfirmLink, ConfirmMark, CancelReset,
           CancelUnlink, CallFails, db
    <3> QED
      BY <3>1 DEF TypeOK
  <2>4. link' \in [Items -> Plans \cup {None}]
    <3>1. CASE ConfirmLink(u)
      <4>1. user[u].plan \in Plans \cup {None}
        BY <1>1 DEF CallRow
      <4> QED
        BY <3>1, <4>1 DEF ConfirmLink, TypeOK
    <3> QED
      BY <3>1 DEF UserStep, ConfirmCheck, CancelRead, ConfirmInsert, ConfirmReady, ConfirmMark,
         CancelDiscard, CancelReset, CancelUnlink, CallFails, db, TypeOK
  <2> QED
    BY <2>1, <2>2, <2>3, <2>4
<1> QED
  BY <1>2, <1>3, <1>4 DEF TypeOK, CallRow, CallSteps, BusOK, Event

\* ... and so does the rest.
LEMMA OtherTypes ==
  ASSUME TypeOK,
         \/ \E i \in Items : Classify(i)
         \/ \E p \in Plans, s \in {"applied", "ended"} : PlanEnds(p, s)
         \/ Crash
  PROVE  TypeOK'
<1>1. BusOK
  BY DEF TypeOK, BusOK, Event
<1>2. ASSUME NEW i \in Items, Classify(i)
      PROVE  TypeOK'
  BY <1>2 DEF Classify, TypeOK, ItemStates
<1>3. ASSUME NEW p \in Plans, NEW s \in {"applied", "ended"}, PlanEnds(p, s)
      PROVE  TypeOK'
  <2>1. s \in PlanStates /\ Announce(p, s)
    BY <1>3 DEF PlanEnds, PlanStates
  <2>2. BusOK'
    BY <1>1, <2>1, AnnounceBus
  <2>3. plan' \in [Plans -> PlanStates]
    BY <1>3, <2>1 DEF PlanEnds, TypeOK
  <2> QED
    BY <1>3, <2>2, <2>3 DEF PlanEnds, TypeOK, BusOK, Event
<1>4. CASE Crash
  <2>1. IdleCloser \in CloserRow /\ IdleUser \in CallRow
    BY DEF IdleCloser, IdleUser, End, CloserRow, CallRow, CallSteps, PlanStates
  <2>2. closer' \in [Closers -> CloserRow] /\ user' \in [Users -> CallRow]
    BY <1>4, <2>1 DEF Crash
  <2>3. BusOK'
    <3>1. <<>> \in Seq(Event) /\ Len(<<>>) = 0 /\ 0 <= BusSize
      BY EmptySeq, InboxAssumption
    <3> QED
      BY <1>4, <3>1 DEF Crash, BusOK
  <2> QED
    BY <1>4, <2>2, <2>3 DEF Crash, db, TypeOK, CloserRow, CallRow, CallSteps, BusOK, Event
<1> QED
  BY <1>2, <1>3, <1>4

\* The calls keep what they need, ...
LEMMA CallFitsStep ==
  ASSUME TypeOK, CallFits, [Next]_inboxVars
  PROVE  CallFits'
<1>1. user \in [Users -> CallRow]
  BY DEF TypeOK, CallRow, CallSteps
<1>2. ASSUME NEW u \in Users, UserStep(u)
      PROVE  CallFits'
  <2>1. ASSUME NEW i \in Items, ConfirmCheck(u, i) \/ CancelRead(u, i)
        PROVE  CallFits'
    <3>1. CASE ConfirmCheck(u, i)
      BY <1>1, <3>1 DEF ConfirmCheck, CallFits, CallRow
    <3>2. CASE CancelRead(u, i)
      <4>1. link[i] \in Plans
        BY <3>2 DEF CancelRead, TypeOK
      <4> QED
        BY <1>1, <3>2, <4>1 DEF CancelRead, CallFits, CallRow
    <3> QED
      BY <2>1, <3>1, <3>2
  <2>2. ASSUME NEW p \in Plans, ConfirmInsert(u, p)
        PROVE  CallFits'
    BY <1>1, <2>2 DEF ConfirmInsert, CallFits, CallRow
  <2>3. CASE \/ ConfirmReady(u) \/ ConfirmLink(u) \/ ConfirmMark(u) \/ CancelDiscard(u)
             \/ CancelReset(u) \/ CancelUnlink(u) \/ CallFails(u)
    <3>1. \/ user' = [user EXCEPT ![u] = IdleUser]
          \/ \E step \in CallSteps :
               user' = [user EXCEPT ![u].at = step] /\ user[u].at \notin {"idle", "insert"}
      BY <2>3 DEF ConfirmReady, ConfirmLink, ConfirmMark, CancelDiscard, CancelReset,
         CancelUnlink, CallFails, CallSteps
    <3> QED
      BY <1>1, <3>1 DEF CallFits, IdleUser, CallRow
  <2> QED
    BY <1>2, <2>1, <2>2, <2>3 DEF UserStep
<1>3. CASE Crash
  BY <1>3 DEF Crash, CallFits, IdleUser
<1>4. CASE UNCHANGED user
  BY <1>4 DEF CallFits
<1> QED
  BY <1>2, <1>3, <1>4 DEF Next, Listener, Sweep, CloserStep, Lock, Register, InsertSession,
     InsertFingerprint, Find, SetState, DeleteLink, StepFails, ListenerReceives, SweepStarts,
     SweepTakes, Classify, PlanEnds, inboxVars

\* ... and so do the closers.
LEMMA CloserFitsStep ==
  ASSUME TypeOK, CloserFits, [Next]_inboxVars
  PROVE  CloserFits'
<1>1. closer \in [Closers -> CloserRow] /\ {"listener", "sweep"} = Closers
  BY DEF TypeOK, CloserRow, Event, Closers
<1>2. \A end \in Event : FirstStep(end) \in {"lock", "find"}
  BY DEF FirstStep
<1>3. ASSUME NEW c \in Closers, CloserStep(c) \/ StepFails(c)
      PROVE  CloserFits'
  <2>1. closer[c].at # "idle"
    BY <1>3 DEF CloserStep, Lock, Register, InsertSession, InsertFingerprint, Find, SetState,
       DeleteLink, StepFails, At, Steps
  <2>2. CASE Leave(c)
    BY <1>1, <2>2 DEF Leave, CloserFits, CloserRow
  <2>3. CASE /\ closer[c].at \in {"register", "session", "print"}
             /\ Goto(c, "find")
    BY <1>1, <2>1, <2>3 DEF Goto, CloserFits, CloserRow
  <2>4. CASE Lock(c) \/ InsertSession(c) \/ SetState(c)
    BY <1>1, <2>1, <2>4 DEF Lock, InsertSession, SetState, At, Goto, CloserFits, CloserRow
  <2>5. ASSUME NEW i \in Items, NEW step \in {"session", "state"},
               closer' = [closer EXCEPT ![c].at = step, ![c].item = i]
        PROVE  CloserFits'
    BY <1>1, <2>1, <2>5 DEF CloserFits, CloserRow
  <2>6. CASE Register(c)
    BY <2>3, <2>5, <2>6 DEF Register, At, LinkedTo
  <2>7. CASE Find(c)
    BY <2>2, <2>5, <2>7 DEF Find, LinkedTo
  <2>8. CASE InsertFingerprint(c) \/ DeleteLink(c) \/ StepFails(c)
    BY <2>2, <2>3, <2>8 DEF InsertFingerprint, DeleteLink, StepFails, At
  <2> QED
    BY <1>3, <2>4, <2>6, <2>7, <2>8 DEF CloserStep
<1>4. CASE ListenerReceives
  <2>1. Head(bus) \in Event
    BY <1>4, ReceiveBus DEF ListenerReceives, TypeOK, BusOK, Event
  <2> QED
    BY <1>1, <1>2, <1>4, <2>1 DEF ListenerReceives, At, CloserFits, CloserRow
<1>5. CASE SweepStarts
  BY <1>1, <1>5 DEF SweepStarts, CloserFits, CloserRow
<1>6. CASE SweepTakes
  <2>1. PICK end \in Event :
          closer' = [closer EXCEPT !["sweep"].at = FirstStep(end), !["sweep"].end = end,
                                   !["sweep"].todo = @ \ {end}]
    BY <1>1, <1>6 DEF SweepTakes, CloserRow
  <2> QED
    BY <1>1, <1>2, <1>6, <2>1 DEF SweepTakes, At, CloserFits, CloserRow
<1>7. CASE Crash
  BY <1>7 DEF Crash, CloserFits, IdleCloser
<1>8. CASE UNCHANGED closer
  BY <1>8 DEF CloserFits
<1> QED
  BY <1>1, <1>3, <1>4, <1>5, <1>6, <1>7, <1>8 DEF Next, Listener, Sweep, UserStep, ConfirmCheck,
     CancelRead, ConfirmInsert, ConfirmReady, ConfirmLink, ConfirmMark, CancelDiscard,
     CancelReset, CancelUnlink, CallFails, Classify, PlanEnds, inboxVars

\* Types, with what a call and a closer need.
Typed == TypeOK /\ CallFits /\ CloserFits

LEMMA TypedStep ==
  ASSUME Typed, [Next]_inboxVars
  PROVE  Typed'
<1>1. Closers = {"listener", "sweep"}
  BY DEF Closers
<1>2. TypeOK'
  <2>1. CASE UNCHANGED inboxVars
    BY <2>1 DEF inboxVars, Typed, TypeOK
  <2> QED
    BY <1>1, <2>1, CloserTypes, TaskTypes, UserTypes, OtherTypes DEF Next, Listener, Sweep, Typed
<1> QED
  BY <1>2, CallFitsStep, CloserFitsStep DEF Typed

LEMMA TypedStarts ==
  ASSUME Init
  PROVE  Typed
<1>1. closer \in [Closers -> CloserRow] /\ user \in [Users -> CallRow]
  BY DEF Init, IdleCloser, IdleUser, End, CloserRow, CallRow, CallSteps, PlanStates
<1>2. bus \in Seq(Event) /\ Len(bus) <= BusSize
  BY EmptySeq, InboxAssumption DEF Init
<1>3. TypeOK
  BY <1>1, <1>2 DEF Init, TypeOK, CloserRow, CallRow, CallSteps, Event, ItemStates, PlanStates
<1> QED
  BY <1>3 DEF Typed, CallFits, CloserFits, Init, IdleUser, IdleCloser

\* The tables, the tasks and the calls stay well typed.
THEOREM InboxTypeCorrect == Spec => []TypeOK
<1>1. Typed => TypeOK
  BY DEF Typed
<1> QED
  BY <1>1, TypedStep, TypedStarts, PTL DEF Spec

-----------------------------------------------------------------------------
(* Links.  From here on the races that the locks do not cover are ruled    *)
(* out, as in the runs.                                                    *)

\* The call makes a plan nobody else has heard of.
Linking(u) == user[u].at \in {"ready", "link"}

Cancelling(u) == user[u].at \in {"discard", "reset", "unlink"}

\* A new plan is one caller's until it is linked; a cancel works on the link
\* it has read, or on none.
CallsApart ==
  \A u \in Users :
    /\ user[u].at = "ready" => plan[user[u].plan] = "draft"
    /\ user[u].at = "link" => plan[user[u].plan] = "open"
    /\ user[u].at \notin {"idle", "insert"} => plan[user[u].plan] # "unused"
    /\ Linking(u) =>
         /\ \A i \in Items : link[i] # user[u].plan
         /\ \A v \in Users \ {u} :
              user[v].at \notin {"idle", "insert"} => user[v].plan # user[u].plan
    /\ Cancelling(u) => link[user[u].item] \in {user[u].plan, None}
    /\ user[u].at \in {"reset", "unlink"} => plan[user[u].plan] \in Ended

\* A plan is linked to one item, once it can be reviewed.
LinksFit ==
  /\ \A i \in Items : link[i] # None => plan[link[i]] \in {"open"} \cup Ended
  /\ \A i, j \in Items : link[i] # None /\ link[i] = link[j] => i = j

\* Whatever was announced, listed or taken by a closer has ended.
EventsEnded ==
  /\ \A end \in Waiting : plan[end.plan] \in Ended
  /\ \A c \in Closers :
       /\ \A end \in closer[c].todo : plan[end.plan] \in Ended
       /\ closer[c].at # "idle" => plan[closer[c].end.plan] \in Ended

\* The item a closer works on is linked to the closer's plan or to none.
HeldLinks ==
  \A c \in Closers :
    closer[c].item # None => link[closer[c].item] \in {closer[c].end.plan, None}

Links == CallsApart /\ LinksFit /\ EventsEnded /\ HeldLinks

\* No step makes a link.
Shrinks == \A i \in Items : link'[i] \in {link[i], None}

\* A step of a closer, or of a user that is not linking a plan, makes no link.
LEMMA LinkMoves ==
  ASSUME Typed, [Next]_inboxVars
  PROVE  \/ Shrinks
         \/ \E u \in Users :
              /\ ConfirmLink(u)
              /\ link[user[u].item] = None
              /\ link' = [link EXCEPT ![user[u].item] = user[u].plan]
              /\ user' = [user EXCEPT ![u].at = "mark"]
<1>1. ASSUME NEW u \in Users, UserStep(u)
      PROVE  Shrinks \/ (/\ ConfirmLink(u)
                         /\ link[user[u].item] = None
                         /\ link' = [link EXCEPT ![user[u].item] = user[u].plan]
                         /\ user' = [user EXCEPT ![u].at = "mark"])
  <2>1. CASE ConfirmLink(u)
    BY <2>1 DEF ConfirmLink, Shrinks
  <2>2. CASE CancelUnlink(u)
    BY <2>2 DEF CancelUnlink, Shrinks, Typed, TypeOK
  <2>3. CASE ~ (ConfirmLink(u) \/ CancelUnlink(u))
    <3>1. UNCHANGED link
      BY <1>1, <2>3 DEF UserStep, ConfirmCheck, CancelRead, ConfirmInsert, ConfirmReady,
         ConfirmMark, CancelDiscard, CancelReset, CallFails, db
    <3> QED
      BY <3>1 DEF Shrinks
  <2> QED
    BY <2>1, <2>2, <2>3
<1>2. ASSUME NEW c \in Closers, CloserStep(c) \/ StepFails(c)
      PROVE  Shrinks
  <2>1. CASE DeleteLink(c)
    BY <2>1 DEF DeleteLink, Shrinks, Typed, TypeOK
  <2>2. CASE ~ DeleteLink(c)
    <3>1. UNCHANGED link
      BY <1>2, <2>2 DEF CloserStep, Lock, Register, InsertSession, InsertFingerprint, Find,
         SetState, StepFails, db
    <3> QED
      BY <3>1 DEF Shrinks
  <2> QED
    BY <2>1, <2>2
<1>3. CASE UNCHANGED link
  BY <1>3 DEF Shrinks
<1>4. {"listener", "sweep"} = Closers
  BY DEF Closers
<1> QED
  BY <1>1, <1>2, <1>3, <1>4 DEF Next, Listener, Sweep, ListenerReceives, SweepStarts, SweepTakes,
     Classify, PlanEnds, Crash, db, inboxVars

\* A plan that has ended stays ended, and one that can be reviewed is so until
\* it ends.
LEMMA PlanMoves ==
  ASSUME Typed, CallsApart, [Next]_inboxVars
  PROVE  /\ \A p \in Plans : plan[p] \in Ended => plan'[p] \in Ended
         /\ \A p \in Plans : plan[p] = "open" => plan'[p] \in {"open"} \cup Ended
         /\ \A p \in Plans : plan[p] # "unused" => plan'[p] # "unused"
<1>1. ASSUME NEW u \in Users, ConfirmReady(u)
      PROVE  plan[user[u].plan] = "draft" /\ plan' = [plan EXCEPT ![user[u].plan] = "open"]
  BY <1>1 DEF ConfirmReady, CallsApart
<1>2. ASSUME NEW u \in Users, UserStep(u), ~ ConfirmReady(u)
      PROVE  \/ UNCHANGED plan
             \/ \E p \in Plans : /\ plan[p] = "unused"
                                 /\ plan' = [plan EXCEPT ![p] = "draft"]
             \/ \E p \in Plans : plan' = [plan EXCEPT ![p] = "discarded"]
  <2>1. CASE CancelDiscard(u)
    BY <2>1 DEF CancelDiscard, Typed, CallFits
  <2>2. CASE ~ CancelDiscard(u)
    BY <1>2, <2>2 DEF UserStep, ConfirmCheck, CancelRead, ConfirmInsert, ConfirmLink, ConfirmMark,
       CancelReset, CancelUnlink, CallFails, db
  <2> QED
    BY <2>1, <2>2
<1>3. ASSUME NEW p \in Plans, NEW s \in {"applied", "ended"}, PlanEnds(p, s)
      PROVE  plan' = [plan EXCEPT ![p] = s]
  BY <1>3 DEF PlanEnds
<1>4. \/ UNCHANGED plan
      \/ \E u \in Users : UserStep(u)
      \/ \E p \in Plans, s \in {"applied", "ended"} : PlanEnds(p, s)
  BY DEF Next, Listener, Sweep, CloserStep, Lock, Register, InsertSession,
     InsertFingerprint, Find, SetState, DeleteLink, StepFails, ListenerReceives, SweepStarts,
     SweepTakes, Classify, Crash, db, inboxVars
<1>5. plan \in [Plans -> PlanStates]
  BY DEF Typed, TypeOK
<1> QED
  BY <1>1, <1>2, <1>3, <1>4, <1>5 DEF Ended

\* A plan is linked once, by the call that made it.
LEMMA LinksFitStep ==
  ASSUME Typed, Links, [Next]_inboxVars
  PROVE  LinksFit'
<1>1. /\ link \in [Items -> Plans \cup {None}] /\ link' \in [Items -> Plans \cup {None}]
      /\ None \notin Plans
  BY TypedStep, InboxAssumption DEF Typed, TypeOK
<1>2. \A p \in Plans : plan[p] \in {"open"} \cup Ended => plan'[p] \in {"open"} \cup Ended
  BY PlanMoves DEF Links
<1>3. CASE Shrinks
  BY <1>1, <1>2, <1>3 DEF Shrinks, Links, LinksFit
<1>4. ASSUME NEW u \in Users, ConfirmLink(u), link[user[u].item] = None,
             link' = [link EXCEPT ![user[u].item] = user[u].plan]
      PROVE  LinksFit'
  <2>1. /\ user[u].at = "link" /\ user[u].item \in Items /\ user[u].plan \in Plans
        /\ plan[user[u].plan] = "open" /\ \A i \in Items : link[i] # user[u].plan
    BY <1>4 DEF ConfirmLink, Typed, CallFits, Links, CallsApart, Linking
  <2> QED
    BY <1>1, <1>2, <1>4, <2>1 DEF Links, LinksFit
<1> QED
  BY <1>3, <1>4, LinkMoves

\* What is announced, listed or taken has ended.
LEMMA EventsEndedStep ==
  ASSUME Typed, Links, [Next]_inboxVars
  PROVE  EventsEnded'
<1>1. /\ \A p \in Plans : plan[p] \in Ended => plan'[p] \in Ended
      /\ plan \in [Plans -> PlanStates]
      /\ closer \in [Closers -> CloserRow] /\ BusOK /\ {"listener", "sweep"} = Closers
  BY PlanMoves DEF Links, Typed, TypeOK, CloserRow, BusOK, Event, Closers
<1>2. Waiting \subseteq Event
  <2>1. \A n \in 1 .. Len(bus) : bus[n] \in Event
    BY <1>1, ElementOfSeq DEF BusOK
  <2> QED
    BY <2>1 DEF Waiting
<1>3. /\ \A end \in Waiting : end.plan \in Plans /\ plan'[end.plan] \in Ended
      /\ \A c \in Closers :
           /\ \A end \in closer[c].todo : end \in Event /\ plan'[end.plan] \in Ended
           /\ closer[c].at # "idle" => plan'[closer[c].end.plan] \in Ended
  BY <1>1, <1>2 DEF Links, EventsEnded, CloserRow, Event, Typed, CloserFits
<1>4. ASSUME NEW p \in Plans, NEW s \in PlanStates, Announce(p, s), plan'[p] \in Ended,
             UNCHANGED closer
      PROVE  EventsEnded'
  <2>1. Waiting' \subseteq Waiting \cup {End(p, s)}
    BY <1>1, <1>4, AnnounceBus
  <2>2. \A end \in Waiting' : plan'[end.plan] \in Ended
    BY <1>3, <1>4, <2>1 DEF End
  <2> QED
    BY <1>3, <1>4, <2>2 DEF EventsEnded
<1>5. CASE UNCHANGED <<bus, closer>>
  BY <1>3, <1>5 DEF EventsEnded, Waiting
<1>6. ASSUME NEW u \in Users, UserStep(u)
      PROVE  EventsEnded'
  <2>1. CASE CancelDiscard(u)
    <3>1. \/ UNCHANGED bus
          \/ \E p \in Plans : Announce(p, "discarded") /\ plan' = [plan EXCEPT ![p] = "discarded"]
      BY <2>1 DEF CancelDiscard, Typed, CallFits
    <3>2. UNCHANGED closer
      BY <2>1 DEF CancelDiscard
    <3> QED
      BY <1>1, <1>4, <1>5, <3>1, <3>2 DEF Ended, PlanStates
  <2>2. CASE ~ CancelDiscard(u)
    BY <1>5, <1>6, <2>2 DEF UserStep, ConfirmCheck, CancelRead, ConfirmInsert, ConfirmReady,
       ConfirmLink, ConfirmMark, CancelReset, CancelUnlink, CallFails
  <2> QED
    BY <2>1, <2>2
<1>7. ASSUME NEW p \in Plans, NEW s \in {"applied", "ended"}, PlanEnds(p, s)
      PROVE  EventsEnded'
  <2>1. plan'[p] \in Ended /\ Announce(p, s) /\ UNCHANGED closer
    BY <1>1, <1>7 DEF PlanEnds, Ended
  <2> QED
    BY <1>4, <2>1 DEF PlanStates
<1>8. ASSUME NEW c \in Closers, CloserStep(c) \/ StepFails(c)
      PROVE  EventsEnded'
  <2>1. UNCHANGED bus
    BY <1>8 DEF CloserStep, Lock, Register, InsertSession, InsertFingerprint, Find, SetState,
       DeleteLink, StepFails
  <2>2. \/ Leave(c)
        \/ \E step \in Steps : \/ closer' = [closer EXCEPT ![c].at = step]
                               \/ \E i : closer' = [closer EXCEPT ![c].at = step, ![c].item = i]
    BY <1>8 DEF CloserStep, Lock, Register, InsertSession, InsertFingerprint, Find, SetState,
       DeleteLink, StepFails, Goto, Steps
  <2>3. closer[c].at # "idle"
    BY <1>8 DEF CloserStep, Lock, Register, InsertSession, InsertFingerprint, Find, SetState,
       DeleteLink, StepFails, At, Steps
  <2>4. \A d \in Closers :
          /\ closer'[d].todo = closer[d].todo
          /\ closer'[d].at # "idle" => closer[d].at # "idle" /\ closer'[d].end = closer[d].end
    <3>1. CASE Leave(c)
      BY <1>1, <3>1 DEF Leave, CloserRow
    <3>2. ASSUME NEW step \in Steps, closer' = [closer EXCEPT ![c].at = step]
          PROVE  \A d \in Closers : /\ closer'[d].todo = closer[d].todo
                                    /\ closer'[d].end = closer[d].end
                                    /\ closer'[d].at # "idle" => closer[d].at # "idle"
      BY <1>1, <2>3, <3>2 DEF CloserRow
    <3>3. ASSUME NEW step \in Steps, NEW i,
                 closer' = [closer EXCEPT ![c].at = step, ![c].item = i]
          PROVE  \A d \in Closers : /\ closer'[d].todo = closer[d].todo
                                    /\ closer'[d].end = closer[d].end
                                    /\ closer'[d].at # "idle" => closer[d].at # "idle"
      BY <1>1, <2>3, <3>3 DEF CloserRow
    <3> QED
      BY <2>2, <3>1, <3>2, <3>3
  <2> QED
    BY <1>3, <2>1, <2>4 DEF EventsEnded, Waiting
<1>9. CASE ListenerReceives
  <2>1. Waiting' \subseteq Waiting /\ Head(bus) \in Waiting
    BY <1>1, <1>9, ReceiveBus DEF ListenerReceives
  <2>2. PICK end \in Waiting :
          closer' = [closer EXCEPT !["listener"].at = FirstStep(end), !["listener"].end = end]
    BY <1>9, <2>1 DEF ListenerReceives
  <2> QED
    BY <1>1, <1>3, <2>1, <2>2 DEF EventsEnded, CloserRow
<1>10. CASE SweepStarts
  <2>1. \A i \in Orphans : link[i] \in Plans /\ plan'[link[i]] \in Ended
    BY <1>1 DEF Orphans, Typed, TypeOK
  <2>2. \A end \in {End(link[i], plan[link[i]]) : i \in Orphans} : plan'[end.plan] \in Ended
    BY <2>1 DEF End
  <2>3. UNCHANGED bus
    BY <1>10 DEF SweepStarts
  <2> QED
    BY <1>1, <1>3, <1>10, <2>2, <2>3 DEF SweepStarts, EventsEnded, CloserRow, Waiting
<1>11. CASE SweepTakes
  <2>1. PICK end \in closer["sweep"].todo :
          closer' = [closer EXCEPT !["sweep"].at = FirstStep(end), !["sweep"].end = end,
                                   !["sweep"].todo = @ \ {end}]
    BY <1>11 DEF SweepTakes
  <2>2. UNCHANGED bus
    BY <1>11 DEF SweepTakes
  <2> QED
    BY <1>1, <1>3, <2>1, <2>2 DEF EventsEnded, CloserRow, Waiting
<1>12. CASE Crash
  <2>1. bus' = <<>> /\ closer' = [c \in Closers |-> IdleCloser]
    BY <1>12 DEF Crash
  <2>2. Waiting' = {}
    BY <2>1, EmptySeq DEF Waiting
  <2> QED
    BY <2>1, <2>2 DEF EventsEnded, IdleCloser
<1> QED
  BY <1>1, <1>5, <1>6, <1>7, <1>8, <1>9, <1>10, <1>11, <1>12 DEF Next, Listener, Sweep, Classify,
     inboxVars

\* A closer that has an item keeps it and its plan, or has just found the item
\* linked to the plan.
LEMMA CloserKeeps ==
  ASSUME Typed, [Next]_inboxVars
  PROVE  \A c \in Closers : closer'[c].item # None =>
           \/ closer'[c].item = closer[c].item /\ closer'[c].end = closer[c].end
           \/ /\ closer'[c].item \in Items /\ link[closer'[c].item] = closer'[c].end.plan
              /\ UNCHANGED link
<1> DEFINE Kept == \A c \in Closers : closer'[c].item # None =>
                     \/ closer'[c].item = closer[c].item /\ closer'[c].end = closer[c].end
                     \/ /\ closer'[c].item \in Items
                        /\ link[closer'[c].item] = closer'[c].end.plan
                        /\ UNCHANGED link
<1>1. closer \in [Closers -> CloserRow] /\ {"listener", "sweep"} = Closers
  BY DEF Typed, TypeOK, CloserRow, Event, Closers
<1>2. CASE UNCHANGED closer
  BY <1>2
<1>3. ASSUME NEW c \in Closers, CloserStep(c) \/ StepFails(c)
      PROVE  Kept
  <2>1. CASE Leave(c)
    BY <1>1, <2>1 DEF Leave, CloserRow
  <2>2. ASSUME NEW step, closer' = [closer EXCEPT ![c].at = step]
        PROVE  Kept
    BY <1>1, <2>2 DEF CloserRow
  <2>3. ASSUME NEW step, NEW i \in LinkedTo(closer[c].end.plan), UNCHANGED link,
               closer' = [closer EXCEPT ![c].at = step, ![c].item = i]
        PROVE  Kept
    BY <1>1, <2>3 DEF CloserRow, LinkedTo
  <2>4. CASE Register(c) \/ Find(c)
    BY <2>1, <2>2, <2>3, <2>4 DEF Register, Find, Goto, db
  <2>5. CASE \/ Lock(c) \/ InsertSession(c) \/ InsertFingerprint(c) \/ SetState(c)
             \/ DeleteLink(c) \/ StepFails(c)
    BY <2>1, <2>2, <2>5 DEF Lock, InsertSession, InsertFingerprint, SetState, DeleteLink,
       StepFails, Goto
  <2> QED
    BY <1>3, <2>4, <2>5 DEF CloserStep
<1>4. CASE ListenerReceives \/ SweepStarts \/ SweepTakes
  <2>1. CASE SweepStarts
    <3>1. PICK todo : closer' = [closer EXCEPT !["sweep"].todo = todo]
      BY <2>1 DEF SweepStarts
    <3> QED
      BY <1>1, <3>1 DEF CloserRow
  <2>2. CASE ListenerReceives
    <3>1. PICK step, end : closer' = [closer EXCEPT !["listener"].at = step, !["listener"].end = end]
      BY <2>2 DEF ListenerReceives
    <3>2. closer["listener"].item = None
      BY <1>1, <2>2 DEF ListenerReceives, At, Typed, CloserFits
    <3> QED
      BY <1>1, <3>1, <3>2 DEF CloserRow
  <2>3. CASE SweepTakes
    <3>1. PICK step, end, todo :
            closer' = [closer EXCEPT !["sweep"].at = step, !["sweep"].end = end,
                                     !["sweep"].todo = todo]
      BY <2>3 DEF SweepTakes
    <3>2. closer["sweep"].item = None
      BY <1>1, <2>3 DEF SweepTakes, At, Typed, CloserFits
    <3> QED
      BY <1>1, <3>1, <3>2 DEF CloserRow
  <2> QED
    BY <1>4, <2>1, <2>2, <2>3
<1>5. CASE Crash
  BY <1>5 DEF Crash, IdleCloser
<1> QED
  BY <1>1, <1>2, <1>3, <1>4, <1>5 DEF Next, Listener, Sweep, UserStep, ConfirmCheck,
     CancelRead, ConfirmInsert, ConfirmReady, ConfirmLink, ConfirmMark, CancelDiscard,
     CancelReset, CancelUnlink, CallFails, Classify, PlanEnds, inboxVars

\* Nobody links another plan to the item of a closer.
LEMMA HeldLinksStep ==
  ASSUME Races = FALSE, Typed, Links, [Next]_inboxVars
  PROVE  HeldLinks'
<1>1. /\ closer \in [Closers -> CloserRow] /\ closer' \in [Closers -> CloserRow]
      /\ link \in [Items -> Plans \cup {None}]
  BY TypedStep DEF Typed, TypeOK, CloserRow, Event
<1>2. CASE Shrinks
  BY <1>1, <1>2, CloserKeeps DEF Shrinks, CloserRow, Links, HeldLinks
<1>3. ASSUME NEW u \in Users, ConfirmLink(u),
             link' = [link EXCEPT ![user[u].item] = user[u].plan]
      PROVE  HeldLinks'
  <2>1. UNCHANGED closer /\ \A c \in Closers : closer[c].item # user[u].item
    BY <1>3 DEF ConfirmLink, Closing
  <2> QED
    BY <1>1, <1>3, <2>1 DEF CloserRow, Links, HeldLinks
<1> QED
  BY <1>2, <1>3, LinkMoves

\* Where no plan moves and no link is made, a call keeps its plan and its link;
\* it may also return.
LEMMA CallsApartKept ==
  ASSUME Typed, CallsApart, Shrinks, UNCHANGED plan,
         UNCHANGED user \/ \E u \in Users : user' = [user EXCEPT ![u] = IdleUser]
  PROVE  CallsApart'
<1>1. link \in [Items -> Plans \cup {None}] /\ None \notin Plans /\ user \in [Users -> CallRow]
  BY InboxAssumption DEF Typed, TypeOK, CallRow, CallSteps
<1>2. ASSUME NEW u \in Users, user'[u].at # "idle"
      PROVE  user'[u] = user[u] /\ user[u].at # "idle"
  BY <1>1, <1>2 DEF IdleUser
<1>3. ASSUME NEW u \in Users, NEW i \in Items, link'[i] \in Plans
      PROVE  link[i] = link'[i]
  BY <1>1, <1>3 DEF Shrinks
<1>4. ASSUME NEW u \in Users
      PROVE  /\ user'[u].at = "ready" => plan[user'[u].plan] = "draft"
             /\ user'[u].at = "link" => plan[user'[u].plan] = "open"
             /\ user'[u].at \notin {"idle", "insert"} => plan[user'[u].plan] # "unused"
             /\ user'[u].at \in {"reset", "unlink"} => plan[user'[u].plan] \in Ended
  BY <1>2 DEF CallsApart
<1>5. ASSUME NEW u \in Users, user'[u].at \in {"ready", "link"}
      PROVE  /\ \A i \in Items : link'[i] # user'[u].plan
             /\ \A v \in Users \ {u} :
                  user'[v].at \notin {"idle", "insert"} => user'[v].plan # user'[u].plan
  <2>1. user'[u] = user[u] /\ Linking(u) /\ user[u].plan \in Plans
    BY <1>2, <1>5 DEF Linking, Typed, CallFits
  <2> QED
    BY <1>2, <1>3, <2>1 DEF CallsApart
<1>6. ASSUME NEW u \in Users, user'[u].at \in {"discard", "reset", "unlink"}
      PROVE  link'[user'[u].item] \in {user'[u].plan, None}
  <2>1. user'[u] = user[u] /\ Cancelling(u) /\ user[u].item \in Items
    BY <1>2, <1>6 DEF Cancelling, Typed, CallFits
  <2> QED
    BY <2>1 DEF CallsApart, Shrinks
<1> QED
  BY <1>4, <1>5, <1>6 DEF CallsApart, Linking, Cancelling

\* The steps of the calls keep them apart.
LEMMA CallsApartByUser ==
  ASSUME Races = FALSE, Typed, Links, NEW u \in Users, UserStep(u)
  PROVE  CallsApart'
<1>1. /\ link \in [Items -> Plans \cup {None}] /\ plan \in [Plans -> PlanStates]
      /\ None \notin Plans /\ user \in [Users -> CallRow]
  BY InboxAssumption DEF Typed, TypeOK, CallRow, CallSteps
<1>2. /\ \A v \in Users : user[v].at # "idle" => user[v].item \in Items
      /\ \A v \in Users : user[v].at \notin {"idle", "insert"} => user[v].plan \in Plans
      /\ CallsApart
  BY DEF Typed, CallFits, Links
<1>3. ASSUME NEW i \in Items, ConfirmCheck(u, i)
      PROVE  CallsApart'
  BY <1>1, <1>2, <1>3 DEF ConfirmCheck, db, CallsApart, Linking, Cancelling, CallRow
<1>4. ASSUME NEW p \in Plans, ConfirmInsert(u, p)
      PROVE  CallsApart'
  <2>1. \A v \in Users : user[v].at \notin {"idle", "insert"} => user[v].plan # p
    BY <1>2, <1>4 DEF ConfirmInsert, CallsApart
  <2>2. \A i \in Items : link[i] # p
    BY <1>1, <1>4 DEF ConfirmInsert, Links, LinksFit, Ended
  <2>3. /\ user'[u].at = "ready" /\ user'[u].plan = p /\ plan'[p] = "draft"
        /\ \A v \in Users \ {u} : user'[v] = user[v]
        /\ \A q \in Plans \ {p} : plan'[q] = plan[q]
        /\ link' = link
    BY <1>1, <1>4 DEF ConfirmInsert, CallRow
  <2> QED
    BY <1>2, <2>1, <2>2, <2>3 DEF CallsApart, Linking, Cancelling
<1>5. CASE ConfirmReady(u)
  <2>1. /\ user'[u].at = "link" /\ user'[u].plan = user[u].plan /\ user[u].at = "ready"
        /\ plan'[user[u].plan] = "open"
        /\ \A v \in Users \ {u} : user'[v] = user[v]
        /\ \A q \in Plans \ {user[u].plan} : plan'[q] = plan[q]
        /\ link' = link
    BY <1>1, <1>2, <1>5 DEF ConfirmReady, CallRow
  <2>2. \A v \in Users \ {u} : user[v].at \notin {"idle", "insert"} => user[v].plan # user[u].plan
    BY <1>2, <2>1 DEF CallsApart, Linking
  <2> QED
    BY <1>2, <2>1, <2>2 DEF CallsApart, Linking, Cancelling
<1>6. CASE ConfirmLink(u)
  <2>1. CASE UNCHANGED link /\ user' = [user EXCEPT ![u] = IdleUser]
    BY <1>2, <1>6, <2>1, CallsApartKept DEF ConfirmLink, Shrinks
  <2>2. CASE /\ link' = [link EXCEPT ![user[u].item] = user[u].plan]
             /\ user' = [user EXCEPT ![u].at = "mark"]
    <3>1. /\ user'[u].at = "mark" /\ user'[u].plan = user[u].plan /\ user[u].at = "link"
          /\ link'[user[u].item] = user[u].plan
          /\ \A v \in Users \ {u} : user'[v] = user[v]
          /\ \A i \in Items \ {user[u].item} : link'[i] = link[i]
          /\ plan' = plan
      BY <1>1, <1>2, <1>6, <2>2 DEF ConfirmLink, CallRow
    <3>2. \A v \in Users : Cancelling(v) => user[v].item # user[u].item
      BY <1>6 DEF ConfirmLink, Closing, Cancelling
    <3>3. \A v \in Users \ {u} : user[v].at \notin {"idle", "insert"} => user[v].plan # user[u].plan
      BY <1>2, <3>1 DEF CallsApart, Linking
    <3> QED
      BY <1>2, <3>1, <3>2, <3>3 DEF CallsApart, Linking, Cancelling
  <2> QED
    BY <1>6, <2>1, <2>2 DEF ConfirmLink
<1>7. ASSUME NEW i \in Items, CancelRead(u, i)
      PROVE  CallsApart'
  <2>1. /\ user'[u].at = "discard" /\ user'[u].plan = link[i] /\ user'[u].item = i
        /\ \A v \in Users \ {u} : user'[v] = user[v]
        /\ link' = link /\ plan' = plan
    BY <1>1, <1>7 DEF CancelRead, db, CallRow
  <2>2. link[i] # None /\ plan[link[i]] # "unused"
    BY <1>1, <1>7 DEF CancelRead, Links, LinksFit, Ended
  <2> QED
    BY <1>2, <2>1, <2>2 DEF CallsApart, Linking, Cancelling
<1>8. CASE CancelDiscard(u)
  <2>1. CASE user' = [user EXCEPT ![u] = IdleUser] /\ UNCHANGED plan
    BY <1>2, <1>8, <2>1, CallsApartKept DEF CancelDiscard, Shrinks
  <2>2. CASE user' = [user EXCEPT ![u].at = "reset"]
    <3>1. /\ user'[u].at = "reset" /\ user'[u].plan = user[u].plan /\ user[u].at = "discard"
          /\ user'[u].item = user[u].item
          /\ plan'[user[u].plan] = "discarded"
          /\ \A v \in Users \ {u} : user'[v] = user[v]
          /\ \A q \in Plans \ {user[u].plan} : plan'[q] = plan[q]
          /\ link' = link
      <4>1. user[u].at = "discard" /\ user[u].plan \in Plans /\ link' = link
        BY <1>2, <1>8 DEF CancelDiscard
      <4>2. \/ plan' = [plan EXCEPT ![user[u].plan] = "discarded"]
            \/ plan[user[u].plan] = "discarded" /\ plan' = plan
        BY <1>1, <1>8, <2>2 DEF CancelDiscard, IdleUser, CallRow
      <4>3. /\ plan'[user[u].plan] = "discarded"
            /\ \A q \in Plans \ {user[u].plan} : plan'[q] = plan[q]
        BY <1>1, <4>1, <4>2
      <4> QED
        BY <1>1, <2>2, <4>1, <4>3 DEF CallRow
    <3>2. \A v \in Users \ {u} : Linking(v) => user[v].plan # user[u].plan
      BY <1>2, <3>1 DEF CallsApart
    <3> QED
      BY <1>2, <3>1, <3>2 DEF CallsApart, Linking, Cancelling, Ended
  <2> QED
    BY <1>8, <2>1, <2>2 DEF CancelDiscard
<1>9. CASE CancelReset(u)
  <2>1. /\ user'[u].at = "unlink" /\ user'[u].plan = user[u].plan /\ user[u].at = "reset"
        /\ user'[u].item = user[u].item
        /\ \A v \in Users \ {u} : user'[v] = user[v]
        /\ link' = link /\ plan' = plan
    BY <1>1, <1>9 DEF CancelReset, CallRow
  <2> QED
    BY <1>2, <2>1 DEF CallsApart, Linking, Cancelling
<1>10. CASE ConfirmMark(u) \/ CancelUnlink(u) \/ CallFails(u)
  <2>1. Shrinks
    BY <1>1, <1>10 DEF ConfirmMark, CancelUnlink, CallFails, db, Shrinks
  <2> QED
    BY <1>2, <1>10, <2>1, CallsApartKept DEF ConfirmMark, CancelUnlink, CallFails, db
<1> QED
  BY <1>3, <1>4, <1>5, <1>6, <1>7, <1>8, <1>9, <1>10 DEF UserStep

\* A plan ends when no call is at work on it; other steps move no plan.
LEMMA CallsApartStep ==
  ASSUME Races = FALSE, Typed, Links, [Next]_inboxVars
  PROVE  CallsApart'
<1>1. /\ link \in [Items -> Plans \cup {None}] /\ plan \in [Plans -> PlanStates]
      /\ user \in [Users -> CallRow]
  BY DEF Typed, TypeOK, CallRow, CallSteps
<1>2. ASSUME NEW p \in Plans, NEW s \in {"applied", "ended"}, PlanEnds(p, s)
      PROVE  CallsApart'
  <2>1. /\ \A u \in Users : user[u].plan # p
        /\ \A q \in Plans \ {p} : plan'[q] = plan[q]
        /\ user' = user /\ link' = link
    BY <1>1, <1>2 DEF PlanEnds
  <2>2. \A u \in Users : user[u].at \notin {"idle", "insert"} => user[u].plan \in Plans \ {p}
    BY <2>1 DEF Typed, CallFits
  <2> QED
    BY <2>1, <2>2 DEF Links, CallsApart, Linking, Cancelling
<1>3. CASE Crash
  BY <1>3 DEF Crash, CallsApart, IdleUser, Linking, Cancelling
<1>4. CASE UNCHANGED <<user, plan>>
  <2>1. \A u \in Users : ConfirmLink(u) => user' # [user EXCEPT ![u].at = "mark"]
    BY <1>1, <1>4 DEF ConfirmLink, CallRow
  <2> QED
    BY <1>4, <2>1, LinkMoves, CallsApartKept DEF Links
<1>5. {"listener", "sweep"} = Closers
  BY DEF Closers
<1>6. \/ UNCHANGED <<user, plan>>
      \/ \E u \in Users : UserStep(u)
      \/ \E p \in Plans, s \in {"applied", "ended"} : PlanEnds(p, s)
      \/ Crash
  BY <1>5 DEF Next, Listener, Sweep, CloserStep, Lock, Register, InsertSession,
     InsertFingerprint, Find, SetState, DeleteLink, StepFails, ListenerReceives, SweepStarts,
     SweepTakes, Classify, db, inboxVars
<1> QED
  BY <1>2, <1>3, <1>4, <1>6, CallsApartByUser

\* Links hold in every step, and at the start.
LEMMA LinksStep ==
  ASSUME Races = FALSE, Typed, Links, [Next]_inboxVars
  PROVE  Links'
BY CallsApartStep, LinksFitStep, EventsEndedStep, HeldLinksStep DEF Links

LEMMA LinksStart ==
  ASSUME Init
  PROVE  Links
<1>1. Waiting = {}
  BY EmptySeq DEF Init, Waiting
<1> QED
  BY <1>1 DEF Init, Links, CallsApart, LinksFit, EventsEnded, HeldLinks, IdleUser, IdleCloser,
     Linking, Cancelling

\* The links that a step removes are of plans that have ended.
LEMMA UnlinksEnded ==
  ASSUME Typed, Links, [Next]_inboxVars, NEW i \in Items, link[i] # None, link'[i] = None
  PROVE  plan[link[i]] \in Ended
<1>1. link \in [Items -> Plans \cup {None}] /\ None \notin Plans
  BY InboxAssumption DEF Typed, TypeOK
<1>2. ASSUME NEW c \in Closers, DeleteLink(c)
      PROVE  plan[link[i]] \in Ended
  <2>1. closer[c].item \in Items /\ closer[c].at = "delete"
    BY <1>2 DEF DeleteLink, At, Typed, CloserFits
  <2>2. closer[c].item = i
    BY <1>1, <1>2, <2>1 DEF DeleteLink
  <2>3. link[i] = closer[c].end.plan /\ plan[closer[c].end.plan] \in Ended
    BY <2>1, <2>2, InboxAssumption DEF Links, HeldLinks, EventsEnded
  <2> QED
    BY <2>3
<1>3. ASSUME NEW u \in Users, CancelUnlink(u)
      PROVE  plan[link[i]] \in Ended
  <2>1. user[u].at = "unlink" /\ user[u].item \in Items
    BY <1>3 DEF CancelUnlink, Typed, CallFits
  <2>2. user[u].item = i
    BY <1>1, <1>3, <2>1 DEF CancelUnlink
  <2> QED
    BY <2>1, <2>2 DEF Links, CallsApart, Cancelling
<1>4. ASSUME NEW u \in Users, ConfirmLink(u)
      PROVE  FALSE
  BY <1>1, <1>4 DEF ConfirmLink, Typed, CallFits
<1>5. {"listener", "sweep"} = Closers
  BY DEF Closers
<1>6. \/ UNCHANGED link
      \/ \E c \in Closers : DeleteLink(c)
      \/ \E u \in Users : CancelUnlink(u) \/ ConfirmLink(u)
  BY <1>5 DEF Next, Listener, Sweep, CloserStep, Lock, Register, InsertSession,
     InsertFingerprint, Find, SetState, StepFails, ListenerReceives, SweepStarts,
     SweepTakes, UserStep, ConfirmCheck, CancelRead, ConfirmInsert, ConfirmReady, ConfirmMark,
     CancelDiscard, CancelReset, CallFails, Classify, PlanEnds, Crash, db, inboxVars
<1> QED
  BY <1>2, <1>3, <1>4, <1>6

\* Without the races the locks do not cover, a plan that was linked keeps its
\* link until it has ended, so that its end reaches the item.
THEOREM PlansKeepTheirLinks ==
  ASSUME Races = FALSE
  PROVE  Spec => LinkOutlivesPlan
<1>1. Typed /\ Links /\ [Next]_inboxVars => (Typed /\ Links)'
  BY TypedStep, LinksStep
<1>2. Typed /\ Links /\ [Next]_inboxVars =>
        [\A i \in Items : link[i] # None /\ link'[i] = None => plan[link[i]] \in Ended]_inboxVars
  BY UnlinksEnded
<1>3. Init => Typed /\ Links
  BY TypedStarts, LinksStart
<1> QED
  BY <1>1, <1>2, <1>3, PTL DEF Spec, LinkOutlivesPlan

-----------------------------------------------------------------------------
(* Registration.                                                           *)

Registering(c) == closer[c].at \in {"session", "print"}

\* Whoever registers a plan's master holds the lock of the plan.
LockFits ==
  \A c \in Closers :
    closer[c].at \in {"register", "session", "print"} => lock[closer[c].end.plan] = c

\* No two closers register one item, and what is there tells how far they are.
OneRegistration ==
  /\ \A i \in Items : print[i] <= session[i] /\ session[i] <= 1
  /\ \A c \in Closers :
       /\ closer[c].at = "session" => session[closer[c].item] = 0
       /\ closer[c].at = "print" => /\ session[closer[c].item] = 1
                                    /\ print[closer[c].item] = 0
       /\ Registering(c) => \A d \in Closers \ {c} :
                              Registering(d) => closer[d].item # closer[c].item

\* A closer that is past the registration of an applied plan has nothing left to
\* register.
PastRegistration ==
  \A c \in Closers :
    /\ Registering(c) => \A j \in Items : link[j] = closer[c].end.plan => j = closer[c].item
    /\ closer[c].end.state = "applied" =>
         /\ closer[c].at = "find" =>
              \A j \in Masters : link[j] = closer[c].end.plan => session[j] > 0
         /\ closer[c].at = "state" /\ closer[c].item \in Masters =>
              session[closer[c].item] > 0

Registered == LockFits /\ OneRegistration /\ PastRegistration /\ ResolvedIsRegistered

\* An item is not linked to a plan that has ended already.
LEMMA NoLateLink ==
  ASSUME Typed, Links, [Next]_inboxVars, NEW j \in Items, NEW p \in Plans,
         plan[p] \in Ended, link'[j] = p
  PROVE  link[j] = p
<1>1. None \notin Plans /\ link \in [Items -> Plans \cup {None}]
  BY InboxAssumption DEF Typed, TypeOK
<1>2. CASE Shrinks
  BY <1>1, <1>2 DEF Shrinks
<1>3. ASSUME NEW u \in Users, ConfirmLink(u),
             link' = [link EXCEPT ![user[u].item] = user[u].plan]
      PROVE  link[j] = p
  <2>1. plan[user[u].plan] = "open"
    BY <1>3 DEF ConfirmLink, Links, CallsApart
  <2> QED
    BY <1>1, <1>3, <2>1 DEF Ended
<1> QED
  BY <1>2, <1>3, LinkMoves

\* Steps that are not a closer's.
LEMMA RegisteredByOthers ==
  ASSUME Typed, Links, Registered, [Next]_inboxVars, UNCHANGED <<closer, lock, session, print>>,
         \A i \in Items : item'[i] = "resolved" => item[i] = "resolved"
  PROVE  Registered'
<1>1. Masters \subseteq Items
  BY InboxAssumption
<1>2. ASSUME NEW c \in Closers, closer[c].at # "idle", NEW j \in Items,
             link'[j] = closer[c].end.plan
      PROVE  link[j] = closer[c].end.plan
  <2>1. closer[c].end.plan \in Plans /\ plan[closer[c].end.plan] \in Ended
    BY <1>2 DEF Typed, CloserFits, Links, EventsEnded, Event
  <2> QED
    BY <1>2, <2>1, NoLateLink
<1>3. PastRegistration'
  BY <1>1, <1>2 DEF Registered, PastRegistration, Registering
<1> QED
  BY <1>1, <1>3 DEF Registered, LockFits, OneRegistration, Registering, ResolvedIsRegistered

\* A closer that leaves, or goes on without writing, ...
LEMMA RegisteredByTaking ==
  ASSUME Typed, Links, Registered, [Next]_inboxVars, UNCHANGED <<session, print>>,
         \A i \in Items : item'[i] = "resolved" => item[i] = "resolved",
         NEW c \in Closers,
         \A d \in Closers \ {c} : closer'[d] = closer[d],
         \A p \in Plans : lock[p] # c => lock'[p] = lock[p],
         closer'[c].at \in {"idle", "lock", "find", "delete"},
         closer'[c].at = "find" /\ closer'[c].end.state = "applied" =>
           \A j \in Masters : link'[j] = closer'[c].end.plan => session[j] > 0
  PROVE  Registered'
<1>1. Masters \subseteq Items
  BY InboxAssumption
<1>2. ASSUME NEW d \in Closers, closer[d].at # "idle"
      PROVE  /\ closer[d].end.plan \in Plans
             /\ \A j \in Items : link'[j] = closer[d].end.plan => link[j] = closer[d].end.plan
  <2>1. closer[d].end.plan \in Plans /\ plan[closer[d].end.plan] \in Ended
    BY <1>2 DEF Typed, CloserFits, Links, EventsEnded, Event
  <2> QED
    BY <2>1, NoLateLink
<1>3. LockFits'
  <2> SUFFICES ASSUME NEW d \in Closers, closer'[d].at \in {"register", "session", "print"}
               PROVE  lock'[closer'[d].end.plan] = d
    BY DEF LockFits
  <2>1. d # c /\ closer'[d] = closer[d] /\ closer[d].at # "idle"
    OBVIOUS
  <2> QED
    BY <1>2, <2>1 DEF Registered, LockFits
<1>4. OneRegistration'
  BY DEF Registered, OneRegistration, Registering
<1>5. PastRegistration'
  <2>1. ASSUME NEW d \in Closers \ {c}
        PROVE  /\ Registering(d)' => \A j \in Items : link'[j] = closer'[d].end.plan =>
                                       j = closer'[d].item
               /\ closer'[d].end.state = "applied" =>
                    /\ closer'[d].at = "find" =>
                         \A j \in Masters : link'[j] = closer'[d].end.plan => session'[j] > 0
                    /\ closer'[d].at = "state" /\ closer'[d].item \in Masters =>
                         session'[closer'[d].item] > 0
    BY <1>1, <1>2 DEF Registered, PastRegistration, Registering
  <2> QED
    BY <2>1 DEF PastRegistration, Registering
<1> QED
  BY <1>1, <1>3, <1>4, <1>5 DEF Registered, ResolvedIsRegistered

\* ... and the steps of a closer at work.
LEMMA RegisteredByCloser ==
  ASSUME Typed, Links, Registered, [Next]_inboxVars, NEW c \in Closers,
         CloserStep(c) \/ StepFails(c)
  PROVE  Registered'
<1>1. /\ closer \in [Closers -> CloserRow] /\ lock \in [Plans -> Closers \cup {None}]
      /\ session \in [Items -> Nat] /\ print \in [Items -> Nat] /\ Masters \subseteq Items
      /\ link \in [Items -> Plans \cup {None}] /\ item \in [Items -> ItemStates]
      /\ None \notin Items \cup Plans \cup Closers
  BY InboxAssumption DEF Typed, TypeOK, CloserRow, Event, Closers
<1>2. ASSUME NEW d \in Closers, closer[d].at # "idle"
      PROVE  /\ closer[d].end.plan \in Plans
             /\ \A j \in Items : link'[j] = closer[d].end.plan => link[j] = closer[d].end.plan
  <2>1. closer[d].end.plan \in Plans /\ plan[closer[d].end.plan] \in Ended
    BY <1>2 DEF Typed, CloserFits, Links, EventsEnded, Event
  <2> QED
    BY <2>1, NoLateLink
<1>3. ASSUME Leave(c), UNCHANGED <<session, print, item>>
      PROVE  Registered'
  <2>1. \A d \in Closers \ {c} : closer'[d] = closer[d]
    BY <1>1, <1>3 DEF Leave
  <2>2. closer'[c].at = "idle"
    BY <1>1, <1>3 DEF Leave, CloserRow
  <2>3. \A p \in Plans : lock[p] # c => lock'[p] = lock[p]
    BY <1>1, <1>3 DEF Leave
  <2> QED
    BY <1>3, <2>1, <2>2, <2>3, RegisteredByTaking
<1>4. CASE Lock(c)
  <2>1. /\ closer[c].at = "lock" /\ closer[c].end.plan \in Plans
        /\ lock[closer[c].end.plan] = None /\ lock' = [lock EXCEPT ![closer[c].end.plan] = c]
        /\ UNCHANGED <<item, link, session, print>>
    BY <1>2, <1>4 DEF Lock, At, db
  <2>2. /\ closer'[c].at = "register" /\ closer'[c].end = closer[c].end
        /\ \A d \in Closers \ {c} : closer'[d] = closer[d]
    BY <1>1, <1>4 DEF Lock, Goto, CloserRow
  <2>3. LockFits'
    BY <1>1, <2>1, <2>2 DEF Registered, LockFits
  <2> QED
    BY <2>1, <2>2, <2>3 DEF Registered, OneRegistration, PastRegistration, Registering,
       ResolvedIsRegistered
<1>5. CASE Register(c)
  <2>1. closer[c].at = "register" /\ UNCHANGED <<item, link, session, print, lock>>
    BY <1>5 DEF Register, At, db
  <2>2. CASE /\ Goto(c, "find")
             /\ {i \in LinkedTo(closer[c].end.plan) \cap Masters : session[i] = 0} = {}
    <3>1. /\ \A d \in Closers \ {c} : closer'[d] = closer[d]
          /\ closer'[c].at = "find" /\ closer'[c].end = closer[c].end
      BY <1>1, <2>2 DEF Goto, CloserRow
    <3>2. \A j \in Masters : link[j] = closer[c].end.plan => session[j] > 0
      BY <1>1, <2>2 DEF LinkedTo
    <3> QED
      BY <1>1, <2>1, <3>1, <3>2, RegisteredByTaking
  <2>3. ASSUME NEW i \in Items, link[i] = closer[c].end.plan, session[i] = 0,
               closer' = [closer EXCEPT ![c].at = "session", ![c].item = i]
        PROVE  Registered'
    <3>1. /\ \A d \in Closers \ {c} : closer'[d] = closer[d]
          /\ closer'[c].at = "session" /\ closer'[c].end = closer[c].end /\ closer'[c].item = i
      BY <1>1, <2>3 DEF CloserRow
    <3>2. ASSUME NEW d \in Closers \ {c}, Registering(d)
          PROVE  closer[d].item # i
      <4>1. closer[d].item \in Items /\ lock[closer[d].end.plan] = d
        BY <3>2 DEF Registering, Typed, CloserFits, Registered, LockFits
      <4>2. lock[closer[c].end.plan] = c /\ closer[c].end.plan \in Plans
        BY <1>2, <2>1 DEF Registered, LockFits
      <4>3. SUFFICES ASSUME closer[d].item = i
                     PROVE  FALSE
        OBVIOUS
      <4>4. link[i] = closer[d].end.plan
        BY <1>1, <2>3, <4>1, <4>2, <4>3 DEF Links, HeldLinks
      <4> QED
        BY <2>3, <4>1, <4>2, <4>4
    <3>3. OneRegistration'
      <4>1. ASSUME NEW d \in Closers
            PROVE  /\ closer'[d].at = "session" => session'[closer'[d].item] = 0
                   /\ closer'[d].at = "print" => /\ session'[closer'[d].item] = 1
                                                 /\ print'[closer'[d].item] = 0
        BY <2>1, <2>3, <3>1 DEF Registered, OneRegistration
      <4>2. ASSUME NEW d \in Closers, NEW e \in Closers \ {d}, Registering(d)', Registering(e)'
            PROVE  closer'[e].item # closer'[d].item
        BY <3>1, <3>2, <4>2 DEF Registered, OneRegistration, Registering
      <4>3. \A j \in Items : print'[j] <= session'[j] /\ session'[j] <= 1
        BY <2>1 DEF Registered, OneRegistration
      <4> QED
        BY <4>1, <4>2, <4>3 DEF OneRegistration
    <3>4. \A j \in Items : link[j] = closer[c].end.plan => j = i
      BY <1>1, <1>2, <2>1, <2>3 DEF Links, LinksFit
    <3>5. PastRegistration'
      BY <2>1, <3>1, <3>4 DEF Registered, PastRegistration, Registering
    <3> QED
      BY <2>1, <3>1, <3>3, <3>5 DEF Registered, LockFits, ResolvedIsRegistered
  <2> QED
    BY <1>5, <2>2, <2>3 DEF Register, LinkedTo
<1>6. CASE InsertSession(c)
  <2> DEFINE i == closer[c].item
  <2>1. /\ closer[c].at = "session" /\ i \in Items /\ session[i] = 0
        /\ UNCHANGED <<item, link, print, lock>>
    BY <1>6 DEF InsertSession, At, Typed, CloserFits, Registered, OneRegistration
  <2>2. /\ \A d \in Closers \ {c} : closer'[d] = closer[d]
        /\ closer'[c].at = "print" /\ closer'[c].end = closer[c].end /\ closer'[c].item = i
    BY <1>1, <1>6 DEF InsertSession, Goto, CloserRow
  <2>3. session'[i] = 1 /\ \A j \in Items \ {i} : session'[j] = session[j]
    BY <1>1, <1>6, <2>1 DEF InsertSession
  <2>4. \A j \in Items : session[j] > 0 => session'[j] > 0
    BY <1>1, <2>1, <2>3
  <2>5. print[i] = 0
    BY <1>1, <2>1 DEF Registered, OneRegistration
  <2>6. \A d \in Closers \ {c} : Registering(d) => closer[d].item \in Items \ {i}
    BY <2>1 DEF Registered, OneRegistration, Registering, Typed, CloserFits
  <2> HIDE DEF i
  <2>7. OneRegistration'
    <3>1. \A j \in Items : print'[j] <= session'[j] /\ session'[j] <= 1
      BY <1>1, <2>1, <2>3, <2>5 DEF Registered, OneRegistration
    <3>2. ASSUME NEW d \in Closers \ {c}
          PROVE  /\ closer'[d].at = "session" => session'[closer'[d].item] = 0
                 /\ closer'[d].at = "print" => /\ session'[closer'[d].item] = 1
                                               /\ print'[closer'[d].item] = 0
      BY <2>1, <2>2, <2>3, <2>6 DEF Registered, OneRegistration, Registering
    <3>3. ASSUME NEW d \in Closers, NEW e \in Closers \ {d}, Registering(d)', Registering(e)'
          PROVE  closer'[e].item # closer'[d].item
      BY <2>1, <2>2, <2>6, <3>3 DEF Registered, OneRegistration, Registering
    <3> QED
      BY <2>1, <2>2, <2>3, <2>5, <3>1, <3>2, <3>3 DEF OneRegistration
  <2>8. PastRegistration'
    <3>1. ASSUME NEW d \in Closers \ {c}, closer[d].end.state = "applied",
                 closer[d].at = "state", closer[d].item \in Masters
          PROVE  session'[closer[d].item] > 0
      <4>1. closer[d].item \in Items /\ session[closer[d].item] > 0
        BY <1>1, <3>1 DEF Registered, PastRegistration
      <4> QED
        BY <2>4, <4>1
    <3>2. ASSUME NEW d \in Closers \ {c}, closer[d].end.state = "applied", closer[d].at = "find",
                 NEW j \in Masters, link[j] = closer[d].end.plan
          PROVE  session'[j] > 0
      <4>1. j \in Items /\ session[j] > 0
        BY <1>1, <3>2 DEF Registered, PastRegistration
      <4> QED
        BY <2>4, <4>1
    <3>3. \A d \in Closers : Registering(d)' =>
            /\ Registering(d) /\ closer'[d].item = closer[d].item
            /\ closer'[d].end = closer[d].end
      BY <2>1, <2>2 DEF Registering, i
    <3>4. \A d \in Closers : Registering(d)' =>
            \A j \in Items : link'[j] = closer'[d].end.plan => j = closer'[d].item
      BY <2>1, <3>3 DEF Registered, PastRegistration
    <3>5. \A d \in Closers : closer'[d].at \in {"find", "state"} =>
            d # c /\ closer'[d] = closer[d]
      BY <2>2
    <3> QED
      BY <2>1, <3>1, <3>2, <3>4, <3>5 DEF PastRegistration
  <2>9. ResolvedIsRegistered'
    BY <1>1, <2>1, <2>4 DEF Registered, ResolvedIsRegistered
  <2> QED
    BY <2>1, <2>2, <2>7, <2>8, <2>9 DEF Registered, LockFits
<1>7. CASE InsertFingerprint(c)
  <2> DEFINE i == closer[c].item
  <2>1. /\ closer[c].at = "print" /\ i \in Items /\ print[i] = 0 /\ session[i] = 1
        /\ UNCHANGED <<item, link, session, lock>>
    BY <1>7 DEF InsertFingerprint, At, Typed, CloserFits, Registered, OneRegistration
  <2>2. /\ \A d \in Closers \ {c} : closer'[d] = closer[d]
        /\ closer'[c].at = "find" /\ closer'[c].end = closer[c].end
    BY <1>1, <1>7 DEF InsertFingerprint, Goto, CloserRow
  <2>3. print'[i] = 1 /\ \A j \in Items \ {i} : print'[j] = print[j]
    BY <1>1, <1>7, <2>1 DEF InsertFingerprint
  <2>4. \A d \in Closers \ {c} : Registering(d) => closer[d].item \in Items \ {i}
    BY <2>1 DEF Registered, OneRegistration, Registering, Typed, CloserFits
  <2>5. \A j \in Masters : link[j] = closer[c].end.plan => session[j] > 0
    BY <1>1, <2>1 DEF Registered, PastRegistration, Registering
  <2> HIDE DEF i
  <2>6. OneRegistration'
    <3>1. \A j \in Items : print'[j] <= session'[j] /\ session'[j] <= 1
      BY <1>1, <2>1, <2>3 DEF Registered, OneRegistration
    <3>2. ASSUME NEW d \in Closers \ {c}
          PROVE  /\ closer'[d].at = "session" => session'[closer'[d].item] = 0
                 /\ closer'[d].at = "print" => /\ session'[closer'[d].item] = 1
                                               /\ print'[closer'[d].item] = 0
      BY <2>1, <2>2, <2>3, <2>4 DEF Registered, OneRegistration, Registering
    <3>3. ASSUME NEW d \in Closers, NEW e \in Closers \ {d}, Registering(d)', Registering(e)'
          PROVE  closer'[e].item # closer'[d].item
      BY <2>2, <3>3 DEF Registered, OneRegistration, Registering
    <3> QED
      BY <2>2, <3>1, <3>2, <3>3 DEF OneRegistration, Registering
  <2>7. PastRegistration'
    BY <2>1, <2>2, <2>5 DEF Registered, PastRegistration, Registering
  <2> QED
    BY <2>1, <2>2, <2>6, <2>7 DEF Registered, LockFits, ResolvedIsRegistered
<1>8. CASE Find(c)
  <2>1. closer[c].at = "find" /\ UNCHANGED <<item, link, session, print>>
    BY <1>8 DEF Find, At, db
  <2>2. ASSUME NEW i \in Items, link[i] = closer[c].end.plan, UNCHANGED lock,
               closer' = [closer EXCEPT ![c].at = "state", ![c].item = i]
        PROVE  Registered'
    <3>1. /\ \A d \in Closers \ {c} : closer'[d] = closer[d]
          /\ closer'[c].at = "state" /\ closer'[c].end = closer[c].end /\ closer'[c].item = i
      BY <1>1, <2>2 DEF CloserRow
    <3>2. PastRegistration'
      <4>1. closer[c].end.state = "applied" /\ i \in Masters => session[i] > 0
        BY <2>1, <2>2 DEF Registered, PastRegistration
      <4>2. ~ Registering(c)'
        BY <3>1 DEF Registering
      <4> QED
        BY <2>1, <3>1, <4>1, <4>2 DEF Registered, PastRegistration, Registering
    <3>3. OneRegistration'
      BY <2>1, <3>1 DEF Registered, OneRegistration, Registering
    <3> QED
      BY <2>1, <2>2, <3>1, <3>2, <3>3 DEF Registered, LockFits, ResolvedIsRegistered
  <2> QED
    BY <1>3, <1>8, <2>1, <2>2 DEF Find, LinkedTo
<1>9. CASE SetState(c)
  <2>1. /\ closer[c].at = "state" /\ closer[c].item \in Items
        /\ UNCHANGED <<link, session, print, lock>>
    BY <1>9 DEF SetState, At, Typed, CloserFits
  <2>2. /\ \A d \in Closers \ {c} : closer'[d] = closer[d]
        /\ closer'[c].at = "delete" /\ closer'[c].end = closer[c].end
    BY <1>1, <1>9 DEF SetState, Goto, CloserRow
  <2>3. ResolvedIsRegistered'
    <3> SUFFICES ASSUME NEW i \in Masters, item'[i] = "resolved"
                 PROVE  session'[i] > 0
      BY DEF ResolvedIsRegistered
    <3>1. CASE i = closer[c].item
      <4>1. closer[c].end.state = "applied"
        BY <1>1, <1>9, <3>1 DEF SetState
      <4> QED
        BY <2>1, <3>1, <4>1 DEF Registered, PastRegistration
    <3>2. CASE i # closer[c].item
      BY <1>1, <1>9, <2>1, <3>2 DEF SetState, Registered, ResolvedIsRegistered
    <3> QED
      BY <3>1, <3>2
  <2>4. OneRegistration' /\ PastRegistration' /\ LockFits'
    BY <2>1, <2>2 DEF Registered, OneRegistration, PastRegistration, LockFits, Registering
  <2> QED
    BY <2>3, <2>4 DEF Registered
<1>10. CASE DeleteLink(c) \/ StepFails(c)
  BY <1>3, <1>10 DEF DeleteLink, StepFails, db
<1> QED
  BY <1>4, <1>5, <1>6, <1>7, <1>8, <1>9, <1>10 DEF CloserStep

\* Every step keeps what is registered.
LEMMA RegisteredStep ==
  ASSUME Typed, Links, Registered, [Next]_inboxVars
  PROVE  Registered'
<1>1. closer \in [Closers -> CloserRow] /\ {"listener", "sweep"} = Closers
  BY DEF Typed, TypeOK, CloserRow, Event, Closers
<1>2. ASSUME UNCHANGED <<closer, lock, session, print>>,
             \/ UNCHANGED item
             \/ \E i \in Items, s \in {"unconfirmed", "plan_open"} : item' = [item EXCEPT ![i] = s]
      PROVE  Registered'
  BY <1>2, RegisteredByOthers DEF Typed, TypeOK
<1>3. ASSUME NEW c \in Closers, UNCHANGED <<lock, session, print, item>>,
             \A d \in Closers \ {c} : closer'[d] = closer[d],
             closer'[c].at \in {"idle", "lock", "find"},
             closer'[c].at = "find" => closer'[c].end.state # "applied"
      PROVE  Registered'
  BY <1>3, RegisteredByTaking
<1>4. \A end \in Event : /\ FirstStep(end) \in {"lock", "find"}
                         /\ FirstStep(end) = "find" => end.state # "applied"
  BY DEF FirstStep
<1>5. CASE ListenerReceives
  <2>1. Head(bus) \in Event
    BY <1>5, ReceiveBus DEF ListenerReceives, Typed, TypeOK, BusOK, Event
  <2>2. PICK end \in Event :
          closer' = [closer EXCEPT !["listener"].at = FirstStep(end), !["listener"].end = end]
    BY <1>5, <2>1 DEF ListenerReceives
  <2>3. /\ \A d \in Closers \ {"listener"} : closer'[d] = closer[d]
        /\ closer'["listener"].at = FirstStep(end) /\ closer'["listener"].end = end
    BY <1>1, <2>2 DEF CloserRow
  <2>4. UNCHANGED <<lock, session, print, item>>
    BY <1>5 DEF ListenerReceives, db
  <2> QED
    BY <1>1, <1>3, <1>4, <2>3, <2>4
<1>6. CASE SweepTakes
  <2>1. PICK end \in Event : \E todo :
          closer' = [closer EXCEPT !["sweep"].at = FirstStep(end), !["sweep"].end = end,
                                   !["sweep"].todo = todo]
    BY <1>1, <1>6 DEF SweepTakes, CloserRow
  <2>2. /\ \A d \in Closers \ {"sweep"} : closer'[d] = closer[d]
        /\ closer'["sweep"].at = FirstStep(end) /\ closer'["sweep"].end = end
    BY <1>1, <2>1 DEF CloserRow
  <2>3. UNCHANGED <<lock, session, print, item>>
    BY <1>6 DEF SweepTakes, db
  <2> QED
    BY <1>1, <1>3, <1>4, <2>2, <2>3
<1>7. CASE SweepStarts
  <2>1. PICK todo : closer' = [closer EXCEPT !["sweep"].todo = todo]
    BY <1>7 DEF SweepStarts
  <2>2. /\ \A d \in Closers \ {"sweep"} : closer'[d] = closer[d]
        /\ closer'["sweep"].at = closer["sweep"].at
    BY <1>1, <2>1 DEF CloserRow
  <2>3. closer["sweep"].at = "idle" /\ UNCHANGED <<lock, session, print, item>>
    BY <1>7 DEF SweepStarts, At, db
  <2> QED
    BY <1>1, <1>3, <2>2, <2>3
<1>8. CASE Crash
  <2>1. UNCHANGED <<item, link, session, print>> /\ \A c \in Closers : closer'[c].at = "idle"
    BY <1>8 DEF Crash, db, IdleCloser
  <2> QED
    BY <2>1 DEF Registered, LockFits, OneRegistration, PastRegistration, Registering,
       ResolvedIsRegistered
<1>9. ASSUME NEW u \in Users, UserStep(u)
      PROVE  Registered'
  <2>1. UNCHANGED <<closer, lock, session, print>>
    BY <1>9 DEF UserStep, ConfirmCheck, CancelRead, ConfirmInsert, ConfirmReady, ConfirmLink,
       ConfirmMark, CancelDiscard, CancelReset, CancelUnlink, CallFails, db
  <2>2. \/ UNCHANGED item
        \/ \E i \in Items, s \in {"unconfirmed", "plan_open"} : item' = [item EXCEPT ![i] = s]
    <3>1. CASE ConfirmMark(u) \/ CancelReset(u)
      BY <3>1 DEF ConfirmMark, CancelReset, Typed, CallFits
    <3> QED
      BY <1>9, <3>1 DEF UserStep, ConfirmCheck, CancelRead, ConfirmInsert, ConfirmReady,
         ConfirmLink, CancelDiscard, CancelUnlink, CallFails, db
  <2> QED
    BY <1>2, <2>1, <2>2
<1>10. CASE \/ \E i \in Items : Classify(i)
            \/ \E p \in Plans, s \in {"applied", "ended"} : PlanEnds(p, s)
            \/ UNCHANGED inboxVars
  BY <1>2, <1>10 DEF Classify, PlanEnds, inboxVars
<1> QED
  BY <1>1, <1>5, <1>6, <1>7, <1>8, <1>9, <1>10, RegisteredByCloser DEF Next, Listener, Sweep

\* All of it in every reachable state.
LEMMA AlwaysRegistered ==
  ASSUME Races = FALSE
  PROVE  Spec => [](Typed /\ Registered)
<1>1. Typed /\ Links /\ Registered /\ [Next]_inboxVars => (Typed /\ Links /\ Registered)'
  BY TypedStep, LinksStep, RegisteredStep
<1>2. Init => Typed /\ Links /\ Registered
  <2>1. Init => Registered
    BY InboxAssumption DEF Init, Registered, LockFits, OneRegistration, PastRegistration,
       Registering, ResolvedIsRegistered, IdleCloser
  <2> QED
    BY <2>1, TypedStarts, LinksStart
<1> QED
  BY <1>1, <1>2, PTL DEF Spec

\* Without the races the locks do not cover, whatever fails and however often a
\* completion is tried again, a master that reads `resolved` is registered ...
THEOREM ResolvedMasterIsRegistered ==
  ASSUME Races = FALSE
  PROVE  Spec => []ResolvedIsRegistered
<1>1. Registered => ResolvedIsRegistered
  BY DEF Registered
<1> QED
  BY <1>1, AlwaysRegistered, PTL

\* ... and it is registered once.
THEOREM MasterRegisteredOnce ==
  ASSUME Races = FALSE
  PROVE  Spec => []RegisteredOnce
<1>1. Typed /\ Registered => RegisteredOnce
  BY DEF Typed, TypeOK, Registered, OneRegistration, RegisteredOnce
<1> QED
  BY <1>1, AlwaysRegistered, PTL

-----------------------------------------------------------------------------
(* Nothing waits for ever, and what is closed has no link: what LinkCloses *)
(* needs beside fairness.                                                  *)

\* A lock is held by a closer that is past waiting, for the plan it works on.
HeldAtWork ==
  \A p \in Plans : lock[p] # None =>
    /\ closer[lock[p]].at \in Steps \ {"lock"}
    /\ closer[lock[p]].end.plan = p

\* A closer that waits holds no lock, and who holds the one it waits for is at work.
WaitsForOneAtWork ==
  \A c \in Closers : closer[c].at = "lock" =>
    /\ \A p \in Plans : lock[p] # c
    /\ lock[closer[c].end.plan] # None =>
         closer[lock[closer[c].end.plan]].at \in Steps \ {"lock"}

\* A closer that changes the item is at the only link of its plan.
LastLink ==
  \A c \in Closers : closer[c].at \in {"state", "delete"} =>
    \A j \in Items : link[j] = closer[c].end.plan => j = closer[c].item

\* Who is through with a plan leaves no link to it, unless a statement failed or
\* the process died.
ThroughIsUnlinked ==
  \A c \in Closers :
    closer[c].at # "idle" /\ closer'[c].at = "idle" /\ faults' = faults =>
      \A j \in Items : link'[j] # closer[c].end.plan

\* What the closers have to do with the plans they have, those listed and those
\* announced.
StepsLeft(c) ==
  CASE closer[c].at = "idle"     -> 0
    [] closer[c].at = "delete"   -> 1
    [] closer[c].at = "state"    -> 2
    [] closer[c].at = "find"     -> 3
    [] closer[c].at = "print"    -> 4
    [] closer[c].at = "session"  -> 5
    [] closer[c].at = "register" -> 6
    [] closer[c].at = "lock"     -> 7

ToClose ==
  StepsLeft("listener") + StepsLeft("sweep")
    + 8 * Len(bus) + 8 * Cardinality(closer["sweep"].todo)

RoundsEnd ==
  /\ Listener \/ SweepTakes \/ (\E c \in Closers : CloserStep(c) \/ StepFails(c))
       => ToClose' < ToClose
  /\ ToClose' > ToClose =>
       \/ SweepStarts
       \/ \E p \in Plans, s \in {"applied", "ended"} : PlanEnds(p, s)
       \/ \E u \in Users : CancelDiscard(u)

\* A plan that a confirm has inserted exists for good.
LEMMA PlansStay ==
  ASSUME Typed, [Next]_inboxVars
  PROVE  \A p \in Plans : plan[p] # "unused" => plan'[p] # "unused"
<1>1. plan \in [Plans -> PlanStates]
  BY DEF Typed, TypeOK
<1>2. ASSUME NEW q, NEW t, plan' = [plan EXCEPT ![q] = t], t # "unused"
      PROVE  \A p \in Plans : plan[p] # "unused" => plan'[p] # "unused"
  BY <1>1, <1>2
<1>3. ASSUME NEW u \in Users, NEW p \in Plans, ConfirmInsert(u, p)
      PROVE  plan' = [plan EXCEPT ![p] = "draft"]
  BY <1>3 DEF ConfirmInsert
<1>4. ASSUME NEW u \in Users, ConfirmReady(u)
      PROVE  plan' = [plan EXCEPT ![user[u].plan] = "open"]
  BY <1>4 DEF ConfirmReady
<1>5. ASSUME NEW u \in Users, CancelDiscard(u)
      PROVE  UNCHANGED plan \/ plan' = [plan EXCEPT ![user[u].plan] = "discarded"]
  BY <1>5 DEF CancelDiscard
<1>6. ASSUME NEW p \in Plans, NEW s \in {"applied", "ended"}, PlanEnds(p, s)
      PROVE  plan' = [plan EXCEPT ![p] = s]
  BY <1>6 DEF PlanEnds
<1>7. \/ UNCHANGED plan
      \/ \E u \in Users, p \in Plans : ConfirmInsert(u, p)
      \/ \E u \in Users : ConfirmReady(u) \/ CancelDiscard(u)
      \/ \E p \in Plans, s \in {"applied", "ended"} : PlanEnds(p, s)
  BY DEF Next, Listener, Sweep, CloserStep, Lock, Register, InsertSession,
     InsertFingerprint, Find, SetState, DeleteLink, StepFails, ListenerReceives, SweepStarts,
     SweepTakes, Classify, Crash, UserStep, ConfirmCheck, CancelRead, ConfirmLink, ConfirmMark,
     CancelReset, CancelUnlink, CallFails, db, inboxVars
<1>8. CASE UNCHANGED plan
  BY <1>8
<1>9. CASE \E u \in Users, p \in Plans : ConfirmInsert(u, p)
  BY <1>2, <1>3, <1>9
<1>10. CASE \E u \in Users : ConfirmReady(u) \/ CancelDiscard(u)
  <2>1. PICK u \in Users : ConfirmReady(u) \/ CancelDiscard(u)
    BY <1>10
  <2>2. CASE plan' = [plan EXCEPT ![user[u].plan] = "open"]
    BY <1>2, <2>2
  <2>3. CASE plan' = [plan EXCEPT ![user[u].plan] = "discarded"]
    BY <1>2, <2>3
  <2> QED
    BY <1>4, <1>5, <1>8, <2>1, <2>2, <2>3
<1>11. CASE \E p \in Plans, s \in {"applied", "ended"} : PlanEnds(p, s)
  <2>1. PICK p \in Plans, s \in {"applied", "ended"} : PlanEnds(p, s)
    BY <1>11
  <2>2. plan' = [plan EXCEPT ![p] = s] /\ s # "unused"
    BY <1>6, <2>1
  <2> QED
    BY <1>2, <2>2
<1> QED
  BY <1>7, <1>8, <1>9, <1>10, <1>11

\* Why there is no second link, races or not: a plan is one call's until that call
\* links it, and the plans that are linked, or whose link a closer removes, exist.
LinkedOnce ==
  /\ \A u \in Users : user[u].at \notin {"idle", "insert"} => plan[user[u].plan] # "unused"
  /\ \A i \in Items : link[i] # None => plan[link[i]] # "unused"
  /\ \A i, j \in Items : link[i] # None /\ link[i] = link[j] => i = j
  /\ \A u \in Users : Linking(u) =>
       /\ \A i \in Items : link[i] # user[u].plan
       /\ \A v \in Users : Linking(v) /\ user[v].plan = user[u].plan => u = v
       /\ \A c \in Closers :
            closer[c].at \in {"state", "delete"} => closer[c].end.plan # user[u].plan
  /\ \A c \in Closers :
       closer[c].at \in {"state", "delete"} => plan[closer[c].end.plan] # "unused"
  /\ LastLink

\* Nobody starts to link a plan, no link is made, and no closer takes up an item.
LEMMA LinkedOnceKept ==
  ASSUME Typed, Typed', LinkedOnce, Shrinks, [Next]_inboxVars,
         \A u \in Users :
           /\ Linking(u)' => Linking(u) /\ user'[u].plan = user[u].plan
           /\ user'[u].at \notin {"idle", "insert"} =>
                \/ user[u].at \notin {"idle", "insert"} /\ user'[u].plan = user[u].plan
                \/ \E i \in Items : link[i] # None /\ user'[u].plan = link[i],
         \A c \in Closers : closer'[c].at \in {"state", "delete"} =>
           /\ closer[c].at \in {"state", "delete"}
           /\ closer'[c].end = closer[c].end /\ closer'[c].item = closer[c].item
  PROVE  LinkedOnce'
<1>1. /\ link \in [Items -> Plans \cup {None}] /\ link' \in [Items -> Plans \cup {None}]
      /\ None \notin Plans
  BY InboxAssumption DEF Typed, TypeOK
<1>2. /\ \A u \in Users : user[u].at \notin {"idle", "insert"} => user[u].plan \in Plans
      /\ \A c \in Closers : closer[c].at # "idle" => closer[c].end.plan \in Plans
  BY DEF Typed, CallFits, CloserFits, Event
<1>3. \A p \in Plans : plan[p] # "unused" => plan'[p] # "unused"
  BY PlansStay
<1>4. \A u \in Users : user'[u].at \notin {"idle", "insert"} => plan'[user'[u].plan] # "unused"
  BY <1>1, <1>2, <1>3 DEF LinkedOnce
<1>5. /\ \A i \in Items : link'[i] # None => plan'[link'[i]] # "unused"
      /\ \A i, j \in Items : link'[i] # None /\ link'[i] = link'[j] => i = j
  BY <1>1, <1>3 DEF LinkedOnce, Shrinks
<1>6. \A c \in Closers :
        closer'[c].at \in {"state", "delete"} => plan'[closer'[c].end.plan] # "unused"
  BY <1>2, <1>3 DEF LinkedOnce
<1>7. LastLink'
  <2> SUFFICES ASSUME NEW c \in Closers, closer'[c].at \in {"state", "delete"},
                      NEW j \in Items, link'[j] = closer'[c].end.plan
               PROVE  j = closer'[c].item
    BY DEF LastLink
  <2>1. closer[c].end.plan \in Plans
    BY <1>2
  <2>2. link[j] = closer[c].end.plan
    BY <1>1, <2>1 DEF Shrinks
  <2> QED
    BY <2>2 DEF LinkedOnce, LastLink
<1>8. ASSUME NEW u \in Users, Linking(u)'
      PROVE  /\ \A i \in Items : link'[i] # user'[u].plan
             /\ \A v \in Users : Linking(v)' /\ user'[v].plan = user'[u].plan => u = v
             /\ \A c \in Closers :
                  closer'[c].at \in {"state", "delete"} => closer'[c].end.plan # user'[u].plan
  <2>1. Linking(u) /\ user'[u].plan = user[u].plan /\ user[u].plan \in Plans
    BY <1>2, <1>8 DEF Linking
  <2>2. \A i \in Items : link'[i] # user[u].plan
    BY <1>1, <2>1 DEF LinkedOnce, Shrinks
  <2> QED
    BY <2>1, <2>2 DEF LinkedOnce
<1> QED
  BY <1>4, <1>5, <1>6, <1>7, <1>8 DEF LinkedOnce

\* A call of a user.
LEMMA LinkedOnceByUser ==
  ASSUME Typed, Typed', LinkedOnce, [Next]_inboxVars, NEW u \in Users, UserStep(u)
  PROVE  LinkedOnce'
<1>0. /\ user \in [Users -> CallRow] /\ link \in [Items -> Plans \cup {None}]
      /\ plan \in [Plans -> PlanStates] /\ None \notin Plans
  BY InboxAssumption DEF Typed, TypeOK, CallRow, CallSteps
<1>1. UNCHANGED closer
  BY DEF UserStep, ConfirmCheck, CancelRead, ConfirmInsert, ConfirmReady, ConfirmLink,
     ConfirmMark, CancelDiscard, CancelReset, CancelUnlink, CallFails
<1>2. \A p \in Plans : plan[p] # "unused" => plan'[p] # "unused"
  BY PlansStay
<1>3. /\ \A v \in Users : user[v].at \notin {"idle", "insert"} => user[v].plan \in Plans
      /\ \A c \in Closers : closer[c].at # "idle" => closer[c].end.plan \in Plans
  BY DEF Typed, CallFits, CloserFits, Event
<1>4. ASSUME NEW p \in Plans, ConfirmInsert(u, p)
      PROVE  LinkedOnce'
  <2>1. /\ plan[p] = "unused" /\ plan' = [plan EXCEPT ![p] = "draft"]
        /\ user'[u].at = "ready" /\ user'[u].plan = p
        /\ \A v \in Users \ {u} : user'[v] = user[v]
        /\ link' = link
    BY <1>0, <1>4 DEF ConfirmInsert, CallRow
  <2>2. plan'[p] # "unused"
    BY <1>0, <2>1
  <2>3. /\ \A i \in Items : link[i] # p
        /\ \A v \in Users : user[v].at \notin {"idle", "insert"} => user[v].plan # p
        /\ \A c \in Closers : closer[c].at \in {"state", "delete"} => closer[c].end.plan # p
    BY <1>0, <2>1 DEF LinkedOnce
  <2>4. /\ \A v \in Users : user'[v].at \notin {"idle", "insert"} =>
             plan'[user'[v].plan] # "unused"
        /\ \A i \in Items : link'[i] # None => plan'[link'[i]] # "unused"
        /\ \A i, j \in Items : link'[i] # None /\ link'[i] = link'[j] => i = j
        /\ \A c \in Closers :
             closer'[c].at \in {"state", "delete"} => plan'[closer'[c].end.plan] # "unused"
    BY <1>0, <1>1, <1>2, <1>3, <2>1, <2>2 DEF LinkedOnce
  <2>5. LastLink'
    BY <1>1, <2>1 DEF LinkedOnce, LastLink
  <2>6. ASSUME NEW v \in Users, Linking(v)'
        PROVE  /\ \A i \in Items : link'[i] # user'[v].plan
               /\ \A w \in Users : Linking(w)' /\ user'[w].plan = user'[v].plan => v = w
               /\ \A c \in Closers :
                    closer'[c].at \in {"state", "delete"} => closer'[c].end.plan # user'[v].plan
    <3>1. \A w \in Users \ {u} : Linking(w)' => Linking(w) /\ user'[w].plan # p
      BY <2>1, <2>3 DEF Linking
    <3>2. CASE v = u
      BY <1>1, <2>1, <2>3, <3>1, <3>2
    <3>3. CASE v # u
      BY <1>1, <2>1, <2>6, <3>1, <3>3 DEF LinkedOnce
    <3> QED
      BY <3>2, <3>3
  <2> QED
    BY <2>4, <2>5, <2>6 DEF LinkedOnce
<1>5. ASSUME ConfirmLink(u), ~ Shrinks
      PROVE  LinkedOnce'
  <2> DEFINE i == user[u].item
  <2> DEFINE p == user[u].plan
  <2>1. /\ user[u].at = "link" /\ i \in Items /\ p \in Plans
        /\ link' = [link EXCEPT ![i] = p] /\ link[i] = None
        /\ user' = [user EXCEPT ![u].at = "mark"]
        /\ plan' = plan
    BY <1>5 DEF ConfirmLink, Shrinks, Typed, CallFits
  <2>2. /\ user'[u].at = "mark" /\ user'[u].plan = p
        /\ \A v \in Users \ {u} : user'[v] = user[v]
    BY <1>0, <2>1 DEF CallRow
  <2>3. Linking(u) /\ plan[p] # "unused" /\ \A j \in Items : link[j] # p
    BY <2>1 DEF Linking, LinkedOnce
  <2>4. \A v \in Users : Linking(v)' =>
          v # u /\ Linking(v) /\ user'[v].plan = user[v].plan /\ user[v].plan # p
    BY <2>2, <2>3 DEF Linking, LinkedOnce
  <2>5. link'[i] = p /\ \A j \in Items \ {i} : link'[j] = link[j]
    BY <1>0, <2>1
  <2> HIDE DEF i, p
  <2>6. /\ \A v \in Users : user'[v].at \notin {"idle", "insert"} =>
             plan'[user'[v].plan] # "unused"
        /\ \A j \in Items : link'[j] # None => plan'[link'[j]] # "unused"
        /\ \A j, k \in Items : link'[j] # None /\ link'[j] = link'[k] => j = k
        /\ \A c \in Closers :
             closer'[c].at \in {"state", "delete"} => plan'[closer'[c].end.plan] # "unused"
    BY <1>1, <2>1, <2>2, <2>3, <2>5 DEF LinkedOnce
  <2>7. LastLink'
    <3>1. \A c \in Closers : closer[c].at \in {"state", "delete"} => closer[c].end.plan # p
      BY <2>3 DEF LinkedOnce, p
    <3> QED
      BY <1>1, <2>5, <3>1 DEF LinkedOnce, LastLink
  <2>8. ASSUME NEW v \in Users, Linking(v)'
        PROVE  /\ \A j \in Items : link'[j] # user'[v].plan
               /\ \A w \in Users : Linking(w)' /\ user'[w].plan = user'[v].plan => v = w
               /\ \A c \in Closers :
                    closer'[c].at \in {"state", "delete"} => closer'[c].end.plan # user'[v].plan
    BY <1>1, <2>4, <2>5, <2>8 DEF LinkedOnce
  <2> QED
    BY <2>6, <2>7, <2>8 DEF LinkedOnce
<1>6. ASSUME \A p \in Plans : ~ ConfirmInsert(u, p), Shrinks
      PROVE  LinkedOnce'
  <2>1. \A v \in Users \ {u} : user'[v] = user[v]
    BY <1>0 DEF UserStep, ConfirmCheck, CancelRead, ConfirmInsert, ConfirmReady, ConfirmLink,
       ConfirmMark, CancelDiscard, CancelReset, CancelUnlink, CallFails
  <2>2. /\ Linking(u)' => Linking(u) /\ user'[u].plan = user[u].plan
        /\ user'[u].at \notin {"idle", "insert"} =>
             \/ user[u].at \notin {"idle", "insert"} /\ user'[u].plan = user[u].plan
             \/ \E i \in Items : link[i] # None /\ user'[u].plan = link[i]
    <3>1. ASSUME NEW i \in Items, CancelRead(u, i)
          PROVE  user'[u].at = "discard" /\ link[i] # None /\ user'[u].plan = link[i]
      BY <1>0, <3>1 DEF CancelRead, CallRow
    <3>2. ASSUME NEW i \in Items, ConfirmCheck(u, i)
          PROVE  user'[u].at = "insert"
      BY <1>0, <3>2 DEF ConfirmCheck, CallRow
    <3>3. CASE ConfirmReady(u) \/ ConfirmLink(u)
      BY <1>0, <3>3 DEF ConfirmReady, ConfirmLink, CallRow, Linking, IdleUser
    <3>4. CASE ConfirmMark(u) \/ CancelUnlink(u) \/ CallFails(u)
      BY <1>0, <3>4 DEF ConfirmMark, CancelUnlink, CallFails, CallRow, Linking, IdleUser
    <3>5. CASE CancelDiscard(u) \/ CancelReset(u)
      BY <1>0, <3>5 DEF CancelDiscard, CancelReset, CallRow, Linking, IdleUser
    <3> QED
      BY <1>6, <3>1, <3>2, <3>3, <3>4, <3>5 DEF UserStep, Linking
  <2>3. \A v \in Users :
          /\ Linking(v)' => Linking(v) /\ user'[v].plan = user[v].plan
          /\ user'[v].at \notin {"idle", "insert"} =>
               \/ user[v].at \notin {"idle", "insert"} /\ user'[v].plan = user[v].plan
               \/ \E i \in Items : link[i] # None /\ user'[v].plan = link[i]
    BY <2>1, <2>2 DEF Linking
  <2> QED
    BY <1>1, <1>6, <2>3, LinkedOnceKept
<1>7. (\A p \in Plans : ~ ConfirmInsert(u, p)) /\ ~ Shrinks => ConfirmLink(u)
  BY <1>0 DEF UserStep, ConfirmCheck, CancelRead, ConfirmReady, ConfirmMark, CancelDiscard,
     CancelReset, CancelUnlink, CallFails, db, Shrinks
<1> QED
  BY <1>4, <1>5, <1>6, <1>7

LEMMA LinkedOnceStep ==
  ASSUME Typed, Typed', LinkedOnce, [Next]_inboxVars
  PROVE  LinkedOnce'
<1>0. closer \in [Closers -> CloserRow] /\ {"listener", "sweep"} = Closers
      /\ link \in [Items -> Plans \cup {None}] /\ None \notin Plans
  BY InboxAssumption DEF Typed, TypeOK, CloserRow, Event, Closers
<1>1. ASSUME NEW u \in Users, UserStep(u) PROVE LinkedOnce'
  BY <1>1, LinkedOnceByUser
<1>2. ASSUME Shrinks, UNCHANGED user \/ user' = [u \in Users |-> IdleUser],
             \A c \in Closers : closer'[c].at \in {"state", "delete"} =>
               /\ closer[c].at \in {"state", "delete"}
               /\ closer'[c].end = closer[c].end /\ closer'[c].item = closer[c].item
      PROVE  LinkedOnce'
  <2>1. \A u \in Users :
          /\ Linking(u)' => Linking(u) /\ user'[u].plan = user[u].plan
          /\ user'[u].at \notin {"idle", "insert"} =>
               user[u].at \notin {"idle", "insert"} /\ user'[u].plan = user[u].plan
    BY <1>2 DEF Linking, IdleUser
  <2> QED
    BY <1>2, <2>1, LinkedOnceKept
<1>3. ASSUME NEW c \in Closers, CloserStep(c) \/ StepFails(c)
      PROVE  LinkedOnce'
  <2>1. UNCHANGED <<user, plan>>
    BY <1>3 DEF CloserStep, Lock, Register, InsertSession, InsertFingerprint, Find, SetState,
       DeleteLink, StepFails, db
  <2>2. Shrinks
    BY <1>0, <1>3 DEF CloserStep, Lock, Register, InsertSession, InsertFingerprint, Find,
       SetState, DeleteLink, StepFails, db, Shrinks
  <2>3. CASE Leave(c)
    <3>1. \A d \in Closers : closer'[d].at # "idle" => closer'[d] = closer[d]
      BY <1>0, <2>3 DEF Leave, CloserRow
    <3>2. \A d \in Closers : closer'[d].at \in {"state", "delete"} => closer'[d].at # "idle"
      OBVIOUS
    <3> QED
      BY <1>2, <2>1, <2>2, <3>1, <3>2
  <2>4. ASSUME NEW i \in LinkedTo(closer[c].end.plan), UNCHANGED link, closer[c].at # "idle",
               closer' = [closer EXCEPT ![c].at = "state", ![c].item = i]
        PROVE  LinkedOnce'
    <3>1. /\ closer'[c].at = "state" /\ closer'[c].item = i /\ closer'[c].end = closer[c].end
          /\ \A d \in Closers \ {c} : closer'[d] = closer[d]
      BY <1>0, <2>4 DEF CloserRow
    <3>2. i \in Items /\ link[i] = closer[c].end.plan /\ closer[c].end.plan \in Plans
      BY <2>4 DEF LinkedTo, Typed, CloserFits, Event
    <3>3. LastLink'
      BY <1>0, <2>4, <3>1, <3>2 DEF LinkedOnce, LastLink
    <3>4. \A u \in Users : Linking(u) => user[u].plan # closer[c].end.plan
      BY <3>2 DEF LinkedOnce
    <3>5. plan[closer[c].end.plan] # "unused"
      BY <1>0, <3>2 DEF LinkedOnce
    <3>6. ASSUME NEW u \in Users, Linking(u)'
          PROVE  /\ \A j \in Items : link'[j] # user'[u].plan
                 /\ \A v \in Users : Linking(v)' /\ user'[v].plan = user'[u].plan => u = v
                 /\ \A d \in Closers :
                      closer'[d].at \in {"state", "delete"} => closer'[d].end.plan # user'[u].plan
      <4>1. /\ Linking(u) /\ user'[u] = user[u] /\ link' = link
            /\ \A v \in Users : user'[v] = user[v] /\ (Linking(v)' => Linking(v))
        BY <2>1, <2>4, <3>6 DEF Linking
      <4>2. \A d \in Closers :
              closer'[d].at \in {"state", "delete"} => closer'[d].end.plan # user[u].plan
        BY <3>1, <3>4, <4>1 DEF LinkedOnce
      <4> QED
        BY <4>1, <4>2 DEF LinkedOnce
    <3>7. /\ \A u \in Users : user'[u].at \notin {"idle", "insert"} =>
               plan'[user'[u].plan] # "unused"
          /\ \A j \in Items : link'[j] # None => plan'[link'[j]] # "unused"
          /\ \A j, k \in Items : link'[j] # None /\ link'[j] = link'[k] => j = k
      BY <2>1, <2>4 DEF LinkedOnce
    <3>8. \A d \in Closers :
            closer'[d].at \in {"state", "delete"} => plan'[closer'[d].end.plan] # "unused"
      BY <2>1, <3>1, <3>5 DEF LinkedOnce
    <3> QED
      BY <3>3, <3>6, <3>7, <3>8 DEF LinkedOnce
  <2>5. CASE SetState(c)
    <3>1. closer' = [closer EXCEPT ![c].at = "delete"] /\ closer[c].at = "state"
      BY <2>5 DEF SetState, Goto, At
    <3>2. \A d \in Closers : /\ closer'[d].end = closer[d].end
                             /\ closer'[d].item = closer[d].item
                             /\ d # c => closer'[d] = closer[d]
      BY <1>0, <3>1 DEF CloserRow
    <3> QED
      BY <1>2, <2>1, <2>2, <3>1, <3>2
  <2>6. CASE Find(c)
    BY <2>3, <2>4, <2>6 DEF Find, At, db
  <2>7. CASE Lock(c) \/ Register(c) \/ InsertSession(c) \/ InsertFingerprint(c)
    <3>1. \E step \in {"register", "find", "session", "print"} :
             \/ closer' = [closer EXCEPT ![c].at = step]
             \/ \E i : closer' = [closer EXCEPT ![c].at = step, ![c].item = i]
      BY <2>7 DEF Lock, Register, InsertSession, InsertFingerprint, Goto
    <3>2. /\ closer'[c].at \notin {"state", "delete"}
          /\ \A d \in Closers \ {c} : closer'[d] = closer[d]
      BY <1>0, <3>1 DEF CloserRow
    <3> QED
      BY <1>2, <2>1, <2>2, <3>2
  <2> QED
    BY <1>3, <2>3, <2>5, <2>6, <2>7 DEF CloserStep, DeleteLink, StepFails
<1>4. CASE ListenerReceives \/ SweepStarts \/ SweepTakes
  <2>1. UNCHANGED user /\ UNCHANGED link
    BY <1>4 DEF ListenerReceives, SweepStarts, SweepTakes, db
  <2>2. \A c \in Closers : closer'[c].at \in {"state", "delete"} =>
          /\ closer[c].at \in {"state", "delete"}
          /\ closer'[c].end = closer[c].end /\ closer'[c].item = closer[c].item
    <3>1. \A end : FirstStep(end) \notin {"state", "delete"}
      BY DEF FirstStep
    <3>2. CASE ListenerReceives
      <4>1. PICK end : closer' = [closer EXCEPT !["listener"].at = FirstStep(end),
                                                !["listener"].end = end]
        BY <3>2 DEF ListenerReceives
      <4> QED
        BY <1>0, <3>1, <4>1 DEF CloserRow
    <3>3. CASE SweepTakes
      <4>1. PICK end, todo : closer' = [closer EXCEPT !["sweep"].at = FirstStep(end),
                                          !["sweep"].end = end, !["sweep"].todo = todo]
        BY <3>3 DEF SweepTakes
      <4> QED
        BY <1>0, <3>1, <4>1 DEF CloserRow
    <3>4. CASE SweepStarts
      <4>1. PICK todo : closer' = [closer EXCEPT !["sweep"].todo = todo]
        BY <3>4 DEF SweepStarts
      <4> QED
        BY <1>0, <4>1 DEF CloserRow
    <3> QED
      BY <1>4, <3>2, <3>3, <3>4
  <2> QED
    BY <1>2, <2>1, <2>2 DEF Shrinks
<1>5. CASE Crash
  <2>1. UNCHANGED link /\ user' = [u \in Users |-> IdleUser]
        /\ \A c \in Closers : closer'[c].at = "idle"
    BY <1>5 DEF Crash, db, IdleCloser
  <2> QED
    BY <1>2, <2>1 DEF Shrinks
<1>6. CASE UNCHANGED <<user, closer, link>>
  BY <1>2, <1>6 DEF Shrinks
<1> QED
  BY <1>0, <1>1, <1>3, <1>4, <1>5, <1>6 DEF Next, Listener, Sweep, Classify, PlanEnds, db,
     inboxVars

\* Who is through with a plan leaves no link to it.
LEMMA ThroughStep ==
  ASSUME Typed, LinkedOnce, [Next]_inboxVars
  PROVE  ThroughIsUnlinked
<1> SUFFICES ASSUME NEW c \in Closers, closer[c].at # "idle", closer'[c].at = "idle",
                    faults' = faults, NEW j \in Items
             PROVE  link'[j] # closer[c].end.plan
  BY DEF ThroughIsUnlinked
<1>0. /\ closer \in [Closers -> CloserRow] /\ {"listener", "sweep"} = Closers
      /\ link \in [Items -> Plans \cup {None}] /\ None \notin Plans /\ faults \in Nat
      /\ closer[c].end.plan \in Plans
  BY InboxAssumption DEF Typed, TypeOK, CloserRow, Event, Closers, CloserFits
<1>1. ASSUME NEW d \in Closers, CloserStep(d) PROVE link'[j] # closer[c].end.plan
  <2>1. CASE DeleteLink(d)
    <3>1. d = c
      BY <1>0, <2>1 DEF DeleteLink, Leave, CloserRow
    <3>2. closer[c].at = "delete" /\ link' = [link EXCEPT ![closer[c].item] = None]
      BY <2>1, <3>1 DEF DeleteLink, At
    <3> QED
      BY <1>0, <3>2 DEF LinkedOnce, LastLink
  <2>2. CASE Find(d)
    <3>1. d = c /\ LinkedTo(closer[c].end.plan) = {} /\ UNCHANGED link
      BY <1>0, <2>2 DEF Find, Leave, CloserRow, db
    <3> QED
      BY <3>1 DEF LinkedTo
  <2>3. CASE Lock(d) \/ Register(d) \/ InsertSession(d) \/ InsertFingerprint(d) \/ SetState(d)
    <3>1. \E step \in Steps :
             \/ closer' = [closer EXCEPT ![d].at = step]
             \/ \E i : closer' = [closer EXCEPT ![d].at = step, ![d].item = i]
      BY <2>3 DEF Lock, Register, InsertSession, InsertFingerprint, SetState, Goto, Steps
    <3>2. FALSE
      BY <1>0, <3>1 DEF CloserRow, Steps
    <3> QED
      BY <3>2
  <2> QED
    BY <1>1, <2>1, <2>2, <2>3 DEF CloserStep
<1>2. CASE ListenerReceives \/ SweepTakes
  <2>1. \A end : FirstStep(end) # "idle"
    BY DEF FirstStep
  <2>2. CASE ListenerReceives
    <3>1. PICK end : closer' = [closer EXCEPT !["listener"].at = FirstStep(end),
                                              !["listener"].end = end]
      BY <2>2 DEF ListenerReceives
    <3> QED
      BY <1>0, <2>1, <3>1 DEF CloserRow
  <2>3. CASE SweepTakes
    <3>1. PICK end, todo : closer' = [closer EXCEPT !["sweep"].at = FirstStep(end),
                                        !["sweep"].end = end, !["sweep"].todo = todo]
      BY <2>3 DEF SweepTakes
    <3> QED
      BY <1>0, <2>1, <3>1 DEF CloserRow
  <2> QED
    BY <1>2, <2>2, <2>3
<1>3. CASE SweepStarts
  BY <1>0, <1>3 DEF SweepStarts, At, CloserRow
<1>4. ~ Crash /\ \A d \in Closers : ~ StepFails(d)
  BY <1>0 DEF Crash, StepFails
<1>5. CASE UNCHANGED closer
  BY <1>5
<1> QED
  BY <1>0, <1>1, <1>2, <1>3, <1>4, <1>5 DEF Next, Listener, Sweep, UserStep, ConfirmCheck,
     CancelRead, ConfirmInsert, ConfirmReady, ConfirmLink, ConfirmMark, CancelDiscard,
     CancelReset, CancelUnlink, CallFails, Classify, PlanEnds, inboxVars

\* A closer that gets through a plan without a fault leaves no link to it, also in
\* the races that the locks do not cover: what an event or a sweep takes up is
\* closed.
THEOREM ClosersUnlink == Spec => [][ThroughIsUnlinked]_inboxVars
<1>1. Init => LinkedOnce
  BY DEF Init, LinkedOnce, LastLink, Linking, IdleUser, IdleCloser
<1>2. Typed /\ Typed' /\ LinkedOnce /\ [Next]_inboxVars => LinkedOnce'
  BY LinkedOnceStep
<1>3. Typed /\ LinkedOnce /\ [Next]_inboxVars => [ThroughIsUnlinked]_inboxVars
  BY ThroughStep
<1>4. Typed /\ [Next]_inboxVars => Typed'
  BY TypedStep
<1> QED
  BY <1>1, <1>2, <1>3, <1>4, TypedStarts, PTL DEF Spec

\* A lock is given only to the closer that goes on with its plan, and is given back
\* in the step that ends its work, with or without a fault.
LEMMA HeldAtWorkStep ==
  ASSUME Typed, HeldAtWork, [Next]_inboxVars
  PROVE  HeldAtWork'
<1>0. /\ closer \in [Closers -> CloserRow] /\ {"listener", "sweep"} = Closers
      /\ lock \in [Plans -> Closers \cup {None}] /\ None \notin Closers
  BY InboxAssumption DEF Typed, TypeOK, CloserRow, Event, Closers
<1>1. ASSUME NEW c \in Closers, Leave(c)
      PROVE  HeldAtWork'
  <2>1. /\ \A d \in Closers \ {c} : closer'[d] = closer[d]
        /\ \A p \in Plans : lock'[p] # None => lock'[p] # c /\ lock'[p] = lock[p]
    BY <1>0, <1>1 DEF Leave
  <2> QED
    BY <1>0, <2>1 DEF HeldAtWork
<1>2. ASSUME NEW c \in Closers, NEW step \in Steps \ {"lock"}, closer[c].at # "lock",
             UNCHANGED lock, \A d \in Closers \ {c} : closer'[d] = closer[d],
             closer'[c].at = step, closer'[c].end = closer[c].end
      PROVE  HeldAtWork'
  BY <1>0, <1>2 DEF HeldAtWork
<1>3. ASSUME NEW c \in Closers, Lock(c)
      PROVE  HeldAtWork'
  <2>1. /\ closer'[c].at = "register" /\ closer'[c].end = closer[c].end
        /\ \A d \in Closers \ {c} : closer'[d] = closer[d]
    BY <1>0, <1>3 DEF Lock, Goto, CloserRow
  <2>2. closer[c].at = "lock" /\ lock' = [lock EXCEPT ![closer[c].end.plan] = c]
    BY <1>3 DEF Lock, At
  <2>3. \A p \in Plans : lock[p] # c
    BY <1>0, <2>2 DEF HeldAtWork
  <2>4. \A p \in Plans : lock'[p] # None =>
          \/ lock'[p] = c /\ p = closer[c].end.plan
          \/ lock'[p] = lock[p] /\ lock[p] # c
    BY <1>0, <2>2, <2>3
  <2> QED
    BY <1>0, <2>1, <2>4 DEF HeldAtWork, Steps
<1>4. ASSUME NEW c \in Closers,
             Register(c) \/ InsertSession(c) \/ InsertFingerprint(c) \/ SetState(c)
      PROVE  HeldAtWork'
  <2>1. PICK step \in Steps \ {"lock"} :
          \/ closer' = [closer EXCEPT ![c].at = step]
          \/ \E i : closer' = [closer EXCEPT ![c].at = step, ![c].item = i]
    BY <1>4 DEF Register, InsertSession, InsertFingerprint, SetState, Goto, Steps
  <2>2. closer[c].at # "lock" /\ UNCHANGED lock
    BY <1>4 DEF Register, InsertSession, InsertFingerprint, SetState, At
  <2> QED
    BY <1>0, <1>2, <2>1, <2>2 DEF CloserRow
<1>5. ASSUME NEW c \in Closers, Find(c)
      PROVE  HeldAtWork'
  <2>1. ASSUME NEW i, closer' = [closer EXCEPT ![c].at = "state", ![c].item = i],
               UNCHANGED lock
        PROVE  HeldAtWork'
    <3>1. /\ closer'[c].at = "state" /\ closer'[c].end = closer[c].end
          /\ \A d \in Closers \ {c} : closer'[d] = closer[d]
      BY <1>0, <2>1 DEF CloserRow
    <3> QED
      BY <1>2, <1>5, <2>1, <3>1 DEF Find, At, Steps
  <2> QED
    BY <1>1, <1>5, <2>1 DEF Find
<1>6. ASSUME NEW c \in Closers, closer[c].at = "idle", UNCHANGED lock,
             \A d \in Closers \ {c} : closer'[d] = closer[d]
      PROVE  HeldAtWork'
  <2>1. \A p \in Plans : lock[p] # c
    BY <1>0, <1>6 DEF HeldAtWork, Steps
  <2> QED
    BY <1>0, <1>6, <2>1 DEF HeldAtWork
<1>7. CASE ListenerReceives
  BY <1>0, <1>6, <1>7 DEF ListenerReceives, At
<1>8. CASE SweepStarts \/ SweepTakes
  <2>1. \A d \in Closers \ {"sweep"} : closer'[d] = closer[d]
    BY <1>0, <1>8 DEF SweepStarts, SweepTakes
  <2> QED
    BY <1>0, <1>6, <1>8, <2>1 DEF SweepStarts, SweepTakes, At
<1>9. CASE Crash
  BY <1>9 DEF Crash, HeldAtWork
<1>10. CASE UNCHANGED <<closer, lock>>
  BY <1>10 DEF HeldAtWork
<1> QED
  BY <1>0, <1>1, <1>3, <1>4, <1>5, <1>7, <1>8, <1>9, <1>10 DEF Next, Listener, Sweep,
     CloserStep, DeleteLink, StepFails, UserStep, ConfirmCheck, CancelRead, ConfirmInsert,
     ConfirmReady, ConfirmLink, ConfirmMark, CancelDiscard, CancelReset, CancelUnlink,
     CallFails, Classify, PlanEnds, inboxVars

\* The completion locks cannot block each other or be left behind: a closer that
\* waits for a plan's lock holds none, and the one that holds it is past waiting,
\* whatever failed before and with as many plans as there are.
THEOREM LocksAreHeldAtWork == Spec => [](HeldAtWork /\ WaitsForOneAtWork)
<1>1. Init => HeldAtWork
  BY DEF Init, HeldAtWork
<1>2. Typed /\ HeldAtWork /\ [Next]_inboxVars => HeldAtWork'
  BY HeldAtWorkStep
<1>3. Typed /\ HeldAtWork => WaitsForOneAtWork
  <2> SUFFICES ASSUME Typed, HeldAtWork, NEW c \in Closers, closer[c].at = "lock"
               PROVE  /\ \A p \in Plans : lock[p] # c
                      /\ lock[closer[c].end.plan] # None =>
                           closer[lock[closer[c].end.plan]].at \in Steps \ {"lock"}
    BY DEF WaitsForOneAtWork
  <2>1. closer[c].end.plan \in Plans /\ c # None
    BY InboxAssumption DEF Typed, CloserFits, Event, Closers
  <2> QED
    BY <2>1 DEF HeldAtWork
<1>4. Typed /\ [Next]_inboxVars => Typed'
  BY TypedStep
<1> QED
  BY <1>1, <1>2, <1>3, <1>4, TypedStarts, PTL DEF Spec

\* The sweep's list is finite, and so is what the closers have to do.
Listed == closer["sweep"].todo

LEMMA ListedStep ==
  ASSUME Typed, IsFiniteSet(Items), IsFiniteSet(Listed), [Next]_inboxVars
  PROVE  IsFiniteSet(Listed')
<1>0. closer \in [Closers -> CloserRow] /\ {"listener", "sweep"} = Closers
  BY DEF Typed, TypeOK, CloserRow, Event, Closers
<1>1. CASE SweepStarts
  <2> DEFINE f == [i \in Orphans |-> End(link[i], plan[link[i]])]
  <2> DEFINE T == {End(link[i], plan[link[i]]) : i \in Orphans}
  <2>1. Listed' = T
    BY <1>0, <1>1 DEF SweepStarts, Listed, CloserRow
  <2>2. IsFiniteSet(Orphans)
    BY FS_Subset DEF Orphans
  <2>3. f \in Surjection(Orphans, T)
    BY DEF Surjection
  <2> HIDE DEF f, T
  <2> QED
    BY <2>1, <2>2, <2>3, FS_Surjection
<1>2. CASE SweepTakes
  <2>1. PICK end : Listed' = Listed \ {end}
    BY <1>0, <1>2 DEF SweepTakes, Listed, CloserRow
  <2> QED
    BY <2>1, FS_RemoveElement
<1>3. CASE Crash
  BY <1>0, <1>3, FS_EmptySet DEF Crash, Listed, IdleCloser
<1>4. ASSUME NEW c \in Closers, CloserStep(c) \/ StepFails(c)
      PROVE  Listed' = Listed
  BY <1>0, <1>4 DEF CloserStep, Lock, Register, InsertSession, InsertFingerprint, Find, SetState,
     DeleteLink, StepFails, Goto, Leave, CloserRow, Listed
<1>5. CASE ListenerReceives
  BY <1>0, <1>5 DEF ListenerReceives, CloserRow, Listed
<1>6. CASE UNCHANGED closer
  BY <1>6 DEF Listed
<1> QED
  BY <1>0, <1>1, <1>2, <1>3, <1>4, <1>5, <1>6 DEF Next, Listener, Sweep, UserStep, ConfirmCheck,
     CancelRead, ConfirmInsert, ConfirmReady, ConfirmLink, ConfirmMark, CancelDiscard,
     CancelReset, CancelUnlink, CallFails, Classify, PlanEnds, inboxVars

LEMMA StepsCount ==
  ASSUME TypeOK, NEW c \in Closers
  PROVE  /\ StepsLeft(c) \in 0 .. 7
         /\ closer[c].at # "idle" => StepsLeft(c) > 0
<1>1. closer[c].at \in Steps \cup {"idle"}
  BY DEF TypeOK
<1>2. CASE closer[c].at = "idle"
  BY <1>2 DEF StepsLeft
<1>3. CASE closer[c].at \in {"lock", "register", "session"}
  BY <1>3 DEF StepsLeft
<1>4. CASE closer[c].at \in {"print", "find", "state", "delete"}
  BY <1>4 DEF StepsLeft
<1> QED
  BY <1>1, <1>2, <1>3, <1>4 DEF Steps

ListenerLeft == StepsLeft("listener")
SweepLeft == StepsLeft("sweep")

\* The parts of the count are numbers.
Counted ==
  /\ ToClose \in Nat /\ Len(bus) \in Nat /\ Cardinality(Listed) \in Nat
  /\ ListenerLeft \in Nat /\ ListenerLeft <= 7
  /\ SweepLeft \in Nat /\ SweepLeft <= 7
  /\ ToClose = ListenerLeft + SweepLeft
                 + 8 * Len(bus) + 8 * Cardinality(Listed)

LEMMA ToCloseCounts ==
  ASSUME TypeOK, IsFiniteSet(Listed)
  PROVE  Counted
<1>1. /\ StepsLeft("listener") \in Nat /\ StepsLeft("sweep") \in Nat
      /\ StepsLeft("listener") <= 7 /\ StepsLeft("sweep") <= 7
  BY StepsCount DEF Closers
<1>2. Len(bus) \in Nat /\ Cardinality(Listed) \in Nat
  BY FS_CardinalityType DEF TypeOK
<1> QED
  BY <1>1, <1>2 DEF ToClose, Listed, Counted, ListenerLeft, SweepLeft

\* Every step of a closer, done or failed, brings it closer to the end of its plan.
LEMMA CloserComes ==
  ASSUME Typed, Typed', NEW c \in Closers, CloserStep(c) \/ StepFails(c)
  PROVE  /\ StepsLeft(c)' < StepsLeft(c)
         /\ \A d \in Closers \ {c} : StepsLeft(d)' = StepsLeft(d)
         /\ UNCHANGED bus /\ Listed' = Listed
<1>0. closer \in [Closers -> CloserRow] /\ {"listener", "sweep"} = Closers
  BY DEF Typed, TypeOK, CloserRow, Event, Closers
<1>1. UNCHANGED bus
  BY DEF CloserStep, Lock, Register, InsertSession, InsertFingerprint, Find, SetState, DeleteLink,
     StepFails
<1>2. (\A d \in Closers \ {c} : closer'[d] = closer[d]) /\ Listed' = Listed
  BY <1>0 DEF CloserStep, Lock, Register, InsertSession, InsertFingerprint, Find, SetState,
     DeleteLink, StepFails, Goto, Leave, CloserRow, Listed
<1>3. \A d \in Closers \ {c} : StepsLeft(d)' = StepsLeft(d)
  BY <1>2 DEF StepsLeft
<1>4. StepsLeft(c)' < StepsLeft(c)
  <2>1. CASE closer'[c].at = "idle"
    <3>1. closer[c].at # "idle"
      BY DEF CloserStep, Lock, Register, InsertSession, InsertFingerprint, Find, SetState,
         DeleteLink, StepFails, At, Steps
    <3>2. StepsLeft(c) > 0 /\ StepsLeft(c) \in Nat
      BY <3>1, StepsCount DEF Typed
    <3>3. StepsLeft(c)' = 0
      BY <2>1 DEF StepsLeft
    <3> QED
      BY <3>2, <3>3
  <2>2. CASE Lock(c)
    <3>1. closer[c].at = "lock" /\ closer'[c].at = "register"
      BY <1>0, <2>2 DEF Lock, At, Goto, CloserRow
    <3> QED
      BY <3>1 DEF StepsLeft
  <2>3. CASE Register(c)
    <3>1. closer[c].at = "register" /\ closer'[c].at \in {"find", "session"}
      BY <1>0, <2>3 DEF Register, At, Goto, CloserRow
    <3> QED
      BY <3>1 DEF StepsLeft
  <2>4. CASE InsertSession(c)
    <3>1. closer[c].at = "session" /\ closer'[c].at = "print"
      BY <1>0, <2>4 DEF InsertSession, At, Goto, CloserRow
    <3> QED
      BY <3>1 DEF StepsLeft
  <2>5. CASE InsertFingerprint(c)
    <3>1. closer[c].at = "print" /\ closer'[c].at = "find"
      BY <1>0, <2>5 DEF InsertFingerprint, At, Goto, CloserRow
    <3> QED
      BY <3>1 DEF StepsLeft
  <2>6. CASE Find(c) /\ ~ Leave(c)
    <3>1. closer[c].at = "find" /\ closer'[c].at = "state"
      BY <1>0, <2>6 DEF Find, At, CloserRow
    <3> QED
      BY <3>1 DEF StepsLeft
  <2>7. CASE SetState(c)
    <3>1. closer[c].at = "state" /\ closer'[c].at = "delete"
      BY <1>0, <2>7 DEF SetState, At, Goto, CloserRow
    <3> QED
      BY <3>1 DEF StepsLeft
  <2>8. Leave(c) => closer'[c].at = "idle"
    BY <1>0 DEF Leave, CloserRow
  <2> QED
    BY <2>1, <2>2, <2>3, <2>4, <2>5, <2>6, <2>7, <2>8 DEF CloserStep, DeleteLink, StepFails
<1> QED
  BY <1>1, <1>2, <1>3, <1>4

LEMMA RoundsEndStep ==
  ASSUME Typed, Typed', IsFiniteSet(Listed), Counted, Counted', [Next]_inboxVars
  PROVE  [RoundsEnd]_inboxVars
<1>0. closer \in [Closers -> CloserRow] /\ {"listener", "sweep"} = Closers
  BY DEF Typed, TypeOK, CloserRow, Event, Closers
<1>1. /\ ToClose \in Nat /\ Len(bus) \in Nat /\ Cardinality(Listed) \in Nat
      /\ ListenerLeft \in Nat /\ ListenerLeft <= 7
      /\ SweepLeft \in Nat /\ SweepLeft <= 7
      /\ ToClose = ListenerLeft + SweepLeft
                     + 8 * Len(bus) + 8 * Cardinality(Listed)
  BY DEF Counted
<1>2. /\ ToClose' \in Nat /\ Len(bus') \in Nat /\ Cardinality(Listed') \in Nat
      /\ ListenerLeft' \in Nat /\ ListenerLeft' <= 7
      /\ SweepLeft' \in Nat /\ SweepLeft' <= 7
      /\ ToClose' = ListenerLeft' + SweepLeft'
                      + 8 * Len(bus') + 8 * Cardinality(Listed')
  BY DEF Counted
<1>3. ASSUME NEW c \in Closers, CloserStep(c) \/ StepFails(c)
      PROVE  ToClose' < ToClose
  <2>1. /\ StepsLeft(c)' < StepsLeft(c)
        /\ \A d \in Closers \ {c} : StepsLeft(d)' = StepsLeft(d)
        /\ Len(bus') = Len(bus) /\ Cardinality(Listed') = Cardinality(Listed)
    BY <1>3, CloserComes
  <2>2. CASE c = "listener"
    <3>1. ListenerLeft' < ListenerLeft /\ SweepLeft' = SweepLeft
      BY <1>0, <2>1, <2>2 DEF ListenerLeft, SweepLeft
    <3> QED
      BY <1>1, <1>2, <2>1, <3>1
  <2>3. CASE c = "sweep"
    <3>1. SweepLeft' < SweepLeft /\ ListenerLeft' = ListenerLeft
      BY <1>0, <2>1, <2>3 DEF ListenerLeft, SweepLeft
    <3> QED
      BY <1>1, <1>2, <2>1, <3>1
  <2> QED
    BY <1>0, <2>2, <2>3
<1>4. ASSUME ListenerReceives
      PROVE  ToClose' < ToClose
  <2>1. closer'["sweep"] = closer["sweep"]
    BY <1>0, <1>4 DEF ListenerReceives
  <2>2. SweepLeft' = SweepLeft /\ Listed' = Listed
    BY <2>1 DEF StepsLeft, ListenerLeft, SweepLeft, Listed
  <2>3. Len(bus') = Len(bus) - 1
    BY <1>4, HeadTailProperties DEF ListenerReceives, Typed, TypeOK
  <2>4. ListenerLeft = 0
    BY <1>4 DEF ListenerReceives, At, StepsLeft, ListenerLeft, SweepLeft
  <2> QED
    BY <1>1, <1>2, <2>2, <2>3, <2>4
<1>5. ASSUME SweepTakes
      PROVE  ToClose' < ToClose
  <2>1. PICK end \in Listed :
          closer' = [closer EXCEPT !["sweep"].at = FirstStep(end), !["sweep"].end = end,
                                   !["sweep"].todo = @ \ {end}]
    BY <1>5 DEF SweepTakes, Listed
  <2>2. closer'["listener"] = closer["listener"] /\ Listed' = Listed \ {end}
    BY <1>0, <2>1 DEF Listed, CloserRow
  <2>3. Cardinality(Listed') = Cardinality(Listed) - 1
    BY <2>1, <2>2, FS_RemoveElement
  <2>4. ListenerLeft' = ListenerLeft
    BY <2>2 DEF StepsLeft, ListenerLeft, SweepLeft
  <2>5. SweepLeft = 0 /\ Len(bus') = Len(bus)
    BY <1>5 DEF SweepTakes, At, StepsLeft, ListenerLeft, SweepLeft
  <2>6. /\ 8 * Len(bus') = 8 * Len(bus)
        /\ 8 * Cardinality(Listed') = 8 * Cardinality(Listed) - 8
    BY <1>1, <2>3, <2>5
  <2>7. ToClose' = ListenerLeft + SweepLeft' + 8 * Len(bus) + 8 * Cardinality(Listed) - 8
    BY <1>1, <1>2, <2>4, <2>6
  <2>8. ToClose = ListenerLeft + 8 * Len(bus) + 8 * Cardinality(Listed)
    BY <1>1, <2>5
  <2>9. ListenerLeft \in Nat /\ SweepLeft' \in Nat /\ SweepLeft' <= 7
    BY <1>1, <1>2
  <2>10. Len(bus) \in Nat /\ Cardinality(Listed) \in Nat
    BY <1>1
  <2> QED
    BY <2>7, <2>8, <2>9, <2>10
<1>6. ASSUME Crash
      PROVE  ~ (ToClose' > ToClose)
  <2>1. /\ closer'["listener"] = IdleCloser /\ closer'["sweep"] = IdleCloser
        /\ bus' = <<>>
    BY <1>0, <1>6 DEF Crash
  <2>2. ListenerLeft' = 0 /\ SweepLeft' = 0
    BY <2>1 DEF StepsLeft, ListenerLeft, SweepLeft, IdleCloser
  <2>3. Len(bus') = 0 /\ Cardinality(Listed') = 0
    BY <2>1, FS_EmptySet, EmptySeq DEF Listed, IdleCloser
  <2> QED
    BY <1>1, <1>2, <2>2, <2>3
<1>7. ASSUME UNCHANGED <<closer, bus>>
      PROVE  ToClose' = ToClose
  BY <1>7 DEF ToClose, StepsLeft, ListenerLeft, SweepLeft
<1>8. CASE UNCHANGED inboxVars
  BY <1>8
<1>9. ASSUME Listener \/ SweepTakes \/ (\E c \in Closers : CloserStep(c) \/ StepFails(c))
      PROVE  ToClose' < ToClose
  BY <1>0, <1>3, <1>4, <1>5, <1>9 DEF Listener
<1>10. ASSUME ToClose' > ToClose
       PROVE  \/ SweepStarts
              \/ \E p \in Plans, s \in {"applied", "ended"} : PlanEnds(p, s)
              \/ \E u \in Users : CancelDiscard(u)
  <2>1. ~ (ToClose' < ToClose) /\ ToClose' # ToClose
    <3>1. ToClose \in Nat /\ ToClose' \in Nat
      BY <1>1, <1>2
    <3> QED
      BY <1>10, <3>1
  <2>2. ~ (UNCHANGED <<closer, bus>>)
    BY <1>7, <2>1
  <2>3. /\ ~ Listener /\ ~ SweepTakes /\ ~ Crash
        /\ \A c \in Closers : ~ CloserStep(c) /\ ~ StepFails(c)
    BY <1>6, <1>9, <1>10, <2>1
  <2> QED
    BY <1>0, <2>2, <2>3 DEF Next, Sweep, UserStep, ConfirmCheck, CancelRead, ConfirmInsert,
       ConfirmReady, ConfirmLink, ConfirmMark, CancelReset, CancelUnlink, CallFails, Classify,
       inboxVars
<1> QED
  BY <1>9, <1>10 DEF RoundsEnd

\* The work on ended plans winds down: every step of the listener and of the sweep's
\* round, also one that fails, leaves less of it, and only a plan that ends or a new
\* round of the sweep brings more.
THEOREM CloserWorkRunsOut ==
  ASSUME IsFiniteSet(Items)
  PROVE  Spec => [][RoundsEnd]_inboxVars
<1> DEFINE Finite == IsFiniteSet(Listed)
<1>1. Init => Finite
  <2> SUFFICES ASSUME Init
               PROVE  Listed = {}
    BY FS_EmptySet
  <2> QED
    BY DEF Init, Listed, IdleCloser, Closers
<1>2. Typed /\ Finite /\ [Next]_inboxVars => Finite'
  BY ListedStep
<1>3. Typed /\ Finite => Counted
  BY ToCloseCounts DEF Typed
<1>4. Typed /\ Typed' /\ Finite /\ Counted /\ Counted' /\ [Next]_inboxVars => [RoundsEnd]_inboxVars
  BY RoundsEndStep
<1>5. Typed /\ [Next]_inboxVars => Typed'
  BY TypedStep
<1> QED
  BY <1>1, <1>2, <1>3, <1>4, <1>5, TypedStarts, PTL DEF Spec
=============================================================================
