------------------------ MODULE WifiLifecycleProofs ------------------------
(***************************************************************************)
(* Outside the three windows (Undisturbed), hal_info is freed once, after  *)
(* its last use and never under a running loop, and a loop watches a pair  *)
(* of its own: for any number of lives.  The argument: only the last life  *)
(* is in use, in_event_loop says whether its loop runs whenever            *)
(* wifi_cleanup looks, and so one of the two threads cleans up and the     *)
(* other is out of the way.  A loop that handles events for commands is    *)
(* one of those loops, and what it reports of a list is of its event.      *)
(***************************************************************************)
EXTENDS WifiReports, SequenceTheorems, WellFoundedInduction, TLAPS

\* The state before the first life satisfies the invariant.
LEMMA InitIInv == Init => IInv
BY LifecycleAssumption DEF LifecycleAssumption, Init, IInv, TypeOK, OneLife, LoopInv, ApiInv,
   Idle, Flagged, Active, LoopPcs, Lives, NoPair

\* The framework's thread: it finds the loop out of the way or leaves the cleanup
\* to it.
LEMMA FrameworkKeeps ==
    ASSUME Undisturbed = TRUE, IInv, wifi_initialize \/ InitializeFails \/ BeginCleanup \/ CleanupStep
    PROVE  IInv'
<1> USE DEF IInv, TypeOK, OneLife, LoopInv, ApiInv, Idle, Lives, LoopPcs, Active, Flagged, NoPair
<1>0. MaxLives \in Nat
  BY LifecycleAssumption DEF LifecycleAssumption
<1>1. CASE wifi_initialize
  <2>1. TypeOK'
    BY <1>0, <1>1 DEF wifi_initialize, MayInitialize
  <2>2. OneLife'
    BY <1>0, <1>1 DEF wifi_initialize, MayInitialize
  <2>3. LoopInv'
    BY <1>0, <1>1 DEF wifi_initialize, MayInitialize
  <2>4. ApiInv'
    BY <1>0, <1>1 DEF wifi_initialize, MayInitialize
  <2> QED
    BY <2>1, <2>2, <2>3, <2>4
<1>2. CASE InitializeFails
  <2>1. TypeOK'
    BY <1>0, <1>2 DEF InitializeFails, MayInitialize
  <2>2. OneLife'
    BY <1>0, <1>2 DEF InitializeFails, MayInitialize
  <2>3. LoopInv'
    BY <1>0, <1>2 DEF InitializeFails, MayInitialize
  <2>4. ApiInv'
    BY <1>0, <1>2 DEF InitializeFails, MayInitialize
  <2> QED
    BY <2>1, <2>2, <2>3, <2>4
<1>3. CASE BeginCleanup
  <2>1. TypeOK'
    BY <1>0, <1>3 DEF BeginCleanup
  <2>2. OneLife'
    BY <1>0, <1>3 DEF BeginCleanup
  <2>3. LoopInv'
    BY <1>0, <1>3 DEF BeginCleanup
  <2>4. ApiInv'
    BY <1>0, <1>3 DEF BeginCleanup
  <2> QED
    BY <2>1, <2>2, <2>3, <2>4
<1>4. CASE TestLoop
  <2>1. TypeOK'
    <3>1. signalled' = signalled \/ signalled' = [signalled EXCEPT ![exit_sockets] = TRUE]
      BY <1>4 DEF TestLoop
    <3>2. signalled' \in [Lives -> BOOLEAN]
      BY <3>1
    <3>3. api' \in {"idle", "cleaning"}
      BY <1>4 DEF TestLoop
    <3> QED
      BY <1>4, <3>2, <3>3 DEF TestLoop
  <2>2. OneLife'
    BY <1>0, <1>4 DEF TestLoop
  <2>3. LoopInv'
    BY <1>0, <1>4 DEF TestLoop
  <2>4. ApiInv'
    BY <1>0, <1>4 DEF TestLoop
  <2> QED
    BY <2>1, <2>2, <2>3, <2>4
<1>5. CASE CallerCleansUp
  <2>1. TypeOK'
    BY <1>0, <1>5 DEF CallerCleansUp, CleanUpAndNotify
  <2>2. OneLife'
    BY <1>0, <1>5 DEF CallerCleansUp, CleanUpAndNotify
  <2>3. LoopInv'
    BY <1>0, <1>5 DEF CallerCleansUp, CleanUpAndNotify
  <2>4. ApiInv'
    BY <1>0, <1>5 DEF CallerCleansUp, CleanUpAndNotify
  <2> QED
    BY <2>1, <2>2, <2>3, <2>4
<1>6. CASE CallerCloses
  <2>1. TypeOK'
    BY <1>0, <1>6 DEF CallerCloses, FreeAndClose
  <2>2. OneLife'
    BY <1>0, <1>6 DEF CallerCloses, FreeAndClose
  <2>3. LoopInv'
    BY <1>0, <1>6 DEF CallerCloses, FreeAndClose
  <2>4. ApiInv'
    BY <1>0, <1>6 DEF CallerCloses, FreeAndClose
  <2> QED
    BY <2>1, <2>2, <2>3, <2>4
<1> QED
  BY <1>1, <1>2, <1>3, <1>4, <1>5, <1>6 DEF CleanupStep

\* The thread of the loop: hal_info is there until it cleans up itself.
LEMMA LoopKeeps ==
    ASSUME Undisturbed = TRUE, IInv, NEW l \in Lives, LoopStep(l) \/ Outside(l)
    PROVE  IInv'
<1> USE DEF IInv, TypeOK, OneLife, LoopInv, ApiInv, Idle, Lives, LoopPcs, Active, Flagged, NoPair
<1>0. MaxLives \in Nat
  BY LifecycleAssumption DEF LifecycleAssumption
<1>1. CASE Enter(l)
  <2>1. TypeOK'
    BY <1>0, <1>1 DEF Enter, At, Goto
  <2>2. OneLife'
    BY <1>0, <1>1 DEF Enter, At, Goto
  <2>3. LoopInv'
    BY <1>0, <1>1 DEF Enter, At, Goto
  <2>4. ApiInv'
    BY <1>0, <1>1 DEF Enter, At, Goto
  <2> QED
    BY <2>1, <2>2, <2>3, <2>4
<1>2. CASE MakePair(l)
  <2>1. TypeOK'
    BY <1>0, <1>2 DEF MakePair, At, Goto
  <2>2. OneLife'
    BY <1>0, <1>2 DEF MakePair, At, Goto
  <2>3. LoopInv'
    BY <1>0, <1>2 DEF MakePair, At, Goto
  <2>4. ApiInv'
    BY <1>0, <1>2 DEF MakePair, At, Goto
  <2> QED
    BY <2>1, <2>2, <2>3, <2>4
<1>3. CASE MakePairFails(l)
  <2>1. TypeOK'
    BY <1>0, <1>3 DEF MakePairFails, At, Goto
  <2>2. OneLife'
    BY <1>0, <1>3 DEF MakePairFails, At, Goto
  <2>3. LoopInv'
    BY <1>0, <1>3 DEF MakePairFails, At, Goto
  <2>4. ApiInv'
    BY <1>0, <1>3 DEF MakePairFails, At, Goto
  <2> QED
    BY <2>1, <2>2, <2>3, <2>4
<1>4. CASE SetInEventLoop(l)
  <2>1. TypeOK'
    BY <1>0, <1>4 DEF SetInEventLoop, At, Goto
  <2>2. OneLife'
    BY <1>0, <1>4 DEF SetInEventLoop, At, Goto
  <2>3. LoopInv'
    BY <1>0, <1>4 DEF SetInEventLoop, At, Goto
  <2>4. ApiInv'
    BY <1>0, <1>4 DEF SetInEventLoop, At, Goto
  <2> QED
    BY <2>1, <2>2, <2>3, <2>4
<1>5. CASE ReadExit(l)
  <2>1. TypeOK'
    BY <1>0, <1>5 DEF ReadExit, At, Goto, Woken
  <2>2. OneLife'
    BY <1>0, <1>5 DEF ReadExit, At, Goto, Woken
  <2>3. LoopInv'
    BY <1>0, <1>5 DEF ReadExit, At, Goto, Woken
  <2>4. ApiInv'
    BY <1>0, <1>5 DEF ReadExit, At, Goto, Woken
  <2> QED
    BY <2>1, <2>2, <2>3, <2>4
<1>6. CASE ReceiveEvent(l)
  <2>1. TypeOK'
    BY <1>0, <1>6 DEF ReceiveEvent, At, Goto
  <2>2. OneLife'
    BY <1>0, <1>6 DEF ReceiveEvent, At, Goto
  <2>3. LoopInv'
    BY <1>0, <1>6 DEF ReceiveEvent, At, Goto
  <2>4. ApiInv'
    BY <1>0, <1>6 DEF ReceiveEvent, At, Goto
  <2> QED
    BY <2>1, <2>2, <2>3, <2>4
<1>7. CASE PollFails(l)
  <2>1. TypeOK'
    BY <1>0, <1>7 DEF PollFails, At, Goto
  <2>2. OneLife'
    BY <1>0, <1>7 DEF PollFails, At, Goto
  <2>3. LoopInv'
    BY <1>0, <1>7 DEF PollFails, At, Goto
  <2>4. ApiInv'
    BY <1>0, <1>7 DEF PollFails, At, Goto
  <2> QED
    BY <2>1, <2>2, <2>3, <2>4
<1>8. CASE HandleEvents(l)
  <2>1. TypeOK'
    BY <1>0, <1>8 DEF HandleEvents, At, Goto
  <2>2. OneLife'
    BY <1>0, <1>8 DEF HandleEvents, At, Goto
  <2>3. LoopInv'
    BY <1>0, <1>8 DEF HandleEvents, At, Goto
  <2>4. ApiInv'
    BY <1>0, <1>8 DEF HandleEvents, At, Goto
  <2> QED
    BY <2>1, <2>2, <2>3, <2>4
<1>9. CASE CheckCleanUp(l)
  <2>1. TypeOK'
    BY <1>0, <1>9 DEF CheckCleanUp, At, Goto
  <2>2. OneLife'
    BY <1>0, <1>9 DEF CheckCleanUp, At, Goto
  <2>3. LoopInv'
    BY <1>0, <1>9 DEF CheckCleanUp, At, Goto
  <2>4. ApiInv'
    BY <1>0, <1>9 DEF CheckCleanUp, At, Goto
  <2> QED
    BY <2>1, <2>2, <2>3, <2>4
<1>10. CASE ClearInEventLoop(l)
  <2>1. TypeOK'
    BY <1>0, <1>10 DEF ClearInEventLoop, At, Goto
  <2>2. OneLife'
    BY <1>0, <1>10 DEF ClearInEventLoop, At, Goto
  <2>3. LoopInv'
    BY <1>0, <1>10 DEF ClearInEventLoop, At, Goto
  <2>4. ApiInv'
    BY <1>0, <1>10 DEF ClearInEventLoop, At, Goto
  <2> QED
    BY <2>1, <2>2, <2>3, <2>4
<1>11. CASE Leave(l)
  <2>1. TypeOK'
    BY <1>0, <1>11 DEF Leave, At, Goto
  <2>2. OneLife'
    BY <1>0, <1>11 DEF Leave, At, Goto
  <2>3. LoopInv'
    <3>1. CASE clean_up[l]
      BY <1>11, <3>1 DEF Leave, At, Goto
    <3>2. CASE ~clean_up[l]
      BY <1>11, <3>2 DEF Leave, At, Goto
    <3> QED
      BY <3>1, <3>2
  <2>4. ApiInv'
    BY <1>0, <1>11 DEF Leave, At, Goto
  <2> QED
    BY <2>1, <2>2, <2>3, <2>4
<1>12. CASE LoopCleansUp(l)
  <2>1. TypeOK'
    BY <1>0, <1>12 DEF LoopCleansUp, At, Goto, CleanUpAndNotify
  <2>2. OneLife'
    BY <1>0, <1>12 DEF LoopCleansUp, At, Goto, CleanUpAndNotify
  <2>3. LoopInv'
    BY <1>0, <1>12 DEF LoopCleansUp, At, Goto, CleanUpAndNotify
  <2>4. ApiInv'
    BY <1>0, <1>12 DEF LoopCleansUp, At, Goto, CleanUpAndNotify
  <2> QED
    BY <2>1, <2>2, <2>3, <2>4
<1>13. CASE LoopCloses(l)
  <2>1. TypeOK'
    BY <1>0, <1>13 DEF LoopCloses, At, Goto, FreeAndClose
  <2>2. OneLife'
    BY <1>0, <1>13 DEF LoopCloses, At, Goto, FreeAndClose
  <2>3. LoopInv'
    BY <1>0, <1>13 DEF LoopCloses, At, Goto, FreeAndClose
  <2>4. ApiInv'
    BY <1>0, <1>13 DEF LoopCloses, At, Goto, FreeAndClose
  <2> QED
    BY <2>1, <2>2, <2>3, <2>4
<1> QED
  BY <1>1, <1>2, <1>3, <1>4, <1>5, <1>6, <1>7, <1>8, <1>9, <1>10, <1>11, <1>12, <1>13 DEF LoopStep, Outside

\* Every step keeps the invariant.
LEMMA NextIInv == ASSUME Undisturbed = TRUE PROVE IInv /\ [Next]_vars => IInv'
<1> SUFFICES ASSUME IInv, [Next]_vars PROVE IInv'
  OBVIOUS
<1>1. CASE UNCHANGED vars
  BY <1>1 DEF vars, IInv, TypeOK, OneLife, LoopInv, ApiInv, Idle
<1> QED
  BY <1>1, FrameworkKeeps, LoopKeeps DEF Next

-----------------------------------------------------------------------------
\* IInv holds in every state of every number of lives, outside the windows.
THEOREM LifecycleInvariance == ASSUME Undisturbed = TRUE PROVE Spec => []IInv
BY InitIInv, NextIInv, PTL DEF Spec

\* Every variable keeps its type, and wifi_internal_cleanup runs once at most for
\* a life.
THEOREM LifecycleTypeCorrect == ASSUME Undisturbed = TRUE PROVE Spec => []TypeOK
<1>1. IInv => TypeOK
  BY DEF IInv
<1> QED
  BY <1>1, LifecycleInvariance, PTL

\* wifi_cleanup frees hal_info only when the loop is not active.
THEOREM FreedInactive == ASSUME Undisturbed = TRUE PROVE Spec => []InactiveWhenFreed
<1>1. IInv => InactiveWhenFreed
  BY DEF IInv, ApiInv, InactiveWhenFreed
<1> QED
  BY <1>1, LifecycleInvariance, PTL

\* No thread reads hal_info before it is there or after it is freed.
THEOREM UsedLive == ASSUME Undisturbed = TRUE PROVE Spec => []UsedWhileLive
<1>1. IInv => UsedWhileLive
  BY DEF IInv, LoopInv, ApiInv, UsedWhileLive
<1> QED
  BY <1>1, LifecycleInvariance, PTL

\* A loop that polls watches the pair it made itself, which no earlier life
\* closes.
THEOREM OwnPair == ASSUME Undisturbed = TRUE PROVE Spec => []PairIsOwn
<1>1. IInv => PairIsOwn
  BY DEF IInv, LoopInv, PairIsOwn, Flagged
<1> QED
  BY <1>1, LifecycleInvariance, PTL

-----------------------------------------------------------------------------
\* A step of the loop with commands is a step of the loop.
LEMMA ReportsStep == [ReportsNext]_allVars => [Next]_vars
<1> SUFFICES ASSUME [ReportsNext]_allVars PROVE [Next]_vars
  OBVIOUS
<1>1. CASE ReportsNext
  BY <1>1 DEF ReportsNext, CleanupWithCommands, LoopWithCommands, lifecycleVars, Next
<1>2. CASE UNCHANGED allVars
  BY <1>2 DEF allVars, vars
<1> QED
  BY <1>1, <1>2

\* The loop with commands implements WifiLifecycle.
THEOREM ReportsImplementLifecycle == ReportsSpec => Spec
<1>1. ReportsInit => Init
  BY DEF ReportsInit
<1> QED
  BY <1>1, ReportsStep, PTL DEF ReportsSpec, Spec

\* So hal_info outlives its readers with commands and events too.
THEOREM ReportsUsedLive == ASSUME Undisturbed = TRUE PROVE ReportsSpec => []UsedWhileLive
BY ReportsImplementLifecycle, UsedLive, PTL

\* What the handlers of a list report.
LEMMA ListReport ==
    ASSUME NEW n, NEW e \in Events(command, n), command \in Lists, HandleList(e),
           report' # report
    PROVE  OfEvent(report', event')
<1>1. Room \in Nat /\ e.results \in Nat
  BY ReportsAssumption DEF ReportsAssumption, Events, Lists, Singles
<1>2. /\ event' = e
      /\ report' = [class |-> command, results |-> SubSeq(mResults', 1, Least(e.results, Room))]
  BY DEF HandleList, Call
<1>3. \A i \in 1..Room : i <= e.results =>
        \/ mResults'[i] = <<e.number, i>>
        \/ mResults'[i] = Blank /\ (~e.good \/ i \in e.lost)
  <2>1. CASE command = "hotlist"
    BY <2>1 DEF HandleList, Hotlist, Cleared, Result
  <2>2. CASE command = "epno"
    BY <2>2 DEF HandleList, Epno, Cleared, Result
  <2>3. CASE command = "significant"
    BY <2>3 DEF HandleList, Significant, Result
  <2> QED
    BY <2>1, <2>2, <2>3 DEF Lists
<1>4. Least(e.results, Room) \in 0..Room /\ Least(e.results, Room) <= e.results
  BY <1>1 DEF Least
<1>5. /\ Len(SubSeq(mResults', 1, Least(e.results, Room))) = Least(e.results, Room)
      /\ \A i \in 1..Least(e.results, Room) :
           SubSeq(mResults', 1, Least(e.results, Room))[i] = mResults'[i]
  BY <1>1, <1>4 DEF SubSeq
<1> QED
  BY <1>1, <1>2, <1>3, <1>4, <1>5 DEF OfEvent

\* What the handlers of one thing report.
LEMMA SingleReport ==
    ASSUME NEW n, NEW e \in Events(command, n), command \in Singles, HandleSingle(e),
           report' # report
    PROVE  OfEvent(report', event')
<1>1. event' = e /\ report' = [class |-> command, results |-> <<Result(e, 1)>>]
  BY DEF HandleSingle, Call
<1>2. e.results = 1 /\ Least(1, Room) = 1
  BY ReportsAssumption DEF ReportsAssumption, Events, Least
<1> QED
  BY <1>1, <1>2 DEF OfEvent, Result

\* Nothing but the handlers of lists and of single things makes such a report.
LEMMA ReportStep ==
    ASSUME ReportsNext, report' # report, report'.class \in Lists \cup Singles
    PROVE  OfEvent(report', event')
<1>1. ~Fresh
  BY DEF Fresh, NoReport, Lists, Singles
<1>2. Handle
  BY <1>1 DEF ReportsNext, CleanupWithCommands, LoopWithCommands, StartCommand,
     CancelCommand, CommandsGo, reportVars
<1>3. ASSUME NEW attributes, NEW n, HandleRtt(n, attributes)
      PROVE  FALSE
  BY <1>3 DEF HandleRtt, Call, Lists, Singles
<1>4. PICK e \in Events(command, event.number + 1) :
        (command \in Lists /\ HandleList(e)) \/ (command \in Singles /\ HandleSingle(e))
  BY <1>2, <1>3 DEF Handle, HandleNothing, reportVars
<1> QED
  BY <1>4, ListReport, SingleReport

\* A report of a list, a scan, an RSSI or a hotspot is of the event that caused
\* it, for buffers of any size (handleEvent of the gscan commands).
THEOREM ReportsOfEvents == ReportsSpec => ReportIsOfEvent
<1>1. [ReportsNext]_allVars =>
        [report' # report /\ report'.class \in Lists \cup Singles
           => OfEvent(report', event')]_allVars
  BY ReportStep
<1> QED
  BY <1>1, PTL DEF ReportsSpec, ReportIsOfEvent

-----------------------------------------------------------------------------
(***************************************************************************)
(* The loop over the attributes of an RTT event.                           *)
(***************************************************************************)

\* Whatever holds at 0 and from each number to the next holds up to n.
LEMMA UpTo ==
    ASSUME NEW n \in Nat, NEW S, 0 \in S, \A k \in 0..(n - 1) : k \in S => k + 1 \in S
    PROVE  \A k \in 0..n : k \in S
<1> SUFFICES ASSUME NEW k \in 0..n, k \notin S PROVE FALSE
  OBVIOUS
<1> DEFINE T == {i \in 0..n : i \notin S}
<1>1. T \subseteq Nat /\ T # {}
  OBVIOUS
<1>2. PICK x \in T : \A y \in T : ~ (<<y, x>> \in OpToRel(<, Nat))
  BY <1>1, NatLessThanWellFounded, WFMin, Zenon
<1>3. x \in Nat \ {0} /\ x - 1 \in 0..(n - 1)
  OBVIOUS
<1>4. x - 1 \notin S
  BY <1>3
<1>5. x - 1 \in T /\ x - 1 \in Nat /\ x \in Nat /\ x - 1 < x
  BY <1>3, <1>4
<1> HIDE DEF T
<1>6. <<x - 1, x>> \in OpToRel(<, Nat)
  BY <1>5 DEF OpToRel
<1> QED
  BY <1>2, <1>5, <1>6

\* g holds what a loop of L turns that begins with b has come to after each turn.
IsLoop(g, b, L, f) == g = [k \in 0..L |-> IF k = 0 THEN b ELSE f[<<g[k - 1], k>>]]

LEMMA Loop ==
    ASSUME NEW S, NEW b \in S, NEW L \in Nat, NEW f \in [S \X (1..L) -> S]
    PROVE  \E g \in [0..L -> S] : IsLoop(g, b, L, f)
<1> DEFINE Is(g, n) == g \in [0..n -> S] /\ g[0] = b
                       /\ \A k \in 1..n : g[k] = f[<<g[k - 1], k>>]
           T == {n \in Nat : \E g : Is(g, n)}
<1>1. 0 \in T
  <2>1. Is([k \in 0..0 |-> b], 0)
    OBVIOUS
  <2> HIDE DEF Is
  <2> QED
    BY <2>1
<1>2. ASSUME NEW n \in 0..(L - 1), n \in T PROVE n + 1 \in T
  <2>1. PICK g : Is(g, n)
    BY <1>2
  <2>2. n \in Nat /\ n + 1 \in 1..L /\ g[n] \in S
    BY <2>1
  <2> DEFINE x == f[<<g[n], n + 1>>]
             t == [k \in 0..(n + 1) |-> IF k <= n THEN g[k] ELSE x]
  <2>3. x \in S
    BY <2>2
  <2> HIDE DEF x
  <2>4. t \in [0..(n + 1) -> S] /\ t[0] = b /\ t[n + 1] = x /\ t[n] = g[n]
    BY <2>1, <2>2, <2>3
  <2>5. ASSUME NEW k \in 1..(n + 1) PROVE t[k] = f[<<t[k - 1], k>>]
    <3>1. CASE k \in 1..n
      BY <2>1, <2>2, <3>1
    <3>2. CASE k = n + 1
      <4>1. k - 1 = n
        BY <2>2, <3>2
      <4>2. x = f[<<g[n], k>>]
        BY <3>2 DEF x
      <4> HIDE DEF t
      <4> QED
        BY <2>4, <3>2, <4>1, <4>2, Zenon
    <3> QED
      BY <2>2, <3>1, <3>2
  <2> HIDE DEF t
  <2>6. Is(t, n + 1)
    BY <2>4, <2>5
  <2> HIDE DEF Is
  <2> QED
    BY <2>2, <2>6
<1>3. L \in T
  <2> HIDE DEF T
  <2>1. \A k \in 0..L : k \in T
    BY <1>1, <1>2, UpTo
  <2> QED
    BY <2>1
<1>4. PICK g : Is(g, L)
  BY <1>3
<1>5. IsLoop(g, b, L, f)
  BY <1>4 DEF IsLoop
<1> QED
  BY <1>4, <1>5

\* The results of RTT: the number of an event and a place.
Places == Nat \X Nat
Held == [results : Seq(Places), completed : BOOLEAN]
Attributes == [type : {"completed"}, flag : BOOLEAN]
                \cup [type : {"target"}, results : Nat, unstored : Nat]

LEMMA StoredOfTyped ==
    ASSUME NEW number \in Nat, NEW a \in Attributes
    PROVE  StoredOf(number, a) \in Seq(Places)
<1>1. CASE a.type = "completed"
  BY <1>1 DEF StoredOf
<1>2. CASE a.type # "completed"
  <2>1. a.results \in Nat /\ a.unstored \in Nat
    BY <1>2 DEF Attributes
  <2>2. Stored(a) \in Nat
    BY <2>1 DEF Stored
  <2>3. StoredOf(number, a) = [i \in 1..Stored(a) |-> <<number, i>>]
    BY <1>2 DEF StoredOf
  <2> QED
    BY <2>2, <2>3 DEF Places
<1> QED
  BY <1>1, <1>2

LEMMA RttAttributeFacts ==
    ASSUME NEW number \in Nat, NEW h \in Held, NEW a \in Attributes
    PROVE  /\ RttAttribute(number, h, a) \in Held
           /\ RttAttribute(number, h, a).results = h.results \o StoredOf(number, a)
<1>1. StoredOf(number, a) \in Seq(Places) /\ h.results \in Seq(Places) /\ h.completed \in BOOLEAN
  BY StoredOfTyped DEF Held
<1>2. CASE a.type = "completed"
  <2>1. a.flag \in BOOLEAN
    BY <1>2 DEF Attributes
  <2>2. RttAttribute(number, h, a) = [results |-> h.results, completed |-> a.flag]
    BY <1>2 DEF RttAttribute
  <2>3. h.results \o << >> = h.results /\ StoredOf(number, a) = << >>
    BY <1>1, <1>2, ConcatEmptySeq DEF StoredOf
  <2> QED
    BY <1>1, <2>1, <2>2, <2>3 DEF Held
<1>3. CASE a.type # "completed"
  <2> DEFINE r == h.results \o StoredOf(number, a)
             c == h.completed \/ a.unstored \in 1..a.results
  <2>1. r \in Seq(Places)
    BY <1>1, ConcatProperties
  <2>2. c \in BOOLEAN
    BY <1>1
  <2>3. RttAttribute(number, h, a) = [results |-> r, completed |-> c]
    BY <1>3 DEF RttAttribute
  <2> HIDE DEF r, c
  <2>4. [results |-> r, completed |-> c] \in Held /\ [results |-> r, completed |-> c].results = r
    BY <2>1, <2>2 DEF Held
  <2> QED
    BY <2>3, <2>4 DEF r
<1> QED
  BY <1>2, <1>3

\* Whatever attributes an event has, the results that the command then holds are
\* those it held before and those of the event.
LEMMA RttAttributesFacts ==
    ASSUME NEW number \in Nat, rtt \in Held, NEW attributes \in Seq(Attributes),
           NEW L, L = Len(attributes)
    PROVE  /\ RttAttributes(number, attributes)[L] \in Held
           /\ StoredOfAll(number, attributes)[L] \in Seq(Places)
           /\ RttAttributes(number, attributes)[L].results =
                 rtt.results \o StoredOfAll(number, attributes)[L]
<1>1. L \in Nat /\ \A k \in 1..L : attributes[k] \in Attributes
  OBVIOUS
<1> DEFINE s == RttAttributes(number, attributes)
           t == StoredOfAll(number, attributes)
           F == [x \in Held \X (1..L) |-> RttAttribute(number, x[1], attributes[x[2]])]
           G == [x \in Seq(Places) \X (1..L) |-> x[1] \o StoredOf(number, attributes[x[2]])]
           IsS(g) == g = [k \in 0..L |-> IF k = 0 THEN rtt ELSE RttAttribute(number, g[k - 1], attributes[k])]
           IsT(g) == g = [k \in 0..L |-> IF k = 0 THEN << >> ELSE g[k - 1] \o StoredOf(number, attributes[k])]
<1>2. \E g : IsS(g)
  <2>1. F \in [Held \X (1..L) -> Held]
    BY <1>1, RttAttributeFacts
  <2>2. PICK g \in [0..L -> Held] : IsLoop(g, rtt, L, F)
    <3> HIDE DEF F
    <3> QED
      BY <1>1, <2>1, Loop
  <2>3. ASSUME NEW k \in 0..L
        PROVE  (IF k = 0 THEN rtt ELSE F[<<g[k - 1], k>>])
                  = IF k = 0 THEN rtt ELSE RttAttribute(number, g[k - 1], attributes[k])
    <3>1. CASE k = 0
      BY <3>1
    <3>2. CASE k # 0
      <4>1. k \in 1..L /\ k - 1 \in 0..L /\ g[k - 1] \in Held
        BY <1>1, <2>2, <3>2
      <4>2. <<g[k - 1], k>> \in Held \X (1..L)
        BY <4>1
      <4>3. F[<<g[k - 1], k>>] = RttAttribute(number, g[k - 1], attributes[k])
        BY <4>2
      <4> QED
        BY <3>2, <4>3, Zenon
    <3> QED
      BY <3>1, <3>2
  <2>4. IsS(g)
    <3> HIDE DEF F
    <3> QED
      BY <2>2, <2>3, Zenon DEF IsLoop
  <2> QED
    BY <2>4
<1>3. \E g : IsT(g)
  <2>1. G \in [Seq(Places) \X (1..L) -> Seq(Places)]
    <3> SUFFICES ASSUME NEW x \in Seq(Places) \X (1..L)
                 PROVE  x[1] \o StoredOf(number, attributes[x[2]]) \in Seq(Places)
      OBVIOUS
    <3>1. x[1] \in Seq(Places) /\ StoredOf(number, attributes[x[2]]) \in Seq(Places)
      BY <1>1, StoredOfTyped
    <3> QED
      BY <3>1, ConcatProperties
  <2>2. << >> \in Seq(Places)
    OBVIOUS
  <2>3. PICK g \in [0..L -> Seq(Places)] : IsLoop(g, << >>, L, G)
    <3> HIDE DEF G
    <3> QED
      BY <1>1, <2>1, <2>2, Loop
  <2>4. ASSUME NEW k \in 0..L
        PROVE  (IF k = 0 THEN << >> ELSE G[<<g[k - 1], k>>])
                  = IF k = 0 THEN << >> ELSE g[k - 1] \o StoredOf(number, attributes[k])
    <3>1. CASE k = 0
      BY <3>1
    <3>2. CASE k # 0
      <4> HIDE DEF G
      <4>1. k \in 1..L /\ k - 1 \in 0..L /\ g[k - 1] \in Seq(Places)
        <5>1. k \in 1..L /\ k - 1 \in 0..L
          BY <1>1, <3>2
        <5> QED
          BY <5>1
      <4>2. <<g[k - 1], k>> \in Seq(Places) \X (1..L)
        BY <4>1
      <4>3. G[<<g[k - 1], k>>] = g[k - 1] \o StoredOf(number, attributes[k])
        BY <4>2 DEF G
      <4> QED
        BY <3>2, <4>3, Zenon
    <3> QED
      BY <3>1, <3>2
  <2>5. IsT(g)
    <3> HIDE DEF G
    <3> QED
      BY <2>3, <2>4, Zenon DEF IsLoop
  <2> QED
    BY <2>5
<1>4. IsS(s) /\ IsT(t)
  BY <1>2, <1>3, Zenon DEF RttAttributes, StoredOfAll
<1>5. /\ s[0] = rtt /\ t[0] = << >>
      /\ \A k \in 1..L : /\ s[k] = RttAttribute(number, s[k - 1], attributes[k])
                         /\ t[k] = t[k - 1] \o StoredOf(number, attributes[k])
  <2> HIDE DEF s, t
  <2>1. 0 \in 0..L /\ \A k \in 1..L : k \in 0..L /\ k # 0
    BY <1>1
  <2>2. s[0] = rtt /\ \A k \in 1..L : s[k] = RttAttribute(number, s[k - 1], attributes[k])
    BY <1>4, <2>1
  <2>3. t[0] = << >> /\ \A k \in 1..L : t[k] = t[k - 1] \o StoredOf(number, attributes[k])
    BY <1>4, <2>1, Zenon
  <2> QED
    BY <2>2, <2>3
<1> HIDE DEF s, t, IsS, IsT, F, G
<1> DEFINE Good == {k \in Nat : s[k] \in Held /\ t[k] \in Seq(Places)
                                /\ s[k].results = rtt.results \o t[k]}
<1>6. 0 \in Good
  <2>1. rtt.results \in Seq(Places) /\ << >> \in Seq(Places)
    BY DEF Held
  <2>2. rtt.results \o << >> = rtt.results
    BY <2>1, ConcatEmptySeq
  <2>3. s[0] = rtt /\ t[0] = << >>
    BY <1>5
  <2>4. s[0].results = rtt.results \o t[0]
    BY <2>2, <2>3, Zenon
  <2> QED
    BY <2>1, <2>3, <2>4
<1>7. ASSUME NEW k \in 0..(L - 1), k \in Good PROVE k + 1 \in Good
  <2> DEFINE a == attributes[k + 1]
  <2>1. a \in Attributes /\ k + 1 \in 1..L /\ k + 1 \in Nat
    BY <1>1
  <2>2. s[k + 1] = RttAttribute(number, s[k], a) /\ t[k + 1] = t[k] \o StoredOf(number, a)
    <3>1. (k + 1) - 1 = k
      OBVIOUS
    <3> QED
      BY <1>5, <2>1, <3>1, Zenon
  <2>3. s[k] \in Held /\ t[k] \in Seq(Places) /\ s[k].results = rtt.results \o t[k]
    BY <1>7
  <2> HIDE DEF a
  <2>4. s[k + 1] \in Held /\ s[k + 1].results = s[k].results \o StoredOf(number, a)
    BY <2>1, <2>2, <2>3, RttAttributeFacts
  <2>5. StoredOf(number, a) \in Seq(Places) /\ rtt.results \in Seq(Places)
    BY <2>1, StoredOfTyped DEF Held
  <2>6. t[k + 1] \in Seq(Places)
    BY <2>2, <2>3, <2>5, ConcatProperties
  <2>7. s[k + 1].results = rtt.results \o t[k + 1]
    <3>1. (rtt.results \o t[k]) \o StoredOf(number, a) = rtt.results \o (t[k] \o StoredOf(number, a))
      <4> DEFINE x == rtt.results
                 y == t[k]
                 z == StoredOf(number, a)
      <4>1. x \in Seq(Places) /\ y \in Seq(Places) /\ z \in Seq(Places)
        BY <2>3, <2>5
      <4> HIDE DEF x, y, z
      <4>2. (x \o y) \o z = x \o (y \o z)
        BY <4>1, ConcatAssociative
      <4> QED
        BY <4>2 DEF x, y, z
    <3> QED
      BY <2>2, <2>3, <2>4, <3>1, Zenon
  <2> QED
    BY <2>1, <2>4, <2>6, <2>7
<1>8. L \in Good
  <2> HIDE DEF Good
  <2>1. \A k \in 0..L : k \in Good
    BY <1>1, <1>6, <1>7, UpTo
  <2> QED
    BY <1>1, <2>1
<1> QED
  BY <1>8 DEF s, t

LEMMA RttEventsTyped ==
    ASSUME NEW attributes \in RttEvents PROVE attributes \in Seq(Attributes)
<1>1. \A f \in BOOLEAN : Completed(f) \in Attributes
  BY DEF Completed, Attributes
<1>2. \A n \in 1..MaxResults, u \in 0..MaxResults : Target(n, u) \in Attributes
  BY ReportsAssumption DEF Target, Attributes
<1>3. PICK a \in Attributes, b \in Attributes : attributes = <<a, b>>
  BY <1>1, <1>2 DEF RttEvents
<1> QED
  BY <1>3

\* What an RTT command holds is what was stored since it was started.
RttInv ==
    /\ rtt \in Held /\ sent \in Seq(Places) /\ event.number \in Nat
    /\ command = "rtt" => rtt.results = sent

LEMMA InitRtt == ReportsInit => RttInv
<1>1. NoResults \in Held
  BY DEF NoResults, Held
<1>2. << >> \in Seq(Places) /\ NoEvent.number \in Nat
  BY DEF NoEvent
<1> QED
  BY <1>1, <1>2 DEF ReportsInit, RttInv

LEMMA FreshRtt == ASSUME RttInv, Fresh PROVE RttInv'
<1>1. NoResults \in Held /\ NoResults.results = << >>
  BY DEF NoResults, Held
<1>2. /\ rtt' = NoResults /\ sent' = << >> /\ event' = [NoEvent EXCEPT !.number = event.number]
      /\ event.number \in Nat
  BY DEF Fresh, RttInv
<1>3. event'.number \in Nat
  BY <1>2 DEF NoEvent
<1> QED
  BY <1>1, <1>2, <1>3 DEF RttInv

\* The event of an RTT command, whatever its attributes.
LEMMA HandleRttKeeps ==
    ASSUME RttInv, command = "rtt", NEW number, number = event.number + 1,
           NEW attributes \in Seq(Attributes), HandleRtt(number, attributes)
    PROVE  RttInv' /\ (report' # report => report'.results = sent')
<1> DEFINE h == RttAttributes(number, attributes)[Len(attributes)]
           t == StoredOfAll(number, attributes)[Len(attributes)]
<1>1. /\ rtt \in Held /\ sent \in Seq(Places) /\ event.number \in Nat
      /\ rtt.results = sent /\ number \in Nat
  BY DEF RttInv
<1>2. h \in Held /\ t \in Seq(Places) /\ h.results = sent \o t
  BY <1>1, RttAttributesFacts
<1>3. /\ event' = [NoEvent EXCEPT !.number = number]
      /\ sent' = sent \o t
      /\ IF h.completed
           THEN /\ report' = [class |-> "rtt", results |-> h.results]
                /\ rtt' = NoResults /\ command' = "none"
           ELSE rtt' = h /\ report' = report /\ command' = command
  BY DEF HandleRtt, Call
<1> HIDE DEF h, t
<1>4. event'.number \in Nat
  BY <1>1, <1>3 DEF NoEvent
<1>5. sent' \in Seq(Places)
  BY <1>1, <1>2, <1>3, ConcatProperties
<1>6. CASE h.completed
  <2>1. NoResults \in Held
    BY DEF NoResults, Held
  <2>2. rtt' = NoResults /\ command' = "none" /\ report'.results = sent'
    BY <1>2, <1>3, <1>6
  <2> QED
    BY <1>4, <1>5, <2>1, <2>2 DEF RttInv
<1>7. CASE ~h.completed
  <2>1. rtt' = h /\ report' = report
    BY <1>3, <1>7
  <2>2. rtt'.results = sent'
    BY <1>2, <1>3, <2>1
  <2> QED
    BY <1>2, <1>4, <1>5, <2>1, <2>2 DEF RttInv
<1> QED
  BY <1>6, <1>7

\* The event of another command.
LEMMA HandleOtherKeeps ==
    ASSUME RttInv, NEW e, e.number \in Nat,
           \/ command \in Lists \cup Singles /\ HandleNothing(e)
           \/ command \in Lists /\ HandleList(e)
           \/ command \in Singles /\ HandleSingle(e)
    PROVE  RttInv' /\ (report' # report => report'.class # "rtt")
<1>1. event' = e /\ rtt' = rtt /\ sent' = sent /\ command' = command /\ command # "rtt"
  BY DEF HandleNothing, HandleList, HandleSingle, Lists, Singles
<1>2. report' = report \/ report'.class = command
  <2>1. \A results : Call(command, results) => report'.class = command
    BY DEF Call
  <2> QED
    BY <2>1, Zenon DEF HandleNothing, HandleList, HandleSingle
<1> QED
  BY <1>1, <1>2 DEF RttInv

LEMMA HandleKeeps ==
    ASSUME RttInv, Handle
    PROVE  RttInv' /\ (report' # report /\ report'.class = "rtt" => report'.results = sent')
<1>1. CASE UNCHANGED reportVars
  BY <1>1 DEF reportVars, RttInv
<1>2. event.number + 1 \in Nat
  BY DEF RttInv
<1>3. CASE command \in Lists \cup Singles
           /\ HandleNothing([NoEvent EXCEPT !.number = event.number + 1])
  <2> DEFINE e == [NoEvent EXCEPT !.number = event.number + 1]
  <2>1. e.number \in Nat
    BY <1>2 DEF NoEvent
  <2> HIDE DEF e
  <2>2. HandleNothing(e) /\ command \in Lists \cup Singles
    BY <1>3 DEF e
  <2> QED
    BY <2>1, <2>2, HandleOtherKeeps
<1>4. ASSUME NEW e \in Events(command, event.number + 1),
             \/ command \in Lists /\ HandleList(e)
             \/ command \in Singles /\ HandleSingle(e)
      PROVE  RttInv' /\ (report' # report => report'.class # "rtt")
  <2>1. e.number \in Nat
    BY <1>2 DEF Events
  <2> QED
    BY <1>4, <2>1, HandleOtherKeeps
<1>5. ASSUME command = "rtt", NEW attributes \in RttEvents,
             HandleRtt(event.number + 1, attributes)
      PROVE  RttInv' /\ (report' # report => report'.results = sent')
  BY <1>5, RttEventsTyped, HandleRttKeeps
<1> QED
  BY <1>1, <1>3, <1>4, <1>5 DEF Handle

LEMMA RttStep ==
    ASSUME RttInv, [ReportsNext]_allVars
    PROVE  RttInv' /\ (report' # report /\ report'.class = "rtt" => report'.results = sent')
<1>1. CASE UNCHANGED reportVars
  BY <1>1 DEF reportVars, RttInv
<1>2. CASE Fresh
  BY <1>2, FreshRtt DEF Fresh, NoReport
<1>3. CASE Handle
  BY <1>3, HandleKeeps
<1>4. CASE UNCHANGED allVars
  BY <1>1, <1>4 DEF allVars, reportVars
<1> QED
  BY <1>1, <1>2, <1>3, <1>4 DEF ReportsNext, CleanupWithCommands, LoopWithCommands,
     StartCommand, CancelCommand, CommandsGo

\* An RTT report holds every result that was stored since its command was started,
\* in the order of the events, however many they came in and whatever targets
\* each held (RttCommand::handleEvent).
THEOREM RttReportsHoldAll == ReportsSpec => RttReportsAll
<1>1. ReportsSpec => []RttInv
  <2>1. RttInv /\ [ReportsNext]_allVars => RttInv'
    BY RttStep
  <2> QED
    BY <2>1, InitRtt, PTL DEF ReportsSpec
<1>2. RttInv /\ [ReportsNext]_allVars =>
        [report' # report /\ report'.class = "rtt" => report'.results = sent']_allVars
  BY RttStep
<1> QED
  BY <1>1, <1>2, PTL DEF ReportsSpec, RttReportsAll
=============================================================================
