--------------------------- MODULE WifiHalProofs ----------------------------
(***************************************************************************)
(* Proofs about WifiHal.  The safety properties hold for every number of   *)
(* commands and every size of the two tables, provided the caller keeps    *)
(* to one user per event.                                                  *)
(***************************************************************************)
EXTENDS WifiHal, SequenceTheorems, FiniteSetTheorems, TLAPS, WellFoundedInduction,
        NaturalsInduction

-----------------------------------------------------------------------------
(***************************************************************************)
(* Facts about the programs of WifiCommands: what a command class          *)
(* registers it registers once, each error path names what was registered  *)
(* before it, and cancel() names everything start() registers.             *)
(***************************************************************************)

\* No error path names an event that the program does not register.
UndoesOwn(P) ==
    \A i \in DOMAIN P : P[i].op = "attempt" =>
        \A u \in DOMAIN P[i].undo :
            \E j \in DOMAIN P : P[j].op = "register" /\ P[j].ev = P[i].undo[u]

\* Every error path unregisters what the steps before it registered, and
\* nothing that the class does not subscribe to.
WellFormedStart(P) ==
    /\ P \in Seq(Steps)
    /\ \A i \in DOMAIN P : P[i].op \in {"attempt", "register"}
    /\ \A i \in DOMAIN P : P[i].op = "register" => P[i].ev \in Events
    /\ \A i, j \in DOMAIN P :
          P[i].op = "register" /\ P[j].op = "register" /\ P[i].ev = P[j].ev => i = j
    /\ \A i, j \in DOMAIN P :
          P[i].op = "attempt" /\ j < i /\ P[j].op = "register"
            => \E u \in DOMAIN P[i].undo : P[i].undo[u] = P[j].ev
    /\ UndoesOwn(P)

\* Program Q unregisters all that P registers and nothing else.
WellFormedCancel(P, Q) ==
    /\ Q \in Seq(Steps)
    /\ \A i \in DOMAIN Q : Q[i].op \in {"attempt", "unregister"}
    /\ \A i \in DOMAIN P : P[i].op = "register" =>
          \E j \in DOMAIN Q : Q[j].op = "unregister" /\ Q[j].ev = P[i].ev
    /\ \A j \in DOMAIN Q : Q[j].op = "unregister" =>
          \E i \in DOMAIN P : P[i].op = "register" /\ P[i].ev = Q[j].ev

\* start() of every class cleans up after itself when it fails.
LEMMA StartIsWellFormed ==
    ASSUME NEW k \in Kinds
    PROVE  WellFormedStart(StartProgram(k))
<1>1. WellFormedStart(ScanCommand_start)
  <2> DEFINE P == ScanCommand_start
  <2>1. P \in Seq(Steps)
    BY DEF ScanCommand_start, Attempt, Register, Steps, Events, NoEvent
  <2>2. DOMAIN P = 1..5
    BY DEF ScanCommand_start
  <2>3. UndoesOwn(P)
    <3>1. ASSUME NEW i \in DOMAIN P, P[i].op = "attempt", NEW u \in DOMAIN P[i].undo
          PROVE  \E j \in DOMAIN P : P[j].op = "register" /\ P[j].ev = P[i].undo[u]
      <4>1. i = 1 \/ i = 5
        BY <2>2, <3>1 DEF ScanCommand_start, Attempt, Register
      <4>2. i = 5 /\ u \in 1..3
        BY <3>1, <4>1 DEF ScanCommand_start, Attempt, Register
      <4> DEFINE j == IF u = 1 THEN 3 ELSE IF u = 2 THEN 2 ELSE 4
      <4>3. j \in DOMAIN P /\ P[j].op = "register" /\ P[j].ev = P[i].undo[u]
        BY <2>2, <4>2 DEF ScanCommand_start, Attempt, Register
      <4> QED
        BY <4>3
    <3> QED
      BY <3>1, Zenon DEF UndoesOwn
  <2> QED
    BY <2>1, <2>2, <2>3 DEF WellFormedStart, ScanCommand_start, Attempt, Register, Events
<1>2. WellFormedStart(FullScanResultsCommand_start)
  <2> DEFINE P == FullScanResultsCommand_start
  <2>1. P \in Seq(Steps)
    BY DEF FullScanResultsCommand_start, Attempt, Register, Steps, Events, NoEvent
  <2>2. DOMAIN P = 1..3
    BY DEF FullScanResultsCommand_start
  <2> QED
    BY <2>1, <2>2 DEF WellFormedStart, UndoesOwn, FullScanResultsCommand_start,
       Attempt, Register, Events
<1>3. WellFormedStart(BssidHotlistCommand_start)
  <2> DEFINE P == BssidHotlistCommand_start
  <2>1. P \in Seq(Steps)
    BY DEF BssidHotlistCommand_start, Attempt, Register, Steps, Events, NoEvent
  <2>2. DOMAIN P = 1..6
    BY DEF BssidHotlistCommand_start
  <2>3. UndoesOwn(P)
    <3>1. ASSUME NEW i \in DOMAIN P, P[i].op = "attempt", NEW u \in DOMAIN P[i].undo
          PROVE  \E j \in DOMAIN P : P[j].op = "register" /\ P[j].ev = P[i].undo[u]
      <4>1. (i = 2 \/ i = 6) /\ u \in 1..2
        BY <2>2, <3>1 DEF BssidHotlistCommand_start, Attempt, Register
      <4> DEFINE j == u + 3
      <4>2. j \in DOMAIN P /\ P[j].op = "register" /\ P[j].ev = P[i].undo[u]
        BY <2>2, <4>1 DEF BssidHotlistCommand_start, Attempt, Register
      <4> QED
        BY <4>2
    <3> QED
      BY <3>1, Zenon DEF UndoesOwn
  <2> QED
    BY <2>1, <2>2, <2>3 DEF WellFormedStart, BssidHotlistCommand_start, Attempt, Register, Events
<1>4. WellFormedStart(SignificantWifiChangeCommand_start)
  <2> DEFINE P == SignificantWifiChangeCommand_start
  <2>1. P \in Seq(Steps)
    BY DEF SignificantWifiChangeCommand_start, Attempt, Register, Steps, Events, NoEvent
  <2>2. DOMAIN P = 1..3
    BY DEF SignificantWifiChangeCommand_start
  <2> QED
    BY <2>1, <2>2 DEF WellFormedStart, UndoesOwn, SignificantWifiChangeCommand_start,
       Attempt, Register, Events
<1>5. WellFormedStart(ePNOCommand_start)
  <2> DEFINE P == ePNOCommand_start
  <2>1. P \in Seq(Steps)
    BY DEF ePNOCommand_start, Attempt, Register, Steps, Events, NoEvent
  <2>2. DOMAIN P = 1..3
    BY DEF ePNOCommand_start
  <2> QED
    BY <2>1, <2>2 DEF WellFormedStart, UndoesOwn, ePNOCommand_start,
       Attempt, Register, Events
<1>6. WellFormedStart(AnqpoConfigureCommand_start)
  <2> DEFINE P == AnqpoConfigureCommand_start
  <2>1. P \in Seq(Steps)
    BY DEF AnqpoConfigureCommand_start, Attempt, Register, Steps, Events, NoEvent
  <2>2. DOMAIN P = 1..3
    BY DEF AnqpoConfigureCommand_start
  <2> QED
    BY <2>1, <2>2 DEF WellFormedStart, UndoesOwn, AnqpoConfigureCommand_start,
       Attempt, Register, Events
<1>7. WellFormedStart(SetRSSIMonitorCommand_start)
  <2> DEFINE P == SetRSSIMonitorCommand_start
  <2>1. P \in Seq(Steps)
    BY DEF SetRSSIMonitorCommand_start, Attempt, Register, Steps, Events, NoEvent
  <2>2. DOMAIN P = 1..2
    BY DEF SetRSSIMonitorCommand_start
  <2> QED
    BY <2>1, <2>2 DEF WellFormedStart, UndoesOwn, SetRSSIMonitorCommand_start,
       Attempt, Register, Events
<1>8. WellFormedStart(RttCommand_start)
  <2> DEFINE P == RttCommand_start
  <2>1. P \in Seq(Steps)
    BY DEF RttCommand_start, Attempt, Register, Steps, Events, NoEvent
  <2>2. DOMAIN P = 1..2
    BY DEF RttCommand_start
  <2> QED
    BY <2>1, <2>2 DEF WellFormedStart, UndoesOwn, RttCommand_start,
       Attempt, Register, Events
<1>9. WellFormedStart(BssidBlacklistCommand_start)
  <2> DEFINE P == BssidBlacklistCommand_start
  <2>1. P \in Seq(Steps)
    BY DEF BssidBlacklistCommand_start, Attempt, Register, Steps, Events, NoEvent
  <2>2. DOMAIN P = 1..1
    BY DEF BssidBlacklistCommand_start
  <2> QED
    BY <2>1, <2>2 DEF WellFormedStart, UndoesOwn, BssidBlacklistCommand_start,
       Attempt, Register, Events
<1> QED
  BY <1>1, <1>2, <1>3, <1>4, <1>5, <1>6, <1>7, <1>8, <1>9 DEF StartProgram, Kinds

\* cancel() of every class that has one takes back what start() registered.
LEMMA CancelIsWellFormed ==
    ASSUME NEW k \in Kinds
    PROVE  WellFormedCancel(StartProgram(k), CancelProgram(k))
<1>1. WellFormedCancel(ScanCommand_start, ScanCommand_cancel)
  <2> DEFINE P == ScanCommand_start
           Q == ScanCommand_cancel
  <2>1. Q \in Seq(Steps)
    BY DEF ScanCommand_cancel, TryRequest, Attempt, Unregister, Steps, Events, NoEvent
  <2>2. DOMAIN P = 1..5 /\ DOMAIN Q = 1..4
    BY DEF ScanCommand_start, ScanCommand_cancel
  <2> QED
    BY <2>1, <2>2
    DEF WellFormedCancel, ScanCommand_start, ScanCommand_cancel, TryRequest,
        Attempt, Register, Unregister
<1>2. WellFormedCancel(FullScanResultsCommand_start, FullScanResultsCommand_cancel)
  <2> DEFINE P == FullScanResultsCommand_start
           Q == FullScanResultsCommand_cancel
  <2>1. Q \in Seq(Steps)
    BY DEF FullScanResultsCommand_cancel, TryRequest, Attempt, Unregister, Steps, Events, NoEvent
  <2>2. DOMAIN P = 1..3 /\ DOMAIN Q = 1..2
    BY DEF FullScanResultsCommand_start, FullScanResultsCommand_cancel
  <2> QED
    BY <2>1, <2>2
    DEF WellFormedCancel, FullScanResultsCommand_start, FullScanResultsCommand_cancel, TryRequest,
        Attempt, Register, Unregister
<1>3. WellFormedCancel(BssidHotlistCommand_start, BssidHotlistCommand_cancel)
  <2> DEFINE P == BssidHotlistCommand_start
           Q == BssidHotlistCommand_cancel
  <2>1. Q \in Seq(Steps)
    BY DEF BssidHotlistCommand_cancel, TryRequest, Attempt, Unregister, Steps, Events, NoEvent
  <2>2. DOMAIN P = 1..6 /\ DOMAIN Q = 1..3
    BY DEF BssidHotlistCommand_start, BssidHotlistCommand_cancel
  <2> QED
    BY <2>1, <2>2
    DEF WellFormedCancel, BssidHotlistCommand_start, BssidHotlistCommand_cancel, TryRequest,
        Attempt, Register, Unregister
<1>4. WellFormedCancel(SignificantWifiChangeCommand_start, SignificantWifiChangeCommand_cancel)
  <2> DEFINE P == SignificantWifiChangeCommand_start
           Q == SignificantWifiChangeCommand_cancel
  <2>1. Q \in Seq(Steps)
    BY DEF SignificantWifiChangeCommand_cancel, TryRequest, Attempt, Unregister, Steps, Events, NoEvent
  <2>2. DOMAIN P = 1..3 /\ DOMAIN Q = 1..2
    BY DEF SignificantWifiChangeCommand_start, SignificantWifiChangeCommand_cancel
  <2> QED
    BY <2>1, <2>2
    DEF WellFormedCancel, SignificantWifiChangeCommand_start, SignificantWifiChangeCommand_cancel, TryRequest,
        Attempt, Register, Unregister
<1>5. WellFormedCancel(ePNOCommand_start, ePNOCommand_cancel)
  <2> DEFINE P == ePNOCommand_start
           Q == ePNOCommand_cancel
  <2>1. Q \in Seq(Steps)
    BY DEF ePNOCommand_cancel, TryRequest, Attempt, Unregister, Steps, Events, NoEvent
  <2>2. DOMAIN P = 1..3 /\ DOMAIN Q = 1..2
    BY DEF ePNOCommand_start, ePNOCommand_cancel
  <2> QED
    BY <2>1, <2>2
    DEF WellFormedCancel, ePNOCommand_start, ePNOCommand_cancel, TryRequest,
        Attempt, Register, Unregister
<1>6. WellFormedCancel(AnqpoConfigureCommand_start, AnqpoConfigureCommand_cancel)
  <2> DEFINE P == AnqpoConfigureCommand_start
           Q == AnqpoConfigureCommand_cancel
  <2>1. Q \in Seq(Steps)
    BY DEF AnqpoConfigureCommand_cancel, TryRequest, Attempt, Unregister, Steps, Events, NoEvent
  <2>2. DOMAIN P = 1..3 /\ DOMAIN Q = 1..2
    BY DEF AnqpoConfigureCommand_start, AnqpoConfigureCommand_cancel
  <2> QED
    BY <2>1, <2>2
    DEF WellFormedCancel, AnqpoConfigureCommand_start, AnqpoConfigureCommand_cancel, TryRequest,
        Attempt, Register, Unregister
<1>7. WellFormedCancel(SetRSSIMonitorCommand_start, SetRSSIMonitorCommand_cancel)
  <2> DEFINE P == SetRSSIMonitorCommand_start
           Q == SetRSSIMonitorCommand_cancel
  <2>1. Q \in Seq(Steps)
    BY DEF SetRSSIMonitorCommand_cancel, TryRequest, Attempt, Unregister, Steps, Events, NoEvent
  <2>2. DOMAIN P = 1..2 /\ DOMAIN Q = 1..2
    BY DEF SetRSSIMonitorCommand_start, SetRSSIMonitorCommand_cancel
  <2> QED
    BY <2>1, <2>2
    DEF WellFormedCancel, SetRSSIMonitorCommand_start, SetRSSIMonitorCommand_cancel, TryRequest,
        Attempt, Register, Unregister
<1>8. WellFormedCancel(RttCommand_start, RttCommand_cancel)
  <2> DEFINE P == RttCommand_start
           Q == RttCommand_cancel
  <2>1. Q \in Seq(Steps)
    BY DEF RttCommand_cancel, TryRequest, Attempt, Unregister, Steps, Events, NoEvent
  <2>2. DOMAIN P = 1..2 /\ DOMAIN Q = 1..2
    BY DEF RttCommand_start, RttCommand_cancel
  <2> QED
    BY <2>1, <2>2
    DEF WellFormedCancel, RttCommand_start, RttCommand_cancel, TryRequest,
        Attempt, Register, Unregister
<1>9. WellFormedCancel(BssidBlacklistCommand_start, << >>)
  BY DEF WellFormedCancel, BssidBlacklistCommand_start, Attempt
<1> QED
  BY <1>1, <1>2, <1>3, <1>4, <1>5, <1>6, <1>7, <1>8, <1>9 DEF StartProgram, CancelProgram, Kinds

-----------------------------------------------------------------------------
(***************************************************************************)
(* How the sets of registered and of still to be unregistered events       *)
(* change as a program advances.                                           *)
(***************************************************************************)

LEMMA RegisteredBeforeFirst ==
    ASSUME NEW P, NEW S, P \in Seq(S)
    PROVE  RegisteredBefore(P, 1) = {}
BY DEF RegisteredBefore

LEMMA RegisteredBeforeNext ==
    ASSUME NEW P, NEW S, P \in Seq(S), NEW n \in DOMAIN P
    PROVE  /\ RegisteredBefore(P, n) \subseteq RegisteredBefore(P, n + 1)
           /\ P[n].op = "register" => P[n].ev \in RegisteredBefore(P, n + 1)
<1>1. \A j \in DOMAIN P : j < n + 1 <=> j < n \/ j = n
  OBVIOUS
<1> QED
  BY <1>1, Zenon DEF RegisteredBefore

LEMMA UnregisteredFromNext ==
    ASSUME NEW P, NEW S, P \in Seq(S), NEW n \in DOMAIN P,
           NEW e \in UnregisteredFrom(P, n),
           P[n].op = "unregister" => P[n].ev # e
    PROVE  e \in UnregisteredFrom(P, n + 1)
<1>1. PICK j \in DOMAIN P : j >= n /\ P[j].op = "unregister" /\ e = P[j].ev
  BY Zenon DEF UnregisteredFrom
<1>2. j # n
  BY <1>1
<1>3. j >= n + 1
  BY <1>1, <1>2
<1> QED
  BY <1>1, <1>3, Zenon DEF UnregisteredFrom

LEMMA UnregisteredFromEnd ==
    ASSUME NEW P, NEW S, P \in Seq(S), NEW n \in Nat, n > Len(P)
    PROVE  UnregisteredFrom(P, n) = {}
BY DEF UnregisteredFrom

\* What start() of class k registers at one of its steps.
LEMMA StartRegisters ==
    ASSUME NEW k \in Kinds, NEW P, P = StartProgram(k), NEW n \in DOMAIN P,
           P[n].op = "register"
    PROVE  /\ P[n].ev \in Events
           /\ P[n].ev \in Subscriptions(k)
           /\ P[n].ev \notin RegisteredBefore(P, n)
<1>1. WellFormedStart(P)
  BY StartIsWellFormed
<1>2. P[n].ev \in Subscriptions(k)
  BY Zenon DEF Subscriptions
<1>3. P[n].ev \notin RegisteredBefore(P, n)
  <2> SUFFICES ASSUME NEW j \in DOMAIN P, j < n, P[j].op = "register", P[j].ev = P[n].ev
               PROVE  FALSE
    BY Zenon DEF RegisteredBefore
  <2>1. j = n
    BY <1>1 DEF WellFormedStart
  <2>2. n \in Nat
    BY <1>1 DEF WellFormedStart
  <2> QED
    BY <2>1, <2>2
<1> QED
  BY <1>1, <1>2, <1>3 DEF WellFormedStart

\* The error path of an attempt of start() takes back all that was registered.
LEMMA UndoCovers ==
    ASSUME NEW k \in Kinds, NEW P, P = StartProgram(k), NEW n \in DOMAIN P,
           P[n].op = "attempt",
           NEW U, U = UndoProgram(P[n].undo)
    PROVE  /\ U \in Seq(Steps)
           /\ \A i \in DOMAIN U : U[i].op = "unregister"
           /\ RegisteredBefore(P, n) \subseteq UnregisteredFrom(U, 1)
           /\ \A i \in DOMAIN U : U[i].ev \in Subscriptions(k)
<1>1. WellFormedStart(P)
  BY StartIsWellFormed
<1> DEFINE undo == P[n].undo
<1>2. undo \in Seq(Events)
  <2>1. P[n] \in Steps
    BY <1>1 DEF WellFormedStart
  <2> QED
    BY <2>1 DEF Steps
<1> HIDE DEF undo
<1>3. U = [i \in 1..Len(undo) |-> Unregister(undo[i])]
  BY <1>2 DEF UndoProgram, undo
<1>4. \A i \in 1..Len(undo) : Unregister(undo[i]) \in Steps
  BY <1>2 DEF Unregister, Steps
<1>5. U \in Seq(Steps) /\ Len(U) = Len(undo) /\ DOMAIN U = 1..Len(undo)
  BY <1>2, <1>3, <1>4
<1>6. \A i \in DOMAIN U : U[i].op = "unregister" /\ U[i].ev = undo[i]
  BY <1>3, <1>5 DEF Unregister
<1>7. RegisteredBefore(P, n) \subseteq UnregisteredFrom(U, 1)
  <2> SUFFICES ASSUME NEW j \in DOMAIN P, j < n, P[j].op = "register"
               PROVE  P[j].ev \in UnregisteredFrom(U, 1)
    BY Zenon DEF RegisteredBefore
  <2>1. PICK u \in DOMAIN undo : undo[u] = P[j].ev
    BY <1>1 DEF WellFormedStart, undo
  <2>2. u \in DOMAIN U /\ u >= 1
    BY <1>2, <1>5
  <2>3. U[u].op = "unregister" /\ P[j].ev = U[u].ev
    BY <1>6, <2>1, <2>2
  <2> QED
    BY <2>2, <2>3, Zenon DEF UnregisteredFrom
<1>8. ASSUME NEW i \in DOMAIN U
      PROVE  U[i].ev \in Subscriptions(k)
  <2>1. i \in DOMAIN undo /\ U[i].ev = undo[i]
    BY <1>2, <1>5, <1>6
  <2>2. PICK j \in DOMAIN P : P[j].op = "register" /\ P[j].ev = undo[i]
    BY <1>1, <2>1 DEF WellFormedStart, UndoesOwn, undo
  <2> QED
    BY <2>1, <2>2, Zenon DEF Subscriptions
<1> QED
  BY <1>5, <1>6, <1>7, <1>8

\* cancel() of a class takes back all that its start() registers.
LEMMA CancelCovers ==
    ASSUME NEW k \in Kinds, NEW Q, Q = CancelProgram(k)
    PROVE  /\ Q \in Seq(Steps)
           /\ \A i \in DOMAIN Q : Q[i].op \in {"attempt", "unregister"}
           /\ Subscriptions(k) \subseteq UnregisteredFrom(Q, 1)
           /\ \A i \in DOMAIN Q : Q[i].op = "unregister" => Q[i].ev \in Subscriptions(k)
<1>1. WellFormedCancel(StartProgram(k), Q)
  BY CancelIsWellFormed
<1>2. Subscriptions(k) \subseteq UnregisteredFrom(Q, 1)
  <2> DEFINE P == StartProgram(k)
  <2> SUFFICES ASSUME NEW i \in DOMAIN P, P[i].op = "register"
               PROVE  P[i].ev \in UnregisteredFrom(Q, 1)
    BY Zenon DEF Subscriptions
  <2>1. PICK j \in DOMAIN Q : Q[j].op = "unregister" /\ Q[j].ev = P[i].ev
    BY <1>1 DEF WellFormedCancel
  <2>2. j >= 1
    BY <1>1 DEF WellFormedCancel
  <2> QED
    BY <2>1, <2>2, Zenon DEF UnregisteredFrom
<1>3. ASSUME NEW i \in DOMAIN Q, Q[i].op = "unregister"
      PROVE  Q[i].ev \in Subscriptions(k)
  <2> DEFINE P == StartProgram(k)
  <2>1. PICK j \in DOMAIN P : P[j].op = "register" /\ P[j].ev = Q[i].ev
    BY <1>1, <1>3 DEF WellFormedCancel
  <2> QED
    BY <2>1, Zenon DEF Subscriptions
<1> QED
  BY <1>1, <1>2, <1>3 DEF WellFormedCancel

\* An RTT command registers at its very last step, so no event reaches it
\* before its start() is through.
LEMMA RttRegistersLast ==
    ASSUME NEW P, P = StartProgram("RttCommand")
    PROVE  /\ Subscriptions("RttCommand") = {"RTT_COMPLETE"}
           /\ \A n \in Nat : RegisteredBefore(P, n) # {} => n > Len(P)
           /\ \A i \in DOMAIN P : P[i].op = "attempt" => UndoProgram(P[i].undo) = << >>
<1>1. P = << Attempt(<< >>), Register("RTT_COMPLETE") >>
  BY DEF StartProgram, RttCommand_start
<1>2. /\ Len(P) = 2 /\ DOMAIN P = 1..2
      /\ P[1].op = "attempt" /\ P[1].undo = << >>
      /\ P[2].op = "register" /\ P[2].ev = "RTT_COMPLETE"
  BY <1>1 DEF Attempt, Register
<1>3. Subscriptions("RttCommand") = {"RTT_COMPLETE"}
  BY <1>2 DEF Subscriptions
<1>4. ASSUME NEW n \in Nat, RegisteredBefore(P, n) # {}
      PROVE  n > Len(P)
  <2>1. PICK j \in DOMAIN P : j < n /\ P[j].op = "register"
    BY <1>4, Zenon DEF RegisteredBefore
  <2>2. j \in 1..2 /\ j # 1
    BY <1>2, <2>1
  <2>3. Len(P) = 2 /\ j < n
    BY <1>2, <2>1
  <2> QED
    BY <2>2, <2>3
<1>5. \A i \in DOMAIN P : P[i].op = "attempt" => UndoProgram(P[i].undo) = << >>
  BY <1>2 DEF UndoProgram
<1> QED
  BY <1>3, <1>4, <1>5

\* No class but RttCommand subscribes to RTT_COMPLETE.
LEMMA RttAlone ==
    ASSUME NEW k \in Kinds, k # "RttCommand"
    PROVE  "RTT_COMPLETE" \notin Subscriptions(k)
<1> SUFFICES ASSUME NEW i \in DOMAIN StartProgram(k),
                    StartProgram(k)[i].op = "register",
                    StartProgram(k)[i].ev = "RTT_COMPLETE"
             PROVE  FALSE
  BY Zenon DEF Subscriptions
<1>1. CASE k = "ScanCommand"
  BY <1>1 DEF StartProgram, ScanCommand_start, Attempt, Register
<1>2. CASE k = "FullScanResultsCommand"
  BY <1>2 DEF StartProgram, FullScanResultsCommand_start, Attempt, Register
<1>3. CASE k = "BssidHotlistCommand"
  BY <1>3 DEF StartProgram, BssidHotlistCommand_start, Attempt, Register
<1>4. CASE k = "SignificantWifiChangeCommand"
  BY <1>4 DEF StartProgram, SignificantWifiChangeCommand_start, Attempt, Register
<1>5. CASE k = "ePNOCommand"
  BY <1>5 DEF StartProgram, ePNOCommand_start, Attempt, Register
<1>6. CASE k = "AnqpoConfigureCommand"
  BY <1>6 DEF StartProgram, AnqpoConfigureCommand_start, Attempt, Register
<1>7. CASE k = "SetRSSIMonitorCommand"
  BY <1>7 DEF StartProgram, SetRSSIMonitorCommand_start, Attempt, Register
<1>8. CASE k = "BssidBlacklistCommand"
  BY <1>8 DEF StartProgram, BssidBlacklistCommand_start, Attempt
<1> QED
  BY <1>1, <1>2, <1>3, <1>4, <1>5, <1>6, <1>7, <1>8 DEF Kinds

\* One step of a program registers at most one event, and behind its last step
\* start() has registered everything its class subscribes to.
LEMMA RegisteredByStep ==
    ASSUME NEW P, NEW S, P \in Seq(S), NEW n \in DOMAIN P,
           NEW e \in RegisteredBefore(P, n + 1), e \notin RegisteredBefore(P, n)
    PROVE  P[n].op = "register" /\ e = P[n].ev
<1>1. PICK j \in DOMAIN P : j < n + 1 /\ P[j].op = "register" /\ e = P[j].ev
  BY Zenon DEF RegisteredBefore
<1>2. ~(j < n)
  BY <1>1, Zenon DEF RegisteredBefore
<1>3. j = n
  BY <1>1, <1>2
<1> QED
  BY <1>1, <1>3

LEMMA RegisteredAtEnd ==
    ASSUME NEW k \in Kinds, NEW P, P = StartProgram(k), NEW n \in Nat
    PROVE  /\ RegisteredBefore(P, n) \subseteq Subscriptions(k)
           /\ n > Len(P) => Subscriptions(k) = RegisteredBefore(P, n)
<1>1. P \in Seq(Steps)
  BY StartIsWellFormed DEF WellFormedStart
<1>2. RegisteredBefore(P, n) \subseteq Subscriptions(k)
  BY Zenon DEF RegisteredBefore, Subscriptions
<1>3. ASSUME n > Len(P)
      PROVE  Subscriptions(k) \subseteq RegisteredBefore(P, n)
  <2>1. \A j \in DOMAIN P : j < n
    BY <1>1, <1>3
  <2> QED
    BY <2>1, Zenon DEF RegisteredBefore, Subscriptions
<1> QED
  BY <1>2, <1>3

-----------------------------------------------------------------------------
(***************************************************************************)
(* Removing the first match of a sequence.                                 *)
(***************************************************************************)

\* A nonempty set of natural numbers contains its minimum.
LEMMA MinBelongs ==
    ASSUME NEW I, I \subseteq Nat, I # {}
    PROVE  Min(I) \in I
<1>1. PICK x \in I : \A y \in I : ~(<<y, x>> \in OpToRel(<, Nat))
  BY NatLessThanWellFounded, WFMin, Zenon
<1>2. \A y \in I : x <= y
  <2> TAKE y \in I
  <2>1. ~(y < x)
    BY <1>1 DEF OpToRel
  <2> QED
    BY <2>1
<1> QED
  BY <1>2 DEF Min

\* RemoveAt drops one position and shifts the later ones down.
LEMMA RemoveAtFacts ==
    ASSUME NEW S, NEW s \in Seq(S), NEW k \in 1..Len(s)
    PROVE  /\ RemoveAt(s, k) \in Seq(S)
           /\ Len(RemoveAt(s, k)) = Len(s) - 1
           /\ \A i \in 1..(Len(s) - 1) :
                 RemoveAt(s, k)[i] = IF i < k THEN s[i] ELSE s[i + 1]
<1> DEFINE a == SubSeq(s, 1, k - 1)
           b == SubSeq(s, k + 1, Len(s))
<1>1. /\ a \in Seq(S) /\ Len(a) = k - 1
      /\ \A i \in 1..(k - 1) : a[i] = s[i]
  <2>1. CASE k = 1
    BY <2>1, SubSeqEmpty
  <2>2. CASE k > 1
    BY <2>2, SubSeqProperties
  <2> QED BY <2>1, <2>2
<1>2. /\ b \in Seq(S) /\ Len(b) = Len(s) - k
      /\ \A i \in 1..(Len(s) - k) : b[i] = s[k + i]
  BY SubSeqProperties
<1>3. RemoveAt(s, k) = a \o b
  BY DEF RemoveAt
<1> HIDE DEF a, b
<1>4. /\ a \o b \in Seq(S)
      /\ Len(a \o b) = Len(s) - 1
      /\ \A i \in 1..(Len(s) - 1) :
            (a \o b)[i] = IF i <= k - 1 THEN a[i] ELSE b[i - (k - 1)]
  BY <1>1, <1>2, ConcatProperties
<1>5. ASSUME NEW i \in 1..(Len(s) - 1)
      PROVE  (a \o b)[i] = IF i < k THEN s[i] ELSE s[i + 1]
  <2>1. CASE i < k
    BY <1>1, <1>4, <2>1
  <2>2. CASE ~(i < k)
    <3>1. i - (k - 1) \in 1..(Len(s) - k) /\ k + (i - (k - 1)) = i + 1
      BY <2>2
    <3> QED
      BY <1>2, <1>4, <2>2, <3>1
  <2> QED
    BY <2>1, <2>2
<1> QED
  BY <1>3, <1>4, <1>5

\* Each position i of t is position from[i] of s: never k, different positions
\* from different ones, and only position k is lost.
Skips(t, s, k, from) ==
    /\ from \in [1..Len(t) -> 1..Len(s)]
    /\ \A i \in 1..Len(t) : t[i] = s[from[i]] /\ from[i] # k
    /\ \A i, j \in 1..Len(t) : from[i] = from[j] => i = j
    /\ \A j \in 1..Len(s) : j # k => \E i \in 1..Len(t) : from[i] = j

\* RemoveAt(s, k) has the other positions of s.
LEMMA RemoveAtKeeps ==
    ASSUME NEW S, NEW s \in Seq(S), NEW k \in 1..Len(s),
           NEW t, t = RemoveAt(s, k)
    PROVE  /\ t \in Seq(S)
           /\ Len(t) = Len(s) - 1
           /\ \E from : Skips(t, s, k, from)
<1>1. /\ t \in Seq(S)
      /\ Len(t) = Len(s) - 1
      /\ \A i \in 1..Len(t) : t[i] = IF i < k THEN s[i] ELSE s[i + 1]
  BY RemoveAtFacts
<1>2. Len(s) \in Nat
  OBVIOUS
<1> DEFINE from == [i \in 1..Len(t) |-> IF i < k THEN i ELSE i + 1]
<1>3. from \in [1..Len(t) -> 1..Len(s)]
  BY <1>1, <1>2
<1>4. \A i \in 1..Len(t) : t[i] = s[from[i]] /\ from[i] # k
  BY <1>1, <1>2
<1>5. \A i, j \in 1..Len(t) : from[i] = from[j] => i = j
  BY <1>1, <1>2
<1>6. ASSUME NEW j \in 1..Len(s), j # k
      PROVE  \E i \in 1..Len(t) : from[i] = j
  <2> DEFINE i == IF j < k THEN j ELSE j - 1
  <2>1. i \in 1..Len(t) /\ from[i] = j
    BY <1>1, <1>2, <1>6
  <2> QED
    BY <2>1
<1>7. Skips(t, s, k, from)
  BY <1>3, <1>4, <1>5, <1>6 DEF Skips
<1> QED
  BY <1>1, <1>7

-----------------------------------------------------------------------------
(***************************************************************************)
(* The operations on the handler list and the command table.               *)
(***************************************************************************)

LEMMA RegisterHandlerFacts ==
    ASSUME NEW cb \in Seq(Handlers), Len(cb) <= AllocEventCb,
           NEW e \in Events, NEW c \in Commands,
           NEW out, out = RegisterHandler(cb, e, c)
    PROVE  /\ out \in Seq(Handlers)
           /\ Len(out) <= AllocEventCb
           /\ \A i \in DOMAIN out :
                 \/ i \in DOMAIN cb /\ out[i] = cb[i]
                 \/ i = Len(cb) + 1 /\ out[i] = [ev |-> e, cmd |-> c]
<1>1. [ev |-> e, cmd |-> c] \in Handlers
  BY DEF Handlers
<1>2. AllocEventCb \in Nat
  BY ConstantsAssumption
<1>3. CASE Len(cb) < AllocEventCb
  BY <1>1, <1>2, <1>3 DEF RegisterHandler
<1>4. CASE ~(Len(cb) < AllocEventCb)
  BY <1>4 DEF RegisterHandler
<1> QED
  BY <1>3, <1>4

\* unregisterVendorHandler(e) invents no entry, and when e had one handler it
\* has none afterwards.
LEMMA UnregisterHandlerFacts ==
    ASSUME NEW cb \in Seq(Handlers), NEW e,
           NEW out, out = UnregisterHandler(cb, e)
    PROVE  /\ out \in Seq(Handlers)
           /\ Len(out) <= Len(cb)
           /\ \A i \in DOMAIN out : \E j \in DOMAIN cb : out[i] = cb[j]
           /\ (\A i, j \in DOMAIN cb : cb[i].ev = cb[j].ev => i = j) =>
                 /\ \A i, j \in DOMAIN out : out[i].ev = out[j].ev => i = j
                 /\ \A i \in DOMAIN out : out[i].ev # e
           /\ \A h : h.ev # e /\ Contains(cb, h) => Contains(out, h)
<1> DEFINE I == {i \in 1..Len(cb) : cb[i].ev = e}
<1>1. CASE I = {}
  <2>1. out = cb
    BY <1>1 DEF UnregisterHandler, RemoveFirstMatch, SelectInSeq
  <2> QED
    BY <1>1, <2>1
<1>2. CASE I # {}
  <2>1. out = RemoveAt(cb, Min(I))
    BY <1>2 DEF UnregisterHandler, RemoveFirstMatch, SelectInSeq
  <2>2. Min(I) \in I
    <3>1. I \subseteq Nat
      OBVIOUS
    <3> HIDE DEF I
    <3> QED
      BY <1>2, <3>1, MinBelongs
  <2>3. PICK k \in 1..Len(cb) : cb[k].ev = e /\ out = RemoveAt(cb, k)
    BY <2>1, <2>2
  <2> HIDE DEF I
  <2>4. /\ out \in Seq(Handlers)
        /\ Len(out) = Len(cb) - 1
        /\ \E from : Skips(out, cb, k, from)
    BY <2>3, RemoveAtKeeps
  <2>5. PICK from : Skips(out, cb, k, from)
    BY <2>4
  <2>6. DOMAIN out = 1..Len(out) /\ DOMAIN cb = 1..Len(cb) /\ Len(cb) \in Nat
    BY <2>4
  <2>7. ASSUME \A i, j \in DOMAIN cb : cb[i].ev = cb[j].ev => i = j
        PROVE  /\ \A i, j \in DOMAIN out : out[i].ev = out[j].ev => i = j
               /\ \A i \in DOMAIN out : out[i].ev # e
    <3>1. \A i \in DOMAIN out : from[i] \in DOMAIN cb /\ out[i] = cb[from[i]] /\ from[i] # k
      BY <2>5, <2>6 DEF Skips
    <3>2. ASSUME NEW i \in DOMAIN out, NEW j \in DOMAIN out, out[i].ev = out[j].ev
          PROVE  i = j
      <4>1. from[i] = from[j]
        BY <2>7, <3>1, <3>2
      <4> QED
        BY <2>5, <2>6, <4>1 DEF Skips
    <3>3. ASSUME NEW i \in DOMAIN out, out[i].ev = e
          PROVE  FALSE
      BY <2>3, <2>6, <2>7, <3>1, <3>3
    <3> QED
      BY <3>2, <3>3
  <2>8. ASSUME NEW h, h.ev # e, Contains(cb, h)
        PROVE  Contains(out, h)
    BY <2>3, <2>5, <2>8 DEF Contains, Skips
  <2> QED
    BY <2>4, <2>5, <2>6, <2>7, <2>8 DEF Skips
<1> QED
  BY <1>1, <1>2

LEMMA RegisterCmdFacts ==
    ASSUME NEW table \in Seq(Commands), Len(table) <= AllocCmd, NEW c \in Commands,
           NEW out, out = RegisterCmd(table, c)
    PROVE  /\ out \in Seq(Commands)
           /\ Len(out) <= AllocCmd
           /\ \A i \in DOMAIN out :
                 \/ i \in DOMAIN table /\ out[i] = table[i]
                 \/ i = Len(table) + 1 /\ out[i] = c
<1>1. AllocCmd \in Nat
  BY ConstantsAssumption
<1>2. CASE Len(table) < AllocCmd
  BY <1>1, <1>2 DEF RegisterCmd
<1>3. CASE ~(Len(table) < AllocCmd)
  BY <1>3 DEF RegisterCmd
<1> QED
  BY <1>2, <1>3

\* wifi_unregister_cmd takes away one entry of the command and no other.
LEMMA UnregisterCmdFacts ==
    ASSUME NEW table \in Seq(Commands), NEW c,
           NEW out, out = UnregisterCmd(table, c)
    PROVE  /\ out \in Seq(Commands)
           /\ Len(out) <= Len(table)
           /\ \A i \in DOMAIN out : \E j \in DOMAIN table : out[i] = table[j]
           /\ (\A i, j \in DOMAIN table : table[i] = table[j] => i = j) =>
                 /\ \A i, j \in DOMAIN out : out[i] = out[j] => i = j
                 /\ \A i \in DOMAIN out : out[i] # c
           /\ \A d : d # c /\ Contains(table, d) => Contains(out, d)
<1> DEFINE I == {i \in 1..Len(table) : table[i] = c}
<1>1. CASE I = {}
  <2>1. out = table
    BY <1>1 DEF UnregisterCmd, RemoveFirst, SelectInSeq
  <2> QED
    BY <1>1, <2>1
<1>2. CASE I # {}
  <2>1. out = RemoveAt(table, Min(I))
    BY <1>2 DEF UnregisterCmd, RemoveFirst, SelectInSeq
  <2>2. Min(I) \in I
    <3>1. I \subseteq Nat
      OBVIOUS
    <3> HIDE DEF I
    <3> QED
      BY <1>2, <3>1, MinBelongs
  <2>3. PICK k \in 1..Len(table) : table[k] = c /\ out = RemoveAt(table, k)
    BY <2>1, <2>2
  <2> HIDE DEF I
  <2>4. /\ out \in Seq(Commands)
        /\ Len(out) = Len(table) - 1
        /\ \E from : Skips(out, table, k, from)
    BY <2>3, RemoveAtKeeps
  <2>5. PICK from : Skips(out, table, k, from)
    BY <2>4
  <2>6. DOMAIN out = 1..Len(out) /\ DOMAIN table = 1..Len(table) /\ Len(table) \in Nat
    BY <2>4
  <2>7. ASSUME \A i, j \in DOMAIN table : table[i] = table[j] => i = j
        PROVE  /\ \A i, j \in DOMAIN out : out[i] = out[j] => i = j
               /\ \A i \in DOMAIN out : out[i] # c
    BY <2>3, <2>5, <2>6, <2>7 DEF Skips
  <2>8. ASSUME NEW d, d # c, Contains(table, d)
        PROVE  Contains(out, d)
    BY <2>3, <2>5, <2>8 DEF Contains, Skips
  <2> QED
    BY <2>4, <2>5, <2>6, <2>7, <2>8 DEF Skips
<1> QED
  BY <1>1, <1>2

\* The handler an event is dispatched to is the command of an entry for it.
LEMMA FirstHandlerFacts ==
    ASSUME NEW e, event_cb \in Seq(Handlers), FirstHandler(e) # NoCommand
    PROVE  \E i \in DOMAIN event_cb :
              event_cb[i].ev = e /\ FirstHandler(e) = event_cb[i].cmd
<1> DEFINE I == {i \in 1..Len(event_cb) : event_cb[i].ev = e}
<1>1. I # {}
  BY DEF FirstHandler, SelectInSeq
<1>2. I \subseteq Nat
  OBVIOUS
<1>3. Min(I) \in I
  <2> HIDE DEF I
  <2> QED
    BY <1>1, <1>2, MinBelongs
<1>4. FirstHandler(e) = event_cb[Min(I)].cmd
  BY <1>1, <1>3 DEF FirstHandler, SelectInSeq
<1>5. DOMAIN event_cb = 1..Len(event_cb)
  OBVIOUS
<1> DEFINE k == Min(I)
<1>6. k \in 1..Len(event_cb) /\ event_cb[k].ev = e
  BY <1>3
<1> QED
  <2> HIDE DEF k, I
  <2>1. FirstHandler(e) = event_cb[k].cmd
    BY <1>4 DEF k
  <2> QED
    BY <1>5, <1>6, <2>1

-----------------------------------------------------------------------------
(***************************************************************************)
(* The inductive invariant.                                                *)
(***************************************************************************)

LEMMA InitInv == Init => IInv
<1> SUFFICES ASSUME Init PROVE IInv
  OBVIOUS
<1>1. TypeOK
  <2>1. Idle \in ApiStates /\ Waiting \in LoopStates
    BY DEF Idle, Waiting, ApiStates, LoopStates
  <2> QED
    BY <2>1, ConstantsAssumption DEF Init, TypeOK, Phases
<1>2. HandlersInv /\ TableInv
  BY DEF Init, HandlersInv, TableInv
<1>3. PhaseInv /\ RefsInv
  BY DEF Init, PhaseInv, RefsInv, Active, NoKind, Kinds
<1>4. ApiInv /\ LoopInv
  BY ConstantsAssumption DEF Init, ApiInv, LoopInv, Idle, Waiting
<1> QED
  BY <1>1, <1>2, <1>3, <1>4 DEF IInv

\* The commands that the list, the table and the event thread refer to.
LEMMA Members ==
    ASSUME TypeOK
    PROVE  /\ \A i \in DOMAIN event_cb :
                 event_cb[i].ev \in Events /\ event_cb[i].cmd \in Commands
           /\ \A i \in DOMAIN cmd : cmd[i] \in Commands
           /\ loop.cmd # NoCommand => loop.cmd \in Commands
<1>1. ASSUME NEW i \in DOMAIN event_cb
      PROVE  event_cb[i].ev \in Events /\ event_cb[i].cmd \in Commands
  <2>1. event_cb[i] \in Handlers
    BY DEF TypeOK
  <2> QED
    BY <2>1 DEF Handlers
<1>2. \A i \in DOMAIN cmd : cmd[i] \in Commands
  BY DEF TypeOK
<1>3. loop.cmd # NoCommand => loop.cmd \in Commands
  BY DEF TypeOK, LoopStates
<1> QED
  BY <1>1, <1>2, <1>3

\* What a step of a program does to the thread that runs it.
LEMMA AdvanceFacts ==
    ASSUME TypeOK, Running, Advance
    PROVE  /\ api' \in ApiStates
           /\ api'.mode = api.mode /\ api'.cmd = api.cmd /\ api'.kind = api.kind
           /\ api'.prog = api.prog /\ api'.pc = api.pc + 1
           /\ api.prog \in Seq(Steps) /\ api.pc \in DOMAIN api.prog
           /\ api.mode # "idle"
<1>1. api \in ApiStates
  BY DEF TypeOK
<1>2. api.prog \in Seq(Steps) /\ api.pc \in Nat \ {0}
  BY <1>1 DEF ApiStates
<1>3. api' = [api EXCEPT !.pc = api.pc + 1]
  BY DEF Advance
<1>4. api' \in ApiStates
  BY <1>1, <1>2, <1>3 DEF ApiStates
<1>5. api.pc \in DOMAIN api.prog /\ api.mode # "idle"
  BY <1>2 DEF Running
<1> QED
  BY <1>1, <1>2, <1>3, <1>4, <1>5 DEF ApiStates

LEMMA AttemptSucceedsInv == IInv /\ AttemptSucceeds => IInv'
<1> SUFFICES ASSUME IInv, AttemptSucceeds PROVE IInv'
  OBVIOUS
<1>1. TypeOK /\ Running /\ Advance /\ Step.op = "attempt"
      /\ UNCHANGED <<event_cb, cmd, mRefs, kind, phase, loop>>
  BY DEF IInv, AttemptSucceeds
<1>2. /\ api' \in ApiStates
      /\ api'.mode = api.mode /\ api'.cmd = api.cmd /\ api'.kind = api.kind
      /\ api'.prog = api.prog /\ api'.pc = api.pc + 1
      /\ api.prog \in Seq(Steps) /\ api.pc \in DOMAIN api.prog
      /\ api.mode # "idle"
  BY <1>1, AdvanceFacts
<1>3. TypeOK'
  BY <1>1, <1>2 DEF TypeOK
<1>4. HandlersInv' /\ TableInv' /\ RefsInv'
  BY <1>1, <1>2 DEF IInv, HandlersInv, TableInv, RefsInv, InFlight
<1>5. PhaseInv'
  BY <1>1, <1>2 DEF IInv, PhaseInv
<1>6. ApiInv'
  <2>1. RegisteredBefore(api.prog, api.pc) \subseteq RegisteredBefore(api.prog, api.pc + 1)
    BY <1>2, RegisteredBeforeNext
  <2>2. UnregisteredFrom(api.prog, api.pc) \subseteq UnregisteredFrom(api.prog, api.pc + 1)
    BY <1>1, <1>2, UnregisteredFromNext DEF Step
  <2> QED
    BY <1>1, <1>2, <2>1, <2>2 DEF IInv, ApiInv
<1>7. LoopInv'
  BY <1>1, <1>2 DEF IInv, LoopInv
<1> QED
  BY <1>3, <1>4, <1>5, <1>6, <1>7 DEF IInv

\* Only start() registers, and nobody is registered for the event yet.
LEMMA RegisterStepFacts ==
    ASSUME IInv, RegisterStep, NEW c, c = api.cmd, NEW e, e = Step.ev
    PROVE  /\ api.mode = "start"
           /\ c \in Commands /\ api.kind = kind[c] /\ api.kind \in Kinds
           /\ api.prog = StartProgram(api.kind)
           /\ phase[c] = "starting"
           /\ e \in Events /\ e \in Subscriptions(kind[c])
           /\ \A i \in DOMAIN event_cb : event_cb[i].ev # e
<1>1. TypeOK /\ Running /\ Advance /\ Step.op = "register"
      /\ event_cb' = RegisterHandler(event_cb, e, c)
      /\ UNCHANGED <<cmd, mRefs, kind, phase, loop>>
  BY DEF IInv, RegisterStep
<1>2. /\ api' \in ApiStates
      /\ api'.mode = api.mode /\ api'.cmd = api.cmd /\ api'.kind = api.kind
      /\ api'.prog = api.prog /\ api'.pc = api.pc + 1
      /\ api.prog \in Seq(Steps) /\ api.pc \in DOMAIN api.prog
      /\ api.mode # "idle"
  BY <1>1, AdvanceFacts
<1>3. api.mode = "start"
  <2>1. api.mode # "fail"
    BY <1>1, <1>2 DEF IInv, ApiInv, Step
  <2>2. api.mode \notin {"cancel", "sweep"}
    <3> SUFFICES ASSUME api.mode \in {"cancel", "sweep"} PROVE FALSE
      OBVIOUS
    <3>1. api.kind \in Kinds /\ api.prog = CancelProgram(api.kind)
      BY DEF IInv, ApiInv, CancelledByProxy, Kinds
    <3> QED
      BY <1>1, <1>2, <3>1, CancelCovers DEF Step
  <2> QED
    BY <1>1, <1>2, <2>1, <2>2 DEF TypeOK, ApiStates
<1>4. /\ c \in Commands /\ api.kind = kind[c] /\ api.kind \in Kinds
      /\ api.prog = StartProgram(api.kind)
      /\ phase[c] = "starting"
  BY <1>1, <1>3 DEF IInv, ApiInv
<1>5. /\ e \in Events /\ e \in Subscriptions(kind[c])
      /\ e \notin RegisteredBefore(api.prog, api.pc)
  BY <1>1, <1>2, <1>4, StartRegisters DEF Step
<1>6. ASSUME NEW i \in DOMAIN event_cb
      PROVE  event_cb[i].ev # e
  <2>1. event_cb[i] \in Handlers
    BY <1>1 DEF TypeOK
  <2> DEFINE d == event_cb[i].cmd
  <2>2. d \in Commands /\ phase[d] \in Active /\ event_cb[i].ev \in Subscriptions(kind[d])
    BY <2>1, <1>6 DEF Handlers, IInv, HandlersInv
  <2>3. CASE d = c
    BY <1>3, <1>5, <1>6, <2>3 DEF IInv, ApiInv
  <2>4. CASE d # c
    <3>1. phase[c] \in Active
      BY <1>4 DEF Active
    <3>2. ~Conflict(kind[c], kind[d])
      BY <1>4, <2>2, <2>4, <3>1 DEF IInv, PhaseInv
    <3> QED
      BY <1>5, <2>2, <3>2 DEF Conflict
  <2> QED
    BY <2>3, <2>4
<1> QED
  BY <1>3, <1>4, <1>5, <1>6

LEMMA RegisterStepInv == IInv /\ RegisterStep => IInv'
<1> SUFFICES ASSUME IInv, RegisterStep PROVE IInv'
  OBVIOUS
<1> DEFINE e == Step.ev
           c == api.cmd
<1>1. TypeOK /\ Running /\ Advance /\ Step.op = "register"
      /\ event_cb' = RegisterHandler(event_cb, e, c)
      /\ UNCHANGED <<cmd, mRefs, kind, phase, loop>>
  BY DEF IInv, RegisterStep
<1>2. /\ api' \in ApiStates
      /\ api'.mode = api.mode /\ api'.cmd = api.cmd /\ api'.kind = api.kind
      /\ api'.prog = api.prog /\ api'.pc = api.pc + 1
      /\ api.prog \in Seq(Steps) /\ api.pc \in DOMAIN api.prog
      /\ api.mode # "idle"
  BY <1>1, AdvanceFacts
<1>3. api.mode = "start"
  BY RegisterStepFacts
<1>4. /\ c \in Commands /\ api.kind = kind[c] /\ api.kind \in Kinds
      /\ api.prog = StartProgram(api.kind)
      /\ phase[c] = "starting"
  BY RegisterStepFacts
<1>5. e \in Events /\ e \in Subscriptions(kind[c])
  BY RegisterStepFacts
<1>6. /\ event_cb' \in Seq(Handlers)
      /\ Len(event_cb') <= AllocEventCb
      /\ \A i \in DOMAIN event_cb' :
            \/ i \in DOMAIN event_cb /\ event_cb'[i] = event_cb[i]
            \/ i = Len(event_cb) + 1 /\ event_cb'[i] = [ev |-> e, cmd |-> c]
  <2> HIDE DEF e, c
  <2> QED
    BY <1>1, <1>4, <1>5, RegisterHandlerFacts DEF TypeOK
<1> HIDE DEF e
<1>7. \A i \in DOMAIN event_cb : event_cb[i].ev # e
  BY RegisterStepFacts DEF e
<1>8. TypeOK'
  BY <1>1, <1>2, <1>6 DEF TypeOK
<1>9. HandlersInv'
  <2>1. \A i, j \in DOMAIN event_cb' : event_cb'[i].ev = event_cb'[j].ev => i = j
    BY <1>6, <1>7 DEF IInv, HandlersInv
  <2>2. \A i \in DOMAIN event_cb' :
           /\ phase[event_cb'[i].cmd] \in Active
           /\ event_cb'[i].ev \in Subscriptions(kind[event_cb'[i].cmd])
    BY <1>4, <1>5, <1>6 DEF IInv, HandlersInv, Active
  <2> QED
    BY <1>1, <2>1, <2>2 DEF HandlersInv
<1>10. TableInv' /\ RefsInv'
  BY <1>1, <1>2 DEF IInv, TableInv, RefsInv, InFlight
<1>11. PhaseInv'
  BY <1>1, <1>2 DEF IInv, PhaseInv
<1>12. ApiInv'
  <2>1. /\ RegisteredBefore(api.prog, api.pc) \subseteq RegisteredBefore(api.prog, api.pc + 1)
        /\ e \in RegisteredBefore(api.prog, api.pc + 1)
    BY <1>1, <1>2, RegisteredBeforeNext DEF Step, e
  <2>2. \A i \in DOMAIN event_cb' : event_cb'[i].cmd = c
           => event_cb'[i].ev \in RegisteredBefore(api.prog, api.pc + 1)
    BY <1>3, <1>6, <2>1 DEF IInv, ApiInv
  <2> QED
    BY <1>1, <1>2, <1>3, <1>4, <2>2 DEF ApiInv
<1>13. LoopInv'
  BY <1>1, <1>2 DEF IInv, LoopInv
<1> QED
  BY <1>8, <1>9, <1>10, <1>11, <1>12, <1>13 DEF IInv

LEMMA UnregisterStepInv == IInv /\ UnregisterStep => IInv'
<1> SUFFICES ASSUME IInv, UnregisterStep PROVE IInv'
  OBVIOUS
<1> DEFINE e == Step.ev
<1>1. TypeOK /\ Running /\ Advance /\ Step.op = "unregister"
      /\ event_cb' = UnregisterHandler(event_cb, e)
      /\ UNCHANGED <<cmd, mRefs, kind, phase, loop>>
  BY DEF IInv, UnregisterStep
<1>2. /\ api' \in ApiStates
      /\ api'.mode = api.mode /\ api'.cmd = api.cmd /\ api'.kind = api.kind
      /\ api'.prog = api.prog /\ api'.pc = api.pc + 1
      /\ api.prog \in Seq(Steps) /\ api.pc \in DOMAIN api.prog
      /\ api.mode # "idle"
  BY <1>1, AdvanceFacts
<1>3. /\ event_cb' \in Seq(Handlers)
      /\ Len(event_cb') <= Len(event_cb)
      /\ \A i \in DOMAIN event_cb' : \E j \in DOMAIN event_cb : event_cb'[i] = event_cb[j]
      /\ \A i, j \in DOMAIN event_cb' : event_cb'[i].ev = event_cb'[j].ev => i = j
      /\ \A i \in DOMAIN event_cb' : event_cb'[i].ev # e
  <2>1. \A i, j \in DOMAIN event_cb : event_cb[i].ev = event_cb[j].ev => i = j
    BY DEF IInv, HandlersInv
  <2>2. event_cb \in Seq(Handlers)
    BY <1>1 DEF TypeOK
  <2>3. event_cb' = UnregisterHandler(event_cb, e)
    BY <1>1
  <2> HIDE DEF e
  <2> QED
    BY <2>1, <2>2, <2>3, UnregisterHandlerFacts
<1>4. TypeOK'
  BY <1>1, <1>2, <1>3, ConstantsAssumption DEF TypeOK
<1>5. HandlersInv'
  BY <1>1, <1>3 DEF IInv, HandlersInv
<1>6. TableInv' /\ RefsInv'
  BY <1>1, <1>2 DEF IInv, TableInv, RefsInv, InFlight
<1>7. PhaseInv'
  BY <1>1, <1>2 DEF IInv, PhaseInv
<1>8. ApiInv'
  <2>1. RegisteredBefore(api.prog, api.pc) \subseteq RegisteredBefore(api.prog, api.pc + 1)
    BY <1>2, RegisteredBeforeNext
  <2>2. \A x \in UnregisteredFrom(api.prog, api.pc) :
           x # e => x \in UnregisteredFrom(api.prog, api.pc + 1)
    BY <1>1, <1>2, UnregisteredFromNext DEF Step
  <2> HIDE DEF e
  <2> QED
    BY <1>1, <1>2, <1>3, <2>1, <2>2, SMTT(40) DEF IInv, ApiInv
<1>9. LoopInv'
  BY <1>1, <1>2 DEF IInv, LoopInv
<1> QED
  BY <1>4, <1>5, <1>6, <1>7, <1>8, <1>9 DEF IInv

LEMMA AttemptFailsInv == IInv /\ AttemptFails => IInv'
<1> SUFFICES ASSUME IInv, AttemptFails PROVE IInv'
  OBVIOUS
<1> DEFINE c == api.cmd
           U == UndoProgram(Step.undo)
<1>1. TypeOK /\ Running /\ Step.op = "attempt" /\ api.mode = "start"
      /\ api' = [api EXCEPT !.mode = "fail", !.prog = U, !.pc = 1]
      /\ UNCHANGED <<event_cb, cmd, mRefs, kind, phase, loop>>
  BY DEF IInv, AttemptFails
<1>2. api \in ApiStates /\ api.prog \in Seq(Steps) /\ api.pc \in DOMAIN api.prog
  BY <1>1 DEF TypeOK, ApiStates, Running
<1>3. /\ c \in Commands /\ api.kind = kind[c] /\ api.kind \in Kinds
      /\ api.prog = StartProgram(api.kind)
      /\ phase[c] = "starting"
      /\ \A i \in DOMAIN event_cb : event_cb[i].cmd = c
            => event_cb[i].ev \in RegisteredBefore(api.prog, api.pc)
  BY <1>1 DEF IInv, ApiInv
<1>4. /\ U \in Seq(Steps)
      /\ \A i \in DOMAIN U : U[i].op = "unregister"
      /\ RegisteredBefore(api.prog, api.pc) \subseteq UnregisteredFrom(U, 1)
  <2> DEFINE P == api.prog
             n == api.pc
             k == api.kind
  <2>1. /\ k \in Kinds /\ P = StartProgram(k) /\ n \in DOMAIN P
        /\ P[n].op = "attempt" /\ U = UndoProgram(P[n].undo)
    BY <1>1, <1>2, <1>3 DEF Step
  <2> HIDE DEF U, P, n, k
  <2>2. /\ U \in Seq(Steps)
        /\ \A i \in DOMAIN U : U[i].op = "unregister"
        /\ RegisteredBefore(P, n) \subseteq UnregisteredFrom(U, 1)
    BY <2>1, UndoCovers, ZenonT(30)
  <2> QED
    BY <2>2 DEF P, n
<1>5. api.kind = "RttCommand" => U = << >>
  BY <1>1, <1>2, <1>3, RttRegistersLast DEF Step
<1> HIDE DEF U
<1>6. /\ api' \in ApiStates
      /\ api'.mode = "fail" /\ api'.cmd = c /\ api'.kind = api.kind
      /\ api'.prog = U /\ api'.pc = 1
  <2>1. api' = [mode |-> "fail", cmd |-> api.cmd, kind |-> api.kind,
                prog |-> U, pc |-> 1]
    BY <1>1, <1>2 DEF ApiStates
  <2>2. /\ api.cmd \in Commands \cup {NoCommand}
        /\ api.kind \in Kinds \cup {NoKind}
    BY <1>2 DEF ApiStates
  <2> QED
    BY <1>4, <2>1, <2>2 DEF ApiStates
<1>7. TypeOK'
  BY <1>1, <1>6 DEF TypeOK
<1>8. HandlersInv' /\ TableInv' /\ RefsInv'
  BY <1>1 DEF IInv, HandlersInv, TableInv, RefsInv, InFlight
<1>9. PhaseInv'
  BY <1>1, <1>6 DEF IInv, PhaseInv
<1>10. ApiInv'
  BY <1>1, <1>3, <1>4, <1>5, <1>6 DEF ApiInv
<1>11. LoopInv'
  BY <1>1, <1>3, <1>6 DEF IInv, LoopInv, PhaseInv
<1> QED
  BY <1>7, <1>8, <1>9, <1>10, <1>11 DEF IInv

\* The idle thread is in no program.
LEMMA IdleFacts ==
    /\ Idle \in ApiStates
    /\ Idle.mode = "idle" /\ Idle.cmd = NoCommand /\ Idle.kind = NoKind
BY DEF Idle, ApiStates

LEMMA FinishStartInv == IInv /\ FinishStart => IInv'
<1> SUFFICES ASSUME IInv, FinishStart PROVE IInv'
  OBVIOUS
<1> DEFINE c == api.cmd
<1>1. /\ TypeOK /\ api.mode = "start" /\ api.pc > Len(api.prog) /\ api' = Idle
      /\ phase' = [phase EXCEPT ![c] = IF @ = "starting" THEN "started" ELSE @]
      /\ UNCHANGED <<event_cb, cmd, mRefs, kind, loop>>
  BY DEF IInv, FinishStart, Finished
<1>2. c \in Commands /\ kind[c] \in Kinds /\ phase[c] \in {"starting", "done"}
  BY <1>1 DEF IInv, ApiInv
<1> HIDE DEF c
<1>3. /\ phase' \in [Commands -> Phases]
      /\ phase'[c] = IF phase[c] = "starting" THEN "started" ELSE "done"
      /\ \A d \in Commands : d # c => phase'[d] = phase[d]
  BY <1>1, <1>2 DEF TypeOK, Phases
\* A command that is neither starting nor changed is where it was.
<1>4. \A d \in Commands : phase[d] \in Active <=> phase'[d] \in Active
  BY <1>2, <1>3 DEF Active
<1>5. TypeOK'
  BY <1>1, <1>3, IdleFacts DEF TypeOK
<1>6. HandlersInv'
  <2>1. \A i \in DOMAIN event_cb : event_cb[i].cmd \in Commands
    BY <1>1, Members
  <2> QED
    BY <1>1, <1>4, <2>1 DEF IInv, HandlersInv
<1>7. TableInv'
  <2>1. \A i \in DOMAIN cmd : cmd[i] \in Commands
    BY <1>1, Members
  <2> QED
    BY <1>1, <1>2, <1>3, <2>1, IdleFacts DEF IInv, TableInv
<1>8. RefsInv'
  BY <1>1, <1>2, <1>3, <1>4 DEF IInv, RefsInv, InFlight, Active
<1>9. PhaseInv'
  <2>1. \A d \in Commands : phase'[d] \notin {"starting", "stopping", "sweeping"}
    BY <1>1, <1>2, <1>3 DEF IInv, PhaseInv, c
  <2> QED
    BY <1>1, <1>2, <1>3, <1>4, <2>1 DEF IInv, PhaseInv
<1>10. ApiInv'
  BY <1>1, IdleFacts DEF ApiInv
<1>11. LoopInv'
  <2>1. loop.cmd # NoCommand => loop.cmd \in Commands
    BY <1>1, Members
  <2>2. CASE loop.cmd = c
    BY <1>1, <1>2, <1>3, <2>1, <2>2 DEF IInv, LoopInv
  <2>3. CASE loop.cmd # c
    <3>1. phase'[loop.cmd] = phase[loop.cmd] \/ loop.cmd = NoCommand
      BY <1>3, <2>1, <2>3
    <3>2. loop.cmd \in Commands => phase[loop.cmd] # "starting"
      BY <1>1, <2>3 DEF IInv, PhaseInv, c
    <3> QED
      BY <1>1, <2>1, <3>1, <3>2 DEF IInv, LoopInv
  <2> QED
    BY <2>2, <2>3
<1> QED
  BY <1>5, <1>6, <1>7, <1>8, <1>9, <1>10, <1>11 DEF IInv

LEMMA FinishFailedStartInv == IInv /\ FinishFailedStart => IInv'
<1> SUFFICES ASSUME IInv, FinishFailedStart PROVE IInv'
  OBVIOUS
<1> DEFINE c == api.cmd
<1>1. /\ TypeOK /\ api.mode = "fail" /\ api.pc > Len(api.prog) /\ api' = Idle
      /\ phase' = [phase EXCEPT ![c] = "failed"]
      /\ cmd' = IF api.kind \in UnlistedOnFailure THEN UnregisterCmd(cmd, c) ELSE cmd
      /\ UNCHANGED <<event_cb, mRefs, kind, loop>>
  BY DEF IInv, FinishFailedStart, Finished
<1>2. /\ c \in Commands /\ api.kind = kind[c] /\ kind[c] \in Kinds
      /\ phase[c] = "starting"
      /\ \A i \in DOMAIN event_cb : event_cb[i].cmd # c
  <2>1. UnregisteredFrom(api.prog, api.pc) = {}
    BY <1>1, UnregisteredFromEnd DEF TypeOK, ApiStates
  <2> QED
    BY <1>1, <2>1 DEF IInv, ApiInv
<1> HIDE DEF c
<1>3. /\ phase' \in [Commands -> Phases]
      /\ phase'[c] = "failed"
      /\ \A d \in Commands : d # c => phase'[d] = phase[d]
  BY <1>1, <1>2 DEF TypeOK, Phases
<1>4. /\ cmd' \in Seq(Commands)
      /\ Len(cmd') <= Len(cmd)
      /\ \A i \in DOMAIN cmd' : \E j \in DOMAIN cmd : cmd'[i] = cmd[j]
      /\ \A i, j \in DOMAIN cmd' : cmd'[i] = cmd'[j] => i = j
      /\ kind[c] \in UnlistedOnFailure => \A i \in DOMAIN cmd' : cmd'[i] # c
  <2>1. \A i, j \in DOMAIN cmd : cmd[i] = cmd[j] => i = j
    BY DEF IInv, TableInv
  <2>2. cmd \in Seq(Commands)
    BY <1>1 DEF TypeOK
  <2>3. CASE api.kind \in UnlistedOnFailure
    <3>1. cmd' = UnregisterCmd(cmd, c)
      BY <1>1, <2>3
    <3> QED
      BY <2>1, <2>2, <3>1, UnregisterCmdFacts
  <2>4. CASE api.kind \notin UnlistedOnFailure
    BY <1>1, <1>2, <2>1, <2>2, <2>4
  <2> QED
    BY <2>3, <2>4
<1>5. TypeOK'
  BY <1>1, <1>3, <1>4, IdleFacts, ConstantsAssumption DEF TypeOK
<1>6. HandlersInv'
  <2>1. \A i \in DOMAIN event_cb : event_cb[i].cmd \in Commands
    BY <1>1, Members
  <2> QED
    BY <1>1, <1>2, <1>3, <2>1 DEF IInv, HandlersInv
<1>7. TableInv'
  <2>1. \A i \in DOMAIN cmd : cmd[i] \in Commands
    BY <1>1, Members
  <2> QED
    BY <1>1, <1>2, <1>3, <1>4, <2>1, IdleFacts DEF IInv, TableInv
<1>8. RefsInv'
  BY <1>1, <1>2, <1>3 DEF IInv, RefsInv, InFlight, Active
<1>9. PhaseInv'
  <2>1. \A d \in Commands : phase'[d] \notin {"starting", "stopping", "sweeping"}
    BY <1>1, <1>2, <1>3 DEF IInv, PhaseInv, c
  <2> QED
    BY <1>1, <1>2, <1>3, <2>1 DEF IInv, PhaseInv, Active
<1>10. ApiInv'
  BY <1>1, IdleFacts DEF ApiInv
<1>11. LoopInv'
  <2>1. loop.cmd # NoCommand => loop.cmd \in Commands
    BY <1>1, Members
  <2> QED
    BY <1>1, <1>2, <1>3, <2>1 DEF IInv, LoopInv
<1> QED
  BY <1>5, <1>6, <1>7, <1>8, <1>9, <1>10, <1>11 DEF IInv

LEMMA FinishCancelInv == IInv /\ FinishCancel => IInv'
<1> SUFFICES ASSUME IInv, FinishCancel PROVE IInv'
  OBVIOUS
<1> DEFINE c == api.cmd
<1>1. /\ TypeOK /\ api.mode = "cancel" /\ api.pc > Len(api.prog) /\ api' = Idle
      /\ mRefs' = [mRefs EXCEPT ![c] = @ - 1]
      /\ phase' = [phase EXCEPT ![c] = "cancelled"]
      /\ UNCHANGED <<event_cb, cmd, kind, loop>>
  BY DEF IInv, FinishCancel, Finished
<1>2. /\ c \in Commands /\ kind[c] \in Kinds /\ kind[c] \in CancelledById
      /\ phase[c] \in {"stopping", "orphaned", "failed"}
      /\ \A i \in DOMAIN event_cb : event_cb[i].cmd # c
  <2>1. UnregisteredFrom(api.prog, api.pc) = {}
    BY <1>1, UnregisteredFromEnd DEF TypeOK, ApiStates
  <2> QED
    BY <1>1, <2>1 DEF IInv, ApiInv
<1> HIDE DEF c
<1>3. /\ phase' \in [Commands -> Phases]
      /\ phase'[c] = "cancelled"
      /\ \A d \in Commands : d # c => phase'[d] = phase[d]
  BY <1>1, <1>2 DEF TypeOK, Phases
<1>4. mRefs[c] = 1 + InFlight(c)
  BY <1>2 DEF IInv, RefsInv, Active
<1>5. /\ mRefs' \in [Commands -> Nat]
      /\ mRefs'[c] = InFlight(c)
      /\ \A d \in Commands : d # c => mRefs'[d] = mRefs[d]
  <2>1. InFlight(c) \in {0, 1}
    BY DEF InFlight
  <2> QED
    BY <1>1, <1>2, <1>4, <2>1 DEF TypeOK
<1>6. TypeOK'
  BY <1>1, <1>3, <1>5, IdleFacts DEF TypeOK
<1>7. HandlersInv'
  <2>1. \A i \in DOMAIN event_cb : event_cb[i].cmd \in Commands
    BY <1>1, Members
  <2> QED
    BY <1>1, <1>2, <1>3, <2>1 DEF IInv, HandlersInv
<1>8. TableInv'
  <2>1. \A i \in DOMAIN cmd : cmd[i] \in Commands
    BY <1>1, Members
  <2>2. \A i \in DOMAIN cmd : cmd[i] # c
    BY <1>1 DEF IInv, TableInv, c
  <2> QED
    BY <1>1, <1>3, <2>1, <2>2, IdleFacts DEF IInv, TableInv
<1>9. RefsInv'
  BY <1>1, <1>2, <1>3, <1>5 DEF IInv, RefsInv, InFlight, Active
<1>10. PhaseInv'
  <2>1. \A d \in Commands : phase'[d] \notin {"starting", "stopping", "sweeping"}
    BY <1>1, <1>2, <1>3 DEF IInv, PhaseInv, c
  <2> QED
    BY <1>1, <1>2, <1>3, <2>1 DEF IInv, PhaseInv, Active
<1>11. ApiInv'
  BY <1>1, IdleFacts DEF ApiInv
<1>12. LoopInv'
  <2>1. loop.cmd # NoCommand => loop.cmd \in Commands
    BY <1>1, Members
  <2>2. kind[c] # "RttCommand"
    BY <1>2 DEF CancelledById
  <2> QED
    BY <1>1, <1>2, <1>3, <2>1, <2>2 DEF IInv, LoopInv
<1> QED
  BY <1>6, <1>7, <1>8, <1>9, <1>10, <1>11, <1>12 DEF IInv

LEMMA FinishProxyInv == IInv /\ FinishProxy => IInv'
<1> SUFFICES ASSUME IInv, FinishProxy PROVE IInv'
  OBVIOUS
<1>1. /\ TypeOK /\ api.mode = "sweep" /\ api.pc > Len(api.prog) /\ api' = Idle
      /\ phase' = [c \in Commands |->
                      IF phase[c] = "sweeping" THEN "orphaned" ELSE phase[c]]
      /\ UNCHANGED <<event_cb, cmd, mRefs, kind, loop>>
  BY DEF IInv, FinishProxy, Finished
<1>2. \A i \in DOMAIN event_cb : phase[event_cb[i].cmd] # "sweeping"
  <2>1. UnregisteredFrom(api.prog, api.pc) = {}
    BY <1>1, UnregisteredFromEnd DEF TypeOK, ApiStates
  <2> QED
    BY <1>1, <2>1 DEF IInv, ApiInv
<1>3. /\ phase' \in [Commands -> Phases]
      /\ \A d \in Commands :
            phase'[d] = IF phase[d] = "sweeping" THEN "orphaned" ELSE phase[d]
  BY <1>1 DEF TypeOK, Phases
<1>4. TypeOK'
  BY <1>1, <1>3, IdleFacts DEF TypeOK
<1>5. HandlersInv'
  <2>1. \A i \in DOMAIN event_cb : event_cb[i].cmd \in Commands
    BY <1>1, Members
  <2> QED
    BY <1>1, <1>2, <1>3, <2>1 DEF IInv, HandlersInv
<1>6. TableInv'
  <2>1. \A i \in DOMAIN cmd : cmd[i] \in Commands
    BY <1>1, Members
  <2> QED
    BY <1>1, <1>3, <2>1, IdleFacts DEF IInv, TableInv
<1>7. RefsInv'
  BY <1>1, <1>3 DEF IInv, RefsInv, InFlight, Active
<1>8. PhaseInv'
  <2>1. \A d \in Commands : phase'[d] \notin {"starting", "stopping", "sweeping"}
    BY <1>1, <1>3 DEF IInv, PhaseInv
  <2> QED
    BY <1>1, <1>3, <2>1 DEF IInv, PhaseInv, Active
<1>9. ApiInv'
  BY <1>1, IdleFacts DEF ApiInv
<1>10. LoopInv'
  <2>1. loop.cmd # NoCommand => loop.cmd \in Commands
    BY <1>1, Members
  <2> QED
    BY <1>1, <1>3, <2>1 DEF IInv, LoopInv
<1> QED
  BY <1>4, <1>5, <1>6, <1>7, <1>8, <1>9, <1>10 DEF IInv

LEMMA StartInv ==
    ASSUME OneUserPerEvent, IInv, NEW c \in Commands, NEW k \in Kinds, Start(c, k)
    PROVE  IInv'
<1>1. /\ TypeOK /\ api.mode = "idle" /\ phase[c] = "unborn"
      /\ mRefs' = [mRefs EXCEPT ![c] = 1]
      /\ kind' = [kind EXCEPT ![c] = k]
      /\ phase' = [phase EXCEPT ![c] = "starting"]
      /\ cmd' = RegisterCmd(cmd, c)
      /\ api' = [mode |-> "start", cmd |-> c, kind |-> k,
                 prog |-> StartProgram(k), pc |-> 1]
      /\ UNCHANGED <<event_cb, loop>>
  BY DEF IInv, Start
<1>2. StartProgram(k) \in Seq(Steps)
  BY StartIsWellFormed DEF WellFormedStart
<1>3. /\ api' \in ApiStates
      /\ api'.mode = "start" /\ api'.cmd = c /\ api'.kind = k
      /\ api'.prog = StartProgram(k) /\ api'.pc = 1
  BY <1>1, <1>2 DEF ApiStates
<1>4. /\ phase' \in [Commands -> Phases] /\ phase'[c] = "starting"
      /\ kind' \in [Commands -> Kinds \cup {NoKind}] /\ kind'[c] = k
      /\ mRefs' \in [Commands -> Nat] /\ mRefs'[c] = 1
      /\ \A d \in Commands : d # c =>
            phase'[d] = phase[d] /\ kind'[d] = kind[d] /\ mRefs'[d] = mRefs[d]
  BY <1>1 DEF TypeOK, Phases
\* Nothing refers to c yet.
<1>5. /\ \A i \in DOMAIN event_cb : event_cb[i].cmd # c
      /\ \A i \in DOMAIN cmd : cmd[i] # c
      /\ loop.cmd # c
  <2>1. \A i \in DOMAIN event_cb : event_cb[i].cmd # c
    BY <1>1 DEF IInv, HandlersInv, Active
  <2>2. \A i \in DOMAIN cmd : cmd[i] # c
    BY <1>1 DEF IInv, TableInv
  <2>3. loop.cmd # c
    BY <1>1, ConstantsAssumption DEF IInv, LoopInv
  <2> QED
    BY <2>1, <2>2, <2>3
\* The caller is idle, so every other active command is started.
<1>6. \A d \in Commands : phase[d] \in Active => phase[d] = "started"
  BY <1>1 DEF IInv, PhaseInv, Active
<1>7. \A d \in Commands : phase[d] = "started" => ~Conflict(k, kind[d])
  BY DEF Start, MayStart
<1>8. /\ cmd' \in Seq(Commands)
      /\ Len(cmd') <= AllocCmd
      /\ \A i \in DOMAIN cmd' :
            \/ i \in DOMAIN cmd /\ cmd'[i] = cmd[i]
            \/ i = Len(cmd) + 1 /\ cmd'[i] = c
  <2>1. cmd \in Seq(Commands) /\ Len(cmd) <= AllocCmd /\ cmd' = RegisterCmd(cmd, c)
    BY <1>1 DEF TypeOK
  <2>2. cmd' \in Seq(Commands) /\ Len(cmd') <= AllocCmd
    BY <2>1, RegisterCmdFacts
  <2>3. ASSUME NEW i \in DOMAIN cmd'
        PROVE  \/ i \in DOMAIN cmd /\ cmd'[i] = cmd[i]
               \/ i = Len(cmd) + 1 /\ cmd'[i] = c
    <3>1. CASE Len(cmd) < AllocCmd
      BY <2>1, <3>1 DEF RegisterCmd
    <3>2. CASE ~(Len(cmd) < AllocCmd)
      BY <2>1, <3>2 DEF RegisterCmd
    <3> QED
      BY <3>1, <3>2
  <2> QED
    BY <2>2, <2>3
<1>9. TypeOK'
  BY <1>1, <1>3, <1>4, <1>8 DEF TypeOK
<1>10. HandlersInv'
  <2>1. \A i \in DOMAIN event_cb : event_cb[i].cmd \in Commands
    BY <1>1, Members
  <2> QED
    BY <1>1, <1>4, <1>5, <2>1 DEF IInv, HandlersInv
<1>11. TableInv'
  <2>1. \A i \in DOMAIN cmd : cmd[i] \in Commands
    BY <1>1, Members
  <2>2. \A i, j \in DOMAIN cmd' : cmd'[i] = cmd'[j] => i = j
    BY <1>5, <1>8 DEF IInv, TableInv
  <2> QED
    BY <1>1, <1>4, <1>5, <1>8, <2>1, <2>2 DEF IInv, TableInv
<1>12. RefsInv'
  BY <1>1, <1>4, <1>5 DEF IInv, RefsInv, InFlight, Active
<1>13. PhaseInv'
  <2>1. \A d \in Commands : phase'[d] # "unborn" <=> kind'[d] \in Kinds
    BY <1>4 DEF IInv, PhaseInv
  <2>2. ASSUME NEW d1 \in Commands, NEW d2 \in Commands,
               d1 # d2, phase'[d1] \in Active, phase'[d2] \in Active
        PROVE  ~Conflict(kind'[d1], kind'[d2])
    <3>1. CASE d1 = c
      BY <1>4, <1>6, <1>7, <2>2, <3>1
    <3>2. CASE d2 = c
      BY <1>4, <1>6, <1>7, <2>2, <3>2 DEF Conflict
    <3>3. CASE d1 # c /\ d2 # c
      BY <1>4, <2>2, <3>3 DEF IInv, PhaseInv
    <3> QED
      BY <3>1, <3>2, <3>3
  <2>3. \A d \in Commands : d # c => phase'[d] \notin {"starting", "stopping", "sweeping"}
    BY <1>1, <1>4 DEF IInv, PhaseInv
  <2> QED
    BY <1>3, <1>4, <2>1, <2>2, <2>3 DEF PhaseInv
<1>14. ApiInv'
  <2>1. \A i \in DOMAIN event_cb' : event_cb'[i].cmd # c
    BY <1>1, <1>5
  <2> QED
    BY <1>3, <1>4, <2>1 DEF ApiInv
<1>15. LoopInv'
  <2>1. loop.cmd # NoCommand => loop.cmd \in Commands
    BY <1>1, Members
  <2>2. loop.cmd \in Commands => phase[loop.cmd] # "starting"
    BY <1>1 DEF IInv, PhaseInv
  <2> QED
    BY <1>1, <1>4, <1>5, <2>1, <2>2 DEF IInv, LoopInv
<1> QED
  BY <1>9, <1>10, <1>11, <1>12, <1>13, <1>14, <1>15 DEF IInv

LEMMA CancelInv ==
    ASSUME IInv, NEW c \in Commands, Cancel(c)
    PROVE  IInv'
<1> DEFINE k == kind[c]
<1>1. /\ TypeOK /\ api.mode = "idle" /\ phase[c] \in {"started", "orphaned", "failed"}
      /\ k \in CancelledById /\ k \in Kinds /\ k # "RttCommand"
      /\ cmd' = UnregisterCmd(cmd, c)
      /\ phase' = [phase EXCEPT ![c] = IF @ = "started" THEN "stopping" ELSE @]
      /\ api' = [mode |-> "cancel", cmd |-> c, kind |-> k,
                 prog |-> CancelProgram(k), pc |-> 1]
      /\ UNCHANGED <<event_cb, mRefs, kind, loop>>
  BY DEF IInv, Cancel, CancelledById
<1> HIDE DEF k
<1>2. /\ CancelProgram(k) \in Seq(Steps)
      /\ Subscriptions(k) \subseteq UnregisteredFrom(CancelProgram(k), 1)
  BY <1>1, CancelCovers
<1>3. /\ api' \in ApiStates
      /\ api'.mode = "cancel" /\ api'.cmd = c /\ api'.kind = k
      /\ api'.prog = CancelProgram(k) /\ api'.pc = 1
  BY <1>1, <1>2 DEF ApiStates
<1>4. /\ phase' \in [Commands -> Phases] /\ phase'[c] = IF phase[c] = "started" THEN "stopping" ELSE phase[c]
      /\ \A d \in Commands : d # c => phase'[d] = phase[d]
      /\ \A d \in Commands : phase[d] \in Active <=> phase'[d] \in Active
  BY <1>1 DEF TypeOK, Phases, Active
<1>5. /\ cmd' \in Seq(Commands)
      /\ Len(cmd') <= Len(cmd)
      /\ \A i \in DOMAIN cmd' : \E j \in DOMAIN cmd : cmd'[i] = cmd[j]
      /\ \A i, j \in DOMAIN cmd' : cmd'[i] = cmd'[j] => i = j
      /\ \A i \in DOMAIN cmd' : cmd'[i] # c
  <2>1. \A i, j \in DOMAIN cmd : cmd[i] = cmd[j] => i = j
    BY DEF IInv, TableInv
  <2>2. cmd \in Seq(Commands) /\ cmd' = UnregisterCmd(cmd, c)
    BY <1>1 DEF TypeOK
  <2> QED
    BY <2>1, <2>2, UnregisterCmdFacts
<1>6. TypeOK'
  BY <1>1, <1>3, <1>4, <1>5, ConstantsAssumption DEF TypeOK
<1>7. HandlersInv'
  <2>1. \A i \in DOMAIN event_cb : event_cb[i].cmd \in Commands
    BY <1>1, Members
  <2> QED
    BY <1>1, <1>4, <2>1 DEF IInv, HandlersInv
<1>8. TableInv'
  <2>1. \A i \in DOMAIN cmd : cmd[i] \in Commands
    BY <1>1, Members
  <2> QED
    BY <1>1, <1>4, <1>5, <2>1 DEF IInv, TableInv
<1>9. RefsInv'
  BY <1>1, <1>4 DEF IInv, RefsInv, InFlight, Active
<1>10. PhaseInv'
  <2>1. \A d \in Commands : phase[d] \notin {"starting", "stopping", "sweeping"}
    BY <1>1 DEF IInv, PhaseInv
  <2> QED
    BY <1>1, <1>3, <1>4, <2>1 DEF IInv, PhaseInv
<1>11. ApiInv'
  <2>1. ASSUME NEW i \in DOMAIN event_cb, event_cb[i].cmd = c
        PROVE  event_cb[i].ev \in UnregisteredFrom(CancelProgram(k), 1)
    BY <1>2, <2>1 DEF IInv, HandlersInv, k
  <2> QED
    BY <1>1, <1>3, <1>4, <2>1 DEF ApiInv, k
<1>12. LoopInv'
  <2>1. loop.cmd # NoCommand => loop.cmd \in Commands
    BY <1>1, Members
  <2>2. loop.cmd \in Commands => phase[loop.cmd] # "starting"
    BY <1>1 DEF IInv, PhaseInv
  <2> QED
    BY <1>1, <1>4, <2>1, <2>2 DEF IInv, LoopInv, k
<1> QED
  BY <1>6, <1>7, <1>8, <1>9, <1>10, <1>11, <1>12 DEF IInv

LEMMA CancelByProxyInv ==
    ASSUME IInv, NEW k \in CancelledByProxy, CancelByProxy(k)
    PROVE  IInv'
<1>1. /\ TypeOK /\ api.mode = "idle" /\ k \in Kinds
      /\ phase' = [c \in Commands |->
                      IF phase[c] = "started" /\ kind[c] = k THEN "sweeping"
                                                             ELSE phase[c]]
      /\ api' = [mode |-> "sweep", cmd |-> NoCommand, kind |-> k,
                 prog |-> CancelProgram(k), pc |-> 1]
      /\ UNCHANGED <<event_cb, cmd, mRefs, kind, loop>>
  BY DEF IInv, CancelByProxy, CancelledByProxy, Kinds
<1>2. /\ CancelProgram(k) \in Seq(Steps)
      /\ Subscriptions(k) \subseteq UnregisteredFrom(CancelProgram(k), 1)
  BY <1>1, CancelCovers
<1>3. /\ api' \in ApiStates
      /\ api'.mode = "sweep" /\ api'.cmd = NoCommand /\ api'.kind = k
      /\ api'.prog = CancelProgram(k) /\ api'.pc = 1
  BY <1>1, <1>2 DEF ApiStates
<1>4. /\ phase' \in [Commands -> Phases]
      /\ \A d \in Commands :
            phase'[d] = IF phase[d] = "started" /\ kind[d] = k THEN "sweeping" ELSE phase[d]
      /\ \A d \in Commands : phase[d] \in Active <=> phase'[d] \in Active
  BY <1>1 DEF TypeOK, Phases, Active
<1>5. TypeOK'
  BY <1>1, <1>3, <1>4 DEF TypeOK
<1>6. HandlersInv'
  <2>1. \A i \in DOMAIN event_cb : event_cb[i].cmd \in Commands
    BY <1>1, Members
  <2> QED
    BY <1>1, <1>4, <2>1 DEF IInv, HandlersInv
<1>7. TableInv'
  <2>1. \A i \in DOMAIN cmd : cmd[i] \in Commands
    BY <1>1, Members
  <2> QED
    BY <1>1, <1>4, <2>1 DEF IInv, TableInv
<1>8. RefsInv'
  BY <1>1, <1>4 DEF IInv, RefsInv, InFlight, Active
<1>9. PhaseInv'
  <2>1. \A d \in Commands : phase[d] \notin {"starting", "stopping", "sweeping"}
    BY <1>1 DEF IInv, PhaseInv
  <2> QED
    BY <1>1, <1>3, <1>4, <2>1 DEF IInv, PhaseInv
<1>10. ApiInv'
  <2>1. ASSUME NEW i \in DOMAIN event_cb, phase'[event_cb[i].cmd] = "sweeping"
        PROVE  event_cb[i].ev \in UnregisteredFrom(CancelProgram(k), 1)
    <3>1. event_cb[i].cmd \in Commands
      BY <1>1, Members
    <3>2. phase[event_cb[i].cmd] # "sweeping"
      BY <1>1, <3>1 DEF IInv, PhaseInv
    <3>3. kind[event_cb[i].cmd] = k
      BY <1>4, <2>1, <3>1, <3>2
    <3> QED
      BY <1>2, <3>3 DEF IInv, HandlersInv
  <2> QED
    BY <1>1, <1>3, <2>1 DEF ApiInv
<1>11. LoopInv'
  <2>1. loop.cmd # NoCommand => loop.cmd \in Commands
    BY <1>1, Members
  <2>2. loop.cmd \in Commands => phase[loop.cmd] # "starting"
    BY <1>1 DEF IInv, PhaseInv
  <2> QED
    BY <1>1, <1>4, <2>1, <2>2 DEF IInv, LoopInv
<1> QED
  BY <1>5, <1>6, <1>7, <1>8, <1>9, <1>10, <1>11 DEF IInv

LEMMA DispatchInv ==
    ASSUME IInv, NEW e \in Events, Dispatch(e)
    PROVE  IInv'
<1> DEFINE c == FirstHandler(e)
<1>1. /\ TypeOK /\ loop.pc = "idle" /\ c # NoCommand
      /\ mRefs' = [mRefs EXCEPT ![c] = @ + 1]
      /\ loop' = [pc |-> "handle", cmd |-> c]
      /\ UNCHANGED <<event_cb, cmd, kind, phase, api>>
  BY DEF IInv, Dispatch
<1>2. \E i \in DOMAIN event_cb : event_cb[i].ev = e /\ c = event_cb[i].cmd
  <2>1. event_cb \in Seq(Handlers)
    BY <1>1 DEF TypeOK
  <2> QED
    BY <1>1, <2>1, FirstHandlerFacts
<1> HIDE DEF c
<1>3. PICK i \in DOMAIN event_cb : event_cb[i].ev = e /\ c = event_cb[i].cmd
  BY <1>2
<1>4. /\ c \in Commands /\ phase[c] \in Active
      /\ e \in Subscriptions(kind[c])
  BY <1>1, <1>3, Members DEF IInv, HandlersInv
<1>5. kind[c] \in Kinds
  BY <1>4 DEF IInv, PhaseInv, Active
<1>6. loop.cmd = NoCommand
  BY <1>1 DEF IInv, LoopInv
<1>7. \A d \in Commands : InFlight(d) = 0
  BY <1>6, ConstantsAssumption DEF InFlight
<1>8. \A d \in Commands : InFlight(d)' = IF d = c THEN 1 ELSE 0
  BY <1>1 DEF InFlight
<1>9. /\ mRefs' \in [Commands -> Nat]
      /\ mRefs[c] = 1 /\ mRefs'[c] = 2
      /\ \A d \in Commands : d # c => mRefs'[d] = mRefs[d]
  <2>1. mRefs[c] = 1
    BY <1>4, <1>7 DEF IInv, RefsInv
  <2> QED
    BY <1>1, <1>4, <2>1 DEF TypeOK
<1>10. TypeOK'
  BY <1>1, <1>4, <1>9 DEF TypeOK, LoopStates
<1>11. HandlersInv' /\ PhaseInv' /\ ApiInv'
  <2>1. HandlersInv'
    BY <1>1 DEF IInv, HandlersInv
  <2>2. PhaseInv'
    BY <1>1 DEF IInv, PhaseInv
  <2>3. ApiInv'
    BY <1>1 DEF IInv, ApiInv, Running
  <2> QED
    BY <2>1, <2>2, <2>3
<1>12. TableInv'
  BY <1>1 DEF IInv, TableInv
<1>13. RefsInv'
  <2>1. ASSUME NEW d \in Commands, d # c
        PROVE  mRefs'[d] = mRefs[d] /\ InFlight(d)' = InFlight(d) /\ loop.cmd # d /\ loop'.cmd # d
    BY <1>1, <1>6, <1>7, <1>8, <1>9, <2>1, ConstantsAssumption
  <2>2. phase'[c] \in Active /\ phase' = phase
    BY <1>1, <1>4
  <2> QED
    BY <1>8, <1>9, <2>1, <2>2 DEF IInv, RefsInv, Active
\* An RTT command is handed an event only when its start() is through.
<1>14. ASSUME kind[c] = "RttCommand", phase[c] = "starting"
       PROVE  api.mode = "start" /\ ~Running
  <2>1. api.mode \in {"start", "fail"} /\ api.cmd = c
    BY <1>4, <1>14 DEF IInv, PhaseInv
  <2>2. api.kind = "RttCommand"
    BY <1>14, <2>1 DEF IInv, ApiInv
  <2>3. api.prog \in Seq(Steps) /\ api.pc \in Nat
    BY <1>1 DEF TypeOK, ApiStates
  <2>4. api.mode # "fail"
    <3> SUFFICES ASSUME api.mode = "fail" PROVE FALSE
      OBVIOUS
    <3>1. api.prog = << >> /\ e \in UnregisteredFrom(api.prog, api.pc)
      BY <1>3, <2>1, <2>2 DEF IInv, ApiInv
    <3> QED
      BY <3>1 DEF UnregisteredFrom
  <2>5. api.prog = StartProgram("RttCommand") /\ RegisteredBefore(api.prog, api.pc) # {}
    BY <1>3, <2>1, <2>2, <2>4 DEF IInv, ApiInv
  <2>6. api.pc > Len(api.prog)
    BY <2>3, <2>5, RttRegistersLast
  <2> QED
    BY <2>1, <2>3, <2>4, <2>6 DEF Running
<1>15. LoopInv'
  <2>1. kind[c] = "RttCommand" => phase[c] # "stopping"
    BY <1>4 DEF IInv, PhaseInv, ApiInv, CancelledById
  <2>2. Running' <=> Running
    BY <1>1 DEF Running
  <2> QED
    BY <1>1, <1>4, <1>14, <2>1, <2>2, ConstantsAssumption DEF LoopInv, Active
<1> QED
  BY <1>10, <1>11, <1>12, <1>13, <1>15 DEF IInv

LEMMA HandleEventInv == IInv /\ HandleEvent => IInv'
<1> SUFFICES ASSUME IInv, HandleEvent PROVE IInv'
  OBVIOUS
<1>1. /\ TypeOK /\ loop.pc = "handle"
      /\ loop' = [loop EXCEPT !.pc = "release"]
      /\ UNCHANGED <<event_cb, cmd, mRefs, kind, phase, api>>
  BY DEF IInv, HandleEvent
<1>2. loop' \in LoopStates /\ loop'.pc = "release" /\ loop'.cmd = loop.cmd
  BY <1>1 DEF TypeOK, LoopStates
<1>3. TypeOK'
  BY <1>1, <1>2 DEF TypeOK
<1>4. HandlersInv'
  BY <1>1 DEF IInv, HandlersInv
<1>5. PhaseInv'
  BY <1>1 DEF IInv, PhaseInv
<1>6. ApiInv'
  BY <1>1 DEF IInv, ApiInv, Running
<1>7. LoopInv'
  BY <1>1, <1>2 DEF IInv, LoopInv
<1>8. RefsInv'
  BY <1>1, <1>2 DEF IInv, RefsInv, InFlight
<1>9. TableInv'
  BY <1>1, <1>2 DEF IInv, TableInv
<1> QED
  BY <1>3, <1>4, <1>5, <1>6, <1>7, <1>8, <1>9 DEF IInv

LEMMA RttCompleteInv == IInv /\ RttComplete => IInv'
<1> SUFFICES ASSUME IInv, RttComplete PROVE IInv'
  OBVIOUS
<1> DEFINE c == loop.cmd
<1>1. /\ TypeOK /\ loop.pc = "handle" /\ kind[c] = "RttCommand"
      /\ event_cb' = UnregisterHandler(event_cb, "RTT_COMPLETE")
      /\ phase' = [phase EXCEPT ![c] = "done"]
      /\ loop' = [loop EXCEPT !.pc = "notify"]
      /\ UNCHANGED <<cmd, mRefs, kind, api>>
  BY DEF IInv, RttComplete
<1>2. loop' \in LoopStates /\ loop'.pc = "notify" /\ loop'.cmd = c
  BY <1>1 DEF TypeOK, LoopStates
<1>3. /\ c \in Commands
      /\ phase[c] \in {"starting", "started", "sweeping", "orphaned"}
      /\ phase[c] = "starting" => api.mode = "start" /\ ~Running
  BY <1>1, Members DEF IInv, LoopInv
<1> HIDE DEF c
<1>4. /\ phase' \in [Commands -> Phases] /\ phase'[c] = "done"
      /\ \A d \in Commands : d # c => phase'[d] = phase[d]
  BY <1>1, <1>3 DEF TypeOK, Phases
<1>5. /\ event_cb' \in Seq(Handlers)
      /\ Len(event_cb') <= Len(event_cb)
      /\ \A i \in DOMAIN event_cb' : \E j \in DOMAIN event_cb : event_cb'[i] = event_cb[j]
      /\ \A i, j \in DOMAIN event_cb' : event_cb'[i].ev = event_cb'[j].ev => i = j
      /\ \A i \in DOMAIN event_cb' : event_cb'[i].ev # "RTT_COMPLETE"
  <2>1. \A i, j \in DOMAIN event_cb : event_cb[i].ev = event_cb[j].ev => i = j
    BY DEF IInv, HandlersInv
  <2>2. event_cb \in Seq(Handlers)
    BY <1>1 DEF TypeOK
  <2>3. event_cb' = UnregisterHandler(event_cb, "RTT_COMPLETE")
    BY <1>1
  <2> QED
    BY <2>1, <2>2, <2>3, UnregisterHandlerFacts
<1>6. \A i \in DOMAIN event_cb' :
         /\ event_cb'[i].cmd \in Commands
         /\ phase[event_cb'[i].cmd] \in Active
         /\ event_cb'[i].ev \in Subscriptions(kind[event_cb'[i].cmd])
  BY <1>1, <1>5, Members DEF IInv, HandlersInv
\* RTT_COMPLETE was the only event c could have a handler for.
<1>7. \A i \in DOMAIN event_cb' : event_cb'[i].cmd # c
  BY <1>1, <1>5, <1>6, RttRegistersLast DEF c
<1>8. TypeOK'
  BY <1>1, <1>2, <1>4, <1>5, ConstantsAssumption DEF TypeOK
<1>9. HandlersInv'
  BY <1>1, <1>4, <1>5, <1>6, <1>7 DEF HandlersInv
<1>10. PhaseInv'
  BY <1>1, <1>3, <1>4 DEF IInv, PhaseInv, Active
<1>11. ApiInv'
  <2>1. \A i \in DOMAIN event_cb' : event_cb'[i].cmd \in Commands
    BY <1>6
  <2>2. api.mode \in {"fail", "cancel"} => api.cmd # c
    BY <1>1, <1>3 DEF IInv, ApiInv, CancelledById, c
  <2>3. Running' <=> Running
    BY <1>1 DEF Running
  <2>4. CASE api.mode = "idle"
    BY <1>1, <2>4 DEF IInv, ApiInv
  <2>5. CASE api.mode = "start"
    <3>1. phase[api.cmd] = "starting" /\ api.cmd = c => ~Running
      BY <1>3
    <3> QED
      BY <1>1, <1>3, <1>4, <1>5, <2>3, <2>5, <3>1 DEF IInv, ApiInv
  <2>6. CASE api.mode = "fail"
    BY <1>1, <1>4, <1>5, <2>2, <2>6 DEF IInv, ApiInv
  <2>7. CASE api.mode = "cancel"
    BY <1>1, <1>4, <1>5, <2>2, <2>7 DEF IInv, ApiInv
  <2>8. CASE api.mode = "sweep"
    BY <1>1, <1>4, <1>5, <2>1, <2>8 DEF IInv, ApiInv
  <2> QED
    BY <1>1, <2>4, <2>5, <2>6, <2>7, <2>8 DEF TypeOK, ApiStates
<1>12. LoopInv'
  BY <1>1, <1>2, <1>3, <1>4, ConstantsAssumption DEF LoopInv
<1>13. RefsInv'
  <2>1. mRefs[c] = 2
    BY <1>3 DEF IInv, RefsInv, InFlight, Active, c
  <2> QED
    BY <1>1, <1>2, <1>4, <2>1 DEF IInv, RefsInv, InFlight, c
<1>14. TableInv'
  <2>1. \A i \in DOMAIN cmd : cmd[i] \in Commands
    BY <1>1, Members
  <2>2. loop' = [pc |-> "notify", cmd |-> c]
    BY <1>1 DEF TypeOK, LoopStates, c
  <2>3. \A i \in DOMAIN cmd : phase[cmd[i]] # "done"
    BY <1>1 DEF IInv, TableInv
  <2> QED
    BY <1>1, <1>4, <2>1, <2>2, <2>3 DEF IInv, TableInv
<1> QED
  BY <1>8, <1>9, <1>10, <1>11, <1>12, <1>13, <1>14 DEF IInv

LEMMA RttUnlistInv == IInv /\ RttUnlist => IInv'
<1> SUFFICES ASSUME IInv, RttUnlist PROVE IInv'
  OBVIOUS
<1> DEFINE c == loop.cmd
<1>1. /\ TypeOK /\ loop.pc = "notify"
      /\ cmd' = UnregisterCmd(cmd, c)
      /\ loop' = [loop EXCEPT !.pc = IF Listed(c) THEN "drop" ELSE "release"]
      /\ UNCHANGED <<event_cb, mRefs, kind, phase, api>>
  BY DEF IInv, RttUnlist
<1>2. loop' \in LoopStates /\ loop'.pc \in {"drop", "release"} /\ loop'.cmd = c
  BY <1>1 DEF TypeOK, LoopStates
<1>3. c \in Commands /\ phase[c] = "done"
  BY <1>1, Members DEF IInv, LoopInv
<1>4. /\ cmd' \in Seq(Commands)
      /\ Len(cmd') <= Len(cmd)
      /\ \A i \in DOMAIN cmd' : \E j \in DOMAIN cmd : cmd'[i] = cmd[j]
      /\ \A i, j \in DOMAIN cmd' : cmd'[i] = cmd'[j] => i = j
      /\ \A i \in DOMAIN cmd' : cmd'[i] # c
  <2>1. \A i, j \in DOMAIN cmd : cmd[i] = cmd[j] => i = j
    BY DEF IInv, TableInv
  <2>2. cmd \in Seq(Commands) /\ cmd' = UnregisterCmd(cmd, c)
    BY <1>1 DEF TypeOK
  <2> HIDE DEF c
  <2> QED
    BY <2>1, <2>2, UnregisterCmdFacts
<1>5. TypeOK'
  BY <1>1, <1>2, <1>4, ConstantsAssumption DEF TypeOK
<1>6. HandlersInv'
  BY <1>1 DEF IInv, HandlersInv
<1>7. PhaseInv'
  BY <1>1 DEF IInv, PhaseInv
<1>8. ApiInv'
  BY <1>1 DEF IInv, ApiInv, Running
<1>9. LoopInv'
  BY <1>1, <1>2, <1>3, ConstantsAssumption DEF LoopInv
<1>10. RefsInv'
  BY <1>1, <1>2, <1>3 DEF IInv, RefsInv, InFlight
<1>11. TableInv'
  <2>1. \A i \in DOMAIN cmd' : phase[cmd'[i]] # "done"
    BY <1>1, <1>4 DEF IInv, TableInv
  <2> QED
    BY <1>1, <1>4, <2>1 DEF IInv, TableInv
<1> QED
  BY <1>5, <1>6, <1>7, <1>8, <1>9, <1>10, <1>11 DEF IInv

LEMMA RttDropInv == IInv /\ RttDrop => IInv'
<1> SUFFICES ASSUME IInv, RttDrop PROVE IInv'
  OBVIOUS
<1> DEFINE c == loop.cmd
<1>1. /\ TypeOK /\ loop.pc = "drop"
      /\ mRefs' = [mRefs EXCEPT ![c] = @ - 1]
      /\ loop' = [loop EXCEPT !.pc = "release"]
      /\ UNCHANGED <<event_cb, cmd, kind, phase, api>>
  BY DEF IInv, RttDrop
<1>2. loop' \in LoopStates /\ loop'.pc = "release" /\ loop'.cmd = c
  BY <1>1 DEF TypeOK, LoopStates
<1>3. c \in Commands /\ phase[c] = "done" /\ mRefs[c] = 2
  BY <1>1, Members DEF IInv, LoopInv, RefsInv
<1>4. /\ mRefs' \in [Commands -> Nat] /\ mRefs'[c] = 1
      /\ \A d \in Commands : d # c => mRefs'[d] = mRefs[d]
  <2> HIDE DEF c
  <2> QED
    BY <1>1, <1>3 DEF TypeOK
<1>5. TypeOK'
  BY <1>1, <1>2, <1>4 DEF TypeOK
<1>6. HandlersInv'
  BY <1>1 DEF IInv, HandlersInv
<1>7. PhaseInv'
  BY <1>1 DEF IInv, PhaseInv
<1>8. ApiInv'
  BY <1>1 DEF IInv, ApiInv, Running
<1>9. LoopInv'
  BY <1>1, <1>2, <1>3, ConstantsAssumption DEF LoopInv
<1>10. RefsInv'
  BY <1>1, <1>2, <1>3, <1>4 DEF IInv, RefsInv, InFlight, Active
<1>11. TableInv'
  BY <1>1, <1>2 DEF IInv, TableInv
<1> QED
  BY <1>5, <1>6, <1>7, <1>8, <1>9, <1>10, <1>11 DEF IInv

\* The event thread's own reference is there to be dropped.
LEMMA ReleaseInv == IInv /\ Release => IInv'
<1> SUFFICES ASSUME IInv, Release PROVE IInv'
  OBVIOUS
<1> DEFINE c == loop.cmd
<1>1. /\ TypeOK /\ loop.pc = "release"
      /\ mRefs' = [mRefs EXCEPT ![c] = @ - 1]
      /\ loop' = Waiting
      /\ UNCHANGED <<event_cb, cmd, kind, phase, api>>
  BY DEF IInv, Release
<1>2. loop' \in LoopStates /\ loop'.pc = "idle" /\ loop'.cmd = NoCommand
  BY <1>1 DEF Waiting, LoopStates
<1>3. c \in Commands /\ phase[c] # "unborn"
  BY <1>1, Members DEF IInv, LoopInv
<1>4. mRefs[c] \in Nat /\ mRefs[c] >= 1
  <2>1. mRefs[c] \in Nat /\ phase[c] \in Phases /\ InFlight(c) = 1
    BY <1>1, <1>3 DEF TypeOK, InFlight
  <2> HIDE DEF c
  <2> QED
    BY <1>3, <2>1 DEF IInv, RefsInv, Active, Phases
<1>5. /\ mRefs' \in [Commands -> Nat] /\ mRefs'[c] = mRefs[c] - 1
      /\ \A d \in Commands : d # c => mRefs'[d] = mRefs[d]
  <2> HIDE DEF c
  <2> QED
    BY <1>1, <1>3, <1>4 DEF TypeOK
<1>6. TypeOK'
  BY <1>1, <1>2, <1>5 DEF TypeOK
<1>7. HandlersInv'
  BY <1>1 DEF IInv, HandlersInv
<1>8. PhaseInv'
  BY <1>1 DEF IInv, PhaseInv
<1>9. ApiInv'
  BY <1>1 DEF IInv, ApiInv, Running
<1>10. LoopInv'
  BY <1>1, <1>2 DEF LoopInv
<1>11. RefsInv'
  <2>1. \A d \in Commands : InFlight(d)' = 0 /\ InFlight(d) = IF d = c THEN 1 ELSE 0
    BY <1>2, ConstantsAssumption DEF InFlight
  <2>2. \A d \in Commands : phase'[d] = phase[d]
    BY <1>1
  <2> HIDE DEF c
  <2>3. ASSUME NEW d \in Commands, d # c
        PROVE  mRefs'[d] = mRefs[d] /\ InFlight(d)' = InFlight(d) /\ loop.cmd # d
    BY <1>5, <2>1, <2>3 DEF c
  <2> QED
    BY <1>1, <1>2, <1>3, <1>4, <1>5, <2>1, <2>2, <2>3, ConstantsAssumption
    DEF IInv, RefsInv, Active
<1>12. TableInv'
  BY <1>1, <1>2 DEF IInv, TableInv
<1> QED
  BY <1>6, <1>7, <1>8, <1>9, <1>10, <1>11, <1>12 DEF IInv

LEMMA StepInv ==
    ASSUME OneUserPerEvent, IInv, [Next]_vars
    PROVE  IInv'
<1>1. ASSUME NEW c \in Commands, NEW k \in Kinds, Start(c, k) PROVE IInv'
  BY <1>1, StartInv
<1>2. ASSUME NEW c \in Commands, Cancel(c) PROVE IInv'
  BY <1>2, CancelInv
<1>3. ASSUME NEW k \in CancelledByProxy, CancelByProxy(k) PROVE IInv'
  BY <1>3, CancelByProxyInv
<1>4. CASE ApiStep
  BY <1>4, RegisterStepInv, UnregisterStepInv, AttemptSucceedsInv, AttemptFailsInv,
     FinishStartInv, FinishFailedStartInv, FinishCancelInv, FinishProxyInv
  DEF ApiStep
<1>5. ASSUME NEW e \in Events, Dispatch(e) PROVE IInv'
  BY <1>5, DispatchInv
<1>6. CASE LoopStep
  BY <1>6, HandleEventInv, RttCompleteInv, RttUnlistInv, RttDropInv, ReleaseInv
  DEF LoopStep
<1>7. CASE UNCHANGED vars
  <2>1. UNCHANGED <<event_cb, cmd, mRefs, kind, phase, api, loop>>
    BY <1>7 DEF vars
  <2>2. TypeOK' /\ HandlersInv' /\ PhaseInv'
    BY <2>1 DEF IInv, TypeOK, HandlersInv, PhaseInv
  <2>3. ApiInv' /\ LoopInv'
    BY <2>1 DEF IInv, ApiInv, LoopInv, Running
  <2>4. RefsInv' /\ TableInv'
    BY <2>1 DEF IInv, RefsInv, TableInv, InFlight
  <2> QED
    BY <2>2, <2>3, <2>4 DEF IInv
<1> QED
  BY <1>1, <1>2, <1>3, <1>4, <1>5, <1>6, <1>7 DEF Next, ApiCall

\* The inductive invariant holds as long as the caller has one user per event.
THEOREM Invariance ==
    ASSUME OneUserPerEvent
    PROVE  Spec => []IInv
BY InitInv, StepInv, PTL DEF Spec

-----------------------------------------------------------------------------
(***************************************************************************)
(* The safety properties.                                                  *)
(***************************************************************************)

\* Every variable keeps its type; the list and the table stay within their
\* allocation.
THEOREM TypeCorrect ==
    ASSUME OneUserPerEvent
    PROVE  Spec => []TypeOK
<1>1. IInv => TypeOK
  BY DEF IInv
<1> QED
  BY <1>1, Invariance, PTL

\* No entry of the handler list points to a freed command.
THEOREM HandlersAlive ==
    ASSUME OneUserPerEvent
    PROVE  Spec => []NoDanglingHandler
<1>1. IInv => NoDanglingHandler
  <2> SUFFICES ASSUME IInv, NEW i \in DOMAIN event_cb
               PROVE  mRefs[event_cb[i].cmd] > 0
    BY DEF NoDanglingHandler
  <2>1. event_cb[i].cmd \in Commands /\ phase[event_cb[i].cmd] \in Active
    BY Members DEF IInv, HandlersInv
  <2> QED
    BY <2>1 DEF IInv, RefsInv, InFlight
<1> QED
  BY <1>1, Invariance, PTL

\* A stopped command has no handler left.
THEOREM StoppedIsSilent ==
    ASSUME OneUserPerEvent
    PROVE  Spec => []SilentAfterStop
<1>1. IInv => SilentAfterStop
  BY DEF IInv, HandlersInv, SilentAfterStop
<1> QED
  BY <1>1, Invariance, PTL

\* Neither thread is inside a freed command and the table holds none.
THEOREM NothingFreedInUse ==
    ASSUME OneUserPerEvent
    PROVE  Spec => []NoUseAfterFree
<1>1. IInv => NoUseAfterFree
  <2> SUFFICES ASSUME IInv PROVE NoUseAfterFree
    OBVIOUS
  <2>1. TypeOK
    BY DEF IInv
  <2>2. loop.pc # "idle" => mRefs[loop.cmd] > 0
    <3> SUFFICES ASSUME loop.pc # "idle" PROVE mRefs[loop.cmd] > 0
      OBVIOUS
    <3>1. /\ loop.cmd \in Commands /\ phase[loop.cmd] # "unborn"
          /\ phase[loop.cmd] \in Phases
      BY <2>1, Members DEF IInv, LoopInv, TypeOK
    <3>2. InFlight(loop.cmd) = 1
      BY DEF InFlight
    <3> QED
      BY <3>1, <3>2 DEF IInv, RefsInv, Active, Phases
  <2>3. Running /\ api.cmd # NoCommand => mRefs[api.cmd] > 0
    <3> SUFFICES ASSUME Running, api.cmd # NoCommand PROVE mRefs[api.cmd] > 0
      OBVIOUS
    <3>1. api.mode \in {"start", "fail", "cancel"}
      BY <2>1 DEF Running, IInv, ApiInv, TypeOK, ApiStates
    <3>2. api.cmd \in Commands /\ phase[api.cmd] \in Active \cup {"orphaned", "failed"}
      BY <3>1 DEF Running, IInv, ApiInv, Active
    <3> QED
      BY <3>2 DEF IInv, RefsInv, InFlight
  <2>4. ASSUME NEW i \in DOMAIN cmd PROVE mRefs[cmd[i]] > 0
    <3>1. /\ cmd[i] \in Commands
          /\ phase[cmd[i]] \in {"starting", "started", "sweeping", "orphaned",
                               "failed", "done"}
          /\ phase[cmd[i]] = "done" => loop = [pc |-> "notify", cmd |-> cmd[i]]
      BY <2>1, Members DEF IInv, TableInv
    <3> QED
      BY <3>1 DEF IInv, RefsInv, InFlight, Active
  <2> QED
    BY <2>2, <2>3, <2>4 DEF NoUseAfterFree
<1> QED
  BY <1>1, Invariance, PTL

\* Every reference count is what the phase of the command says.
THEOREM RefsExact ==
    ASSUME OneUserPerEvent
    PROVE  Spec => []RefsAreExact
<1>1. IInv => RefsAreExact
  <2> SUFFICES ASSUME IInv, NEW c \in Commands, phase[c] = "done", Listed(c)
               PROVE  mRefs[c] = 2
    BY DEF IInv, RefsInv, RefsAreExact
  <2>1. PICK i \in 1..Len(cmd) : cmd[i] = c
    BY DEF Listed, Contains
  <2>2. i \in DOMAIN cmd
    BY DEF IInv, TypeOK
  <2>3. loop = [pc |-> "notify", cmd |-> c]
    BY <2>1, <2>2 DEF IInv, TableInv
  <2> QED
    BY <2>3 DEF IInv, RefsInv
<1> QED
  BY <1>1, Invariance, PTL

\* The slots that nobody will give back are those of five kinds of call.
THEOREM LeakedSlots ==
    ASSUME OneUserPerEvent
    PROVE  Spec => []OnlyKnownSlotsLeak
<1>1. IInv => OnlyKnownSlotsLeak
  <2> SUFFICES ASSUME IInv, NEW i \in DOMAIN cmd, phase[cmd[i]] = "failed"
               PROVE  kind[cmd[i]] \in {"SetRSSIMonitorCommand", "RttCommand",
                                       "BssidBlacklistCommand"}
    BY DEF IInv, TableInv, OnlyKnownSlotsLeak
  <2>1. cmd[i] \in Commands
    BY Members DEF IInv
  <2>2. kind[cmd[i]] \in Kinds /\ kind[cmd[i]] \notin UnlistedOnFailure
    BY <2>1 DEF IInv, PhaseInv, TableInv
  <2> QED
    BY <2>2 DEF UnlistedOnFailure
<1> QED
  BY <1>1, Invariance, PTL

\* A started command that has a slot of the table keeps it.
THEOREM SlotKept ==
    ASSUME OneUserPerEvent
    PROVE  Spec => SlotKeptWhileStarted
<1> DEFINE Keeps == \A c \in Commands :
              phase[c] = "started" /\ Listed(c) /\ phase'[c] = "started" => Listed(c)'
<1>1. ASSUME IInv, [Next]_vars PROVE [Keeps]_vars
  <2> SUFFICES ASSUME NEW c \in Commands, Next,
                      phase[c] = "started", Listed(c), phase'[c] = "started"
               PROVE  Listed(c)'
    BY <1>1
  <2>1. TypeOK
    BY <1>1 DEF IInv
  <2>2. \A d : cmd' = UnregisterCmd(cmd, d) /\ d # c => Listed(c)'
    BY <2>1, UnregisterCmdFacts DEF TypeOK, Listed
  <2>3. cmd' = cmd => Listed(c)'
    BY DEF Listed
  <2>4. ASSUME NEW d \in Commands, NEW k \in Kinds, Start(d, k) PROVE Listed(c)'
    <3>1. cmd \in Seq(Commands) /\ cmd' = RegisterCmd(cmd, d)
      BY <2>1, <2>4 DEF Start, TypeOK
    <3>2. PICK i \in 1..Len(cmd) : cmd[i] = c
      BY DEF Listed, Contains
    <3>3. i \in 1..Len(cmd') /\ cmd'[i] = c
      BY <3>1, <3>2 DEF RegisterCmd
    <3> QED
      BY <3>3 DEF Listed, Contains
  <2>5. ASSUME NEW d \in Commands, Cancel(d) PROVE Listed(c)'
    <3>1. d # c
      BY <2>1, <2>5 DEF Cancel, TypeOK
    <3> QED
      BY <2>2, <2>5, <3>1 DEF Cancel
  <2>6. CASE FinishFailedStart
    <3>1. api.cmd # c
      BY <1>1, <2>6 DEF FinishFailedStart, Finished, IInv, ApiInv
    <3> QED
      BY <2>2, <2>3, <2>6, <3>1 DEF FinishFailedStart
  <2>7. CASE RttUnlist
    <3>1. loop.cmd # c
      BY <1>1, <2>7 DEF RttUnlist, IInv, LoopInv
    <3> QED
      BY <2>2, <2>7, <3>1 DEF RttUnlist
  <2>8. CASE ApiStep /\ ~FinishFailedStart
    BY <2>3, <2>8 DEF ApiStep, RegisterStep, UnregisterStep, AttemptSucceeds,
       AttemptFails, FinishStart, FinishCancel, FinishProxy
  <2>9. CASE LoopStep /\ ~RttUnlist
    BY <2>3, <2>9 DEF LoopStep, HandleEvent, RttComplete, RttDrop, Release
  <2>10. ASSUME NEW e \in Events, Dispatch(e) PROVE Listed(c)'
    BY <2>3, <2>10 DEF Dispatch
  <2>11. ASSUME NEW k \in CancelledByProxy, CancelByProxy(k) PROVE Listed(c)'
    BY <2>3, <2>11 DEF CancelByProxy
  <2> QED
    BY <2>4, <2>5, <2>6, <2>7, <2>8, <2>9, <2>10, <2>11 DEF Next, ApiCall
<1> QED
  BY <1>1, Invariance, PTL DEF Spec, SlotKeptWhileStarted

-----------------------------------------------------------------------------
(***************************************************************************)
(* A started command keeps its handlers.  The list has room for one        *)
(* handler of every event, so no registration is lost, and every           *)
(* unregistration names an event that no other started command uses.       *)
(***************************************************************************)

Has(cb, c, e) == Contains(cb, [ev |-> e, cmd |-> c])

\* What start() has registered so far is in the list; the events an error path
\* or a cancel() names belong to its own class, and no other started command
\* shares one with that class.
SubscribedInv ==
    /\ StartedIsSubscribed
    /\ api.mode = "start" /\ phase[api.cmd] = "starting" /\ api.kind # "RttCommand" =>
          \A e \in RegisteredBefore(api.prog, api.pc) : Has(event_cb, api.cmd, e)
    /\ api.mode = "fail" =>
          \A i \in DOMAIN api.prog : api.prog[i].ev \in Subscriptions(api.kind)
    /\ api.mode \in {"cancel", "sweep"} =>
          \A d \in Commands : phase[d] = "started" => ~Conflict(api.kind, kind[d])

LEMMA EventsFinite == IsFiniteSet(Events)
<1> DEFINE f == <<"SIGNIFICANT_CHANGE_RESULTS", "HOTLIST_RESULTS_FOUND",
                  "SCAN_RESULTS_AVAILABLE", "FULL_SCAN_RESULTS", "RTT_COMPLETE",
                  "COMPLETE_SCAN", "HOTLIST_RESULTS_LOST", "RSSI_MONITOR",
                  "EPNO_EVENT", "ANQPO_HOTSPOT_MATCH">>
<1>1. f \in [1..10 -> Events]
  BY DEF Events
<1>2. ASSUME NEW e \in Events
      PROVE  \E i \in 1..10 : f[i] = e
  <2>1. /\ f[1] = "SIGNIFICANT_CHANGE_RESULTS" /\ f[2] = "HOTLIST_RESULTS_FOUND"
        /\ f[3] = "SCAN_RESULTS_AVAILABLE" /\ f[4] = "FULL_SCAN_RESULTS"
        /\ f[5] = "RTT_COMPLETE" /\ f[6] = "COMPLETE_SCAN"
        /\ f[7] = "HOTLIST_RESULTS_LOST" /\ f[8] = "RSSI_MONITOR"
        /\ f[9] = "EPNO_EVENT" /\ f[10] = "ANQPO_HOTSPOT_MATCH"
    OBVIOUS
  <2> HIDE DEF f
  <2> QED
    BY <2>1 DEF Events
<1> HIDE DEF f
<1>3. f \in Surjection(1..10, Events)
  BY <1>1, <1>2 DEF Surjection
<1>4. IsFiniteSet(1..10)
  <2>1. 1 \in Int /\ 10 \in Int
    OBVIOUS
  <2> QED
    BY <2>1, FS_Interval
<1> QED
  BY <1>3, <1>4, FS_Surjection

\* One handler for each event, and none for e: the list is shorter than the
\* number of events.
LEMMA RoomForHandler ==
    ASSUME IInv, NEW e \in Events, \A i \in DOMAIN event_cb : event_cb[i].ev # e
    PROVE  Len(event_cb) < Cardinality(Events)
<1> DEFINE n == Len(event_cb)
           f == [i \in 1..n |-> event_cb[i].ev]
           T == Events \ {e}
<1>1. event_cb \in Seq(Handlers) /\ n \in Nat /\ DOMAIN event_cb = 1..n
  BY DEF IInv, TypeOK
<1>2. f \in [1..n -> T]
  BY <1>1, Members DEF IInv
<1>3. \A i, j \in 1..n : f[i] = f[j] => i = j
  BY <1>1 DEF IInv, HandlersInv
<1>4. /\ IsFiniteSet(T) /\ Cardinality(Events) \in Nat
      /\ Cardinality(T) = Cardinality(Events) - 1
  BY EventsFinite, FS_CardinalityType, FS_RemoveElement
<1>5. IsFiniteSet(1..n) /\ Cardinality(1..n) = n
  <2>1. 1 \in Int /\ n \in Int
    BY <1>1
  <2>2. IsFiniteSet(1..n) /\ Cardinality(1..n) = IF 1 > n THEN 0 ELSE n - 1 + 1
    BY <2>1, FS_Interval
  <2> QED
    BY <1>1, <2>2
<1> HIDE DEF n, f, T
<1>6. f \in Injection(1..n, T)
  BY <1>2, <1>3 DEF Injection, IsInjective
<1>7. Cardinality(1..n) <= Cardinality(T)
  BY <1>4, <1>6, FS_Injection
<1> QED
  BY <1>1, <1>4, <1>5, <1>7 DEF n

\* Taking away the handler of one event leaves those of the others.
LEMMA KeptByUnregister ==
    ASSUME TypeOK, NEW e, event_cb' = UnregisterHandler(event_cb, e),
           NEW c, NEW x, x # e, Has(event_cb, c, x)
    PROVE  Has(event_cb', c, x)
<1> DEFINE h == [ev |-> x, cmd |-> c]
<1>1. h.ev # e /\ Contains(event_cb, h)
  BY DEF Has
<1>2. event_cb \in Seq(Handlers)
  BY DEF TypeOK
<1> HIDE DEF h
<1>3. Contains(event_cb', h)
  BY <1>1, <1>2, UnregisterHandlerFacts
<1> QED
  BY <1>3 DEF Has, h

\* A registration that finds room is in the list, with all that was there.
LEMMA KeptByRegister ==
    ASSUME TypeOK, Len(event_cb) < AllocEventCb, NEW e \in Events, NEW c \in Commands,
           event_cb' = RegisterHandler(event_cb, e, c)
    PROVE  /\ Has(event_cb', c, e)
           /\ \A d, x : Has(event_cb, d, x) => Has(event_cb', d, x)
<1>1. [ev |-> e, cmd |-> c] \in Handlers
  BY DEF Handlers
<1>2. event_cb \in Seq(Handlers) /\ event_cb' = Append(event_cb, [ev |-> e, cmd |-> c])
  BY DEF TypeOK, RegisterHandler
<1>3. /\ event_cb' \in Seq(Handlers) /\ Len(event_cb') = Len(event_cb) + 1
      /\ \A i \in 1..Len(event_cb) : event_cb'[i] = event_cb[i]
      /\ event_cb'[Len(event_cb) + 1] = [ev |-> e, cmd |-> c]
  BY <1>1, <1>2, AppendProperties
<1>4. ASSUME NEW h, Contains(event_cb, h)
      PROVE  Contains(event_cb', h)
  <2>1. PICK i \in 1..Len(event_cb) : event_cb[i] = h
    BY <1>4 DEF Contains
  <2>2. i \in 1..Len(event_cb') /\ event_cb'[i] = h
    BY <1>2, <1>3, <2>1
  <2> QED
    BY <2>2 DEF Contains
<1>5. Contains(event_cb', [ev |-> e, cmd |-> c])
  <2>1. Len(event_cb') \in Nat /\ Len(event_cb') \in 1..Len(event_cb')
    BY <1>2, <1>3
  <2> QED
    BY <1>3, <2>1 DEF Contains
<1> QED
  BY <1>4, <1>5 DEF Has

\* A step that leaves the list alone and starts nothing keeps the property.
LEMMA StartedKept ==
    ASSUME StartedIsSubscribed, event_cb' = event_cb,
           \A d \in Commands : phase'[d] = "started" =>
              phase[d] = "started" /\ kind'[d] = kind[d]
    PROVE  StartedIsSubscribed'
BY Zenon DEF StartedIsSubscribed

LEMMA InitSubscribed == Init => SubscribedInv
BY DEF Init, Idle, SubscribedInv, StartedIsSubscribed

LEMMA RegisterSubscribes ==
    ASSUME Cardinality(Events) <= AllocEventCb, IInv, SubscribedInv, RegisterStep
    PROVE  SubscribedInv'
<1> DEFINE c == api.cmd
           e == Step.ev
<1>1. /\ TypeOK /\ Running /\ Advance /\ event_cb' = RegisterHandler(event_cb, e, c)
      /\ phase' = phase /\ kind' = kind
  BY DEF IInv, RegisterStep
<1>2. /\ api.mode = "start" /\ c \in Commands /\ e \in Events
      /\ \A i \in DOMAIN event_cb : event_cb[i].ev # e
  BY RegisterStepFacts
<1>3. /\ api'.mode = "start" /\ api'.cmd = api.cmd /\ api'.kind = api.kind
      /\ api'.prog = api.prog /\ api'.pc = api.pc + 1
      /\ api.prog \in Seq(Steps) /\ api.pc \in DOMAIN api.prog
  BY <1>1, <1>2, AdvanceFacts
<1>4. Len(event_cb) < AllocEventCb
  <2>1. Len(event_cb) < Cardinality(Events)
    <3> HIDE DEF e
    <3> QED
      BY <1>2, RoomForHandler
  <2>2. /\ Len(event_cb) \in Nat /\ AllocEventCb \in Nat
        /\ Cardinality(Events) \in Nat
    BY <1>1, ConstantsAssumption, EventsFinite, FS_CardinalityType DEF TypeOK
  <2> QED
    BY <2>1, <2>2
<1>5. /\ Has(event_cb', c, e)
      /\ \A d, x : Has(event_cb, d, x) => Has(event_cb', d, x)
  <2> HIDE DEF c, e
  <2> QED
    BY <1>1, <1>2, <1>4, KeptByRegister
<1>6. StartedIsSubscribed'
  BY <1>1, <1>5, Zenon DEF SubscribedInv, StartedIsSubscribed, Has
<1>7. ASSUME phase[c] = "starting", api.kind # "RttCommand",
             NEW x \in RegisteredBefore(api.prog, api.pc + 1)
      PROVE  Has(event_cb', c, x)
  <2>1. CASE x \in RegisteredBefore(api.prog, api.pc)
    BY <1>2, <1>5, <1>7, <2>1 DEF SubscribedInv
  <2>2. CASE x \notin RegisteredBefore(api.prog, api.pc)
    <3>1. x = e
      BY <1>3, <2>2, RegisteredByStep DEF Step
    <3> QED
      BY <1>5, <3>1
  <2> QED
    BY <2>1, <2>2
<1> HIDE DEF e
<1> QED
  BY <1>1, <1>3, <1>6, <1>7 DEF SubscribedInv, Has

LEMMA UnregisterSubscribes ==
    ASSUME IInv, SubscribedInv, UnregisterStep
    PROVE  SubscribedInv'
<1> DEFINE e == Step.ev
<1>1. /\ TypeOK /\ Running /\ Advance /\ Step.op = "unregister"
      /\ event_cb' = UnregisterHandler(event_cb, e)
      /\ phase' = phase /\ kind' = kind
  BY DEF IInv, UnregisterStep
<1>2. /\ api'.mode = api.mode /\ api'.cmd = api.cmd /\ api'.kind = api.kind
      /\ api'.prog = api.prog /\ api'.pc = api.pc + 1
      /\ api.prog \in Seq(Steps) /\ api.pc \in DOMAIN api.prog
      /\ api.mode # "idle"
  BY <1>1, AdvanceFacts
<1>3. api.mode \in {"fail", "cancel", "sweep"}
  <2> SUFFICES ASSUME api.mode = "start" PROVE FALSE
    BY <1>1, <1>2 DEF TypeOK, ApiStates
  <2>1. api.kind \in Kinds /\ api.prog = StartProgram(api.kind)
    BY DEF IInv, ApiInv
  <2> QED
    BY <1>1, <1>2, <2>1, StartIsWellFormed DEF WellFormedStart, Step
\* The event belongs to the class of the command that fails or is cancelled.
<1>4. e \in Subscriptions(api.kind)
  <2>1. CASE api.mode = "fail"
    BY <1>2, <2>1 DEF SubscribedInv, Step
  <2>2. CASE api.mode \in {"cancel", "sweep"}
    <3>1. api.kind \in Kinds /\ api.prog = CancelProgram(api.kind)
      BY <2>2 DEF IInv, ApiInv, CancelledByProxy, Kinds
    <3> QED
      BY <1>1, <1>2, <3>1, CancelCovers DEF Step
  <2> QED
    BY <1>3, <2>1, <2>2
<1>5. ASSUME NEW d \in Commands, phase[d] = "started"
      PROVE  e \notin Subscriptions(kind[d])
  <2>1. ~Conflict(api.kind, kind[d])
    <3>1. CASE api.mode = "fail"
      <4>1. /\ api.cmd \in Commands /\ api.kind = kind[api.cmd]
            /\ phase[api.cmd] = "starting" /\ api.cmd # d
        BY <1>5, <3>1 DEF IInv, ApiInv
      <4> QED
        BY <1>5, <4>1 DEF IInv, PhaseInv, Active
    <3>2. CASE api.mode \in {"cancel", "sweep"}
      BY <1>5, <3>2 DEF SubscribedInv
    <3> QED
      BY <1>3, <3>1, <3>2
  <2> QED
    BY <1>4, <2>1 DEF Conflict
<1>6. StartedIsSubscribed'
  <2> HIDE DEF e
  <2>1. ASSUME NEW d \in Commands, phase'[d] = "started" /\ kind'[d] # "RttCommand",
               NEW x \in Subscriptions(kind'[d])
        PROVE  Has(event_cb', d, x)
    <3>1. x # e /\ Has(event_cb, d, x)
      BY <1>1, <1>5, <2>1 DEF SubscribedInv, StartedIsSubscribed, Has
    <3> QED
      BY <1>1, <3>1, KeptByUnregister
  <2> QED
    BY <2>1, Zenon DEF StartedIsSubscribed, Has
<1> HIDE DEF e
<1> QED
  BY <1>1, <1>2, <1>3, <1>6 DEF SubscribedInv

LEMMA AttemptSubscribes ==
    ASSUME IInv, SubscribedInv, AttemptSucceeds \/ AttemptFails
    PROVE  SubscribedInv'
<1>1. /\ TypeOK /\ Running /\ Step.op = "attempt"
      /\ event_cb' = event_cb /\ phase' = phase /\ kind' = kind
  BY DEF IInv, AttemptSucceeds, AttemptFails
<1>2. StartedIsSubscribed'
  BY <1>1, StartedKept DEF SubscribedInv
<1>3. CASE AttemptSucceeds
  <2>1. /\ api'.mode = api.mode /\ api'.cmd = api.cmd /\ api'.kind = api.kind
        /\ api'.prog = api.prog /\ api'.pc = api.pc + 1
        /\ api.prog \in Seq(Steps) /\ api.pc \in DOMAIN api.prog
    BY <1>1, <1>3, AdvanceFacts DEF AttemptSucceeds
  <2>2. RegisteredBefore(api.prog, api.pc + 1) \subseteq RegisteredBefore(api.prog, api.pc)
    BY <1>1, <2>1, RegisteredByStep DEF Step
  <2> QED
    BY <1>1, <1>2, <2>1, <2>2 DEF SubscribedInv, Has
<1>4. CASE AttemptFails
  <2> DEFINE P == api.prog
             n == api.pc
             k == api.kind
             U == UndoProgram(P[n].undo)
  <2>1. /\ api \in ApiStates /\ P \in Seq(Steps) /\ n \in DOMAIN P /\ api.mode = "start"
        /\ api' = [api EXCEPT !.mode = "fail", !.prog = U, !.pc = 1]
    BY <1>1, <1>4 DEF AttemptFails, TypeOK, ApiStates, Running, Step
  <2>2. api'.mode = "fail" /\ api'.prog = U /\ api'.kind = k
    BY <2>1 DEF ApiStates
  <2>3. k \in Kinds /\ P = StartProgram(k) /\ P[n].op = "attempt"
    BY <1>1, <2>1 DEF IInv, ApiInv, Step
  <2>4. \A i \in DOMAIN U : U[i].ev \in Subscriptions(k)
    <3> HIDE DEF P, n, k
    <3> QED
      BY <2>1, <2>3, UndoCovers
  <2> HIDE DEF U
  <2> QED
    BY <1>2, <2>2, <2>4 DEF SubscribedInv
<1> QED
  BY <1>3, <1>4

LEMMA FinishStartSubscribes ==
    ASSUME IInv, SubscribedInv, FinishStart
    PROVE  SubscribedInv'
<1> DEFINE c == api.cmd
<1>1. /\ TypeOK /\ api.mode = "start" /\ api.pc > Len(api.prog) /\ api'.mode = "idle"
      /\ event_cb' = event_cb /\ kind' = kind
      /\ phase' = [phase EXCEPT ![c] = IF @ = "starting" THEN "started" ELSE @]
  BY IdleFacts DEF IInv, FinishStart, Finished
<1>2. /\ c \in Commands /\ api.kind = kind[c] /\ api.kind \in Kinds
      /\ api.prog = StartProgram(api.kind) /\ api.pc \in Nat
  BY <1>1 DEF IInv, ApiInv, TypeOK, ApiStates
<1>3. ASSUME NEW d \in Commands, phase'[d] = "started" /\ kind[d] # "RttCommand",
             NEW x \in Subscriptions(kind[d])
      PROVE  Has(event_cb, d, x)
  <2>1. CASE phase[d] = "started"
    BY <1>3, <2>1 DEF SubscribedInv, StartedIsSubscribed, Has
  <2>2. CASE phase[d] # "started"
    <3>1. d = c /\ phase[c] = "starting"
      BY <1>1, <1>2, <1>3, <2>2 DEF TypeOK
    <3>2. x \in RegisteredBefore(api.prog, api.pc)
      BY <1>1, <1>2, <1>3, <3>1, RegisteredAtEnd
    <3> QED
      BY <1>1, <1>2, <1>3, <3>1, <3>2 DEF SubscribedInv
  <2> QED
    BY <2>1, <2>2
<1>4. StartedIsSubscribed'
  BY <1>1, <1>3, Zenon DEF StartedIsSubscribed, Has
<1> QED
  BY <1>1, <1>4 DEF SubscribedInv

LEMMA RttCompleteSubscribes ==
    ASSUME IInv, SubscribedInv, RttComplete
    PROVE  SubscribedInv'
<1>1. /\ TypeOK /\ event_cb' = UnregisterHandler(event_cb, "RTT_COMPLETE")
      /\ phase' = [phase EXCEPT ![loop.cmd] = "done"]
      /\ kind' = kind /\ api' = api
  BY DEF IInv, RttComplete
<1>2. ASSUME NEW d \in Commands, phase'[d] = "started" \/ phase'[d] = "starting"
      PROVE  phase[d] = phase'[d]
  BY <1>1, <1>2 DEF TypeOK
<1>3. ASSUME NEW d \in Commands, kind[d] # "RttCommand", phase[d] # "unborn",
             NEW x \in Subscriptions(kind[d]), Has(event_cb, d, x)
      PROVE  Has(event_cb', d, x)
  <2>1. kind[d] \in Kinds
    BY <1>3 DEF IInv, PhaseInv
  <2>2. x # "RTT_COMPLETE"
    BY <1>3, <2>1, RttAlone
  <2> QED
    BY <1>1, <1>3, <2>2, KeptByUnregister
<1>4. StartedIsSubscribed'
  <2>1. ASSUME NEW d \in Commands, phase'[d] = "started" /\ kind'[d] # "RttCommand",
               NEW x \in Subscriptions(kind'[d])
        PROVE  Has(event_cb', d, x)
    <3>1. phase[d] = "started" /\ kind'[d] = kind[d]
      BY <1>1, <1>2, <2>1
    <3>2. Has(event_cb, d, x)
      BY <2>1, <3>1 DEF SubscribedInv, StartedIsSubscribed, Has
    <3> QED
      BY <1>3, <2>1, <3>1, <3>2
  <2> QED
    BY <2>1, Zenon DEF StartedIsSubscribed, Has
<1>5. ASSUME api.mode = "start", phase'[api.cmd] = "starting", api.kind # "RttCommand",
             NEW x \in RegisteredBefore(api.prog, api.pc)
      PROVE  Has(event_cb', api.cmd, x)
  <2>1. /\ api.cmd \in Commands /\ api.kind = kind[api.cmd] /\ api.kind \in Kinds
        /\ api.prog = StartProgram(api.kind) /\ api.pc \in Nat
    BY <1>1, <1>5 DEF IInv, ApiInv, TypeOK, ApiStates
  <2>2. phase[api.cmd] = "starting"
    BY <1>2, <1>5, <2>1
  <2>3. x \in Subscriptions(kind[api.cmd])
    BY <1>5, <2>1, RegisteredAtEnd
  <2>4. Has(event_cb, api.cmd, x)
    BY <1>5, <2>2 DEF SubscribedInv
  <2> QED
    BY <1>3, <1>5, <2>1, <2>2, <2>3, <2>4
<1> QED
  BY <1>1, <1>2, <1>4, <1>5 DEF SubscribedInv, Has

LEMMA StepSubscribed ==
    ASSUME OneUserPerEvent, Cardinality(Events) <= AllocEventCb,
           IInv, SubscribedInv, [Next]_vars
    PROVE  SubscribedInv'
<1>0. TypeOK
  BY DEF IInv
<1>1. ASSUME NEW c \in Commands, NEW k \in Kinds, Start(c, k)
      PROVE  SubscribedInv'
  <2>1. /\ event_cb' = event_cb /\ phase' = [phase EXCEPT ![c] = "starting"]
        /\ kind' = [kind EXCEPT ![c] = k]
        /\ api'.mode = "start" /\ api'.prog = StartProgram(k) /\ api'.pc = 1
    BY <1>1 DEF Start
  <2>2. StartedIsSubscribed'
    BY <1>0, <2>1, StartedKept DEF SubscribedInv, TypeOK
  <2>3. RegisteredBefore(api'.prog, api'.pc) = {}
    BY <2>1, RegisteredBeforeFirst, StartIsWellFormed DEF WellFormedStart
  <2> QED
    BY <2>1, <2>2, <2>3 DEF SubscribedInv
<1>2. ASSUME NEW c \in Commands, Cancel(c)
      PROVE  SubscribedInv'
  <2>1. /\ event_cb' = event_cb /\ kind' = kind
        /\ phase' = [phase EXCEPT ![c] = IF @ = "started" THEN "stopping" ELSE @]
        /\ api'.mode = "cancel" /\ api'.kind = kind[c]
    BY <1>2 DEF Cancel
  <2>2. \A d \in Commands : phase'[d] = "started" => phase[d] = "started" /\ d # c
    BY <1>0, <2>1 DEF TypeOK
  <2>3. \A d \in Commands : phase[d] = "started" => d = c \/ ~Conflict(kind[c], kind[d])
    BY <1>2 DEF Cancel, MayStop
  <2>4. StartedIsSubscribed'
    BY <2>1, <2>2, StartedKept DEF SubscribedInv
  <2> QED
    BY <2>1, <2>2, <2>3, <2>4 DEF SubscribedInv
<1>3. ASSUME NEW k \in CancelledByProxy, CancelByProxy(k)
      PROVE  SubscribedInv'
  <2>1. /\ event_cb' = event_cb /\ kind' = kind
        /\ phase' = [c \in Commands |->
                        IF phase[c] = "started" /\ kind[c] = k THEN "sweeping"
                                                               ELSE phase[c]]
        /\ api'.mode = "sweep" /\ api'.kind = k
    BY <1>3 DEF CancelByProxy
  <2>2. \A d \in Commands : phase'[d] = "started" => phase[d] = "started" /\ kind[d] # k
    BY <2>1
  <2>3. \A d \in Commands : phase[d] = "started" => kind[d] = k \/ ~Conflict(k, kind[d])
    BY <1>3 DEF CancelByProxy, MaySweep
  <2>4. StartedIsSubscribed'
    BY <2>1, <2>2, StartedKept DEF SubscribedInv
  <2> QED
    BY <2>1, <2>2, <2>3, <2>4 DEF SubscribedInv
\* A call that ends without a started command.
<1>4. CASE FinishFailedStart \/ FinishCancel \/ FinishProxy
  <2>1. event_cb' = event_cb /\ kind' = kind /\ api'.mode = "idle"
    BY <1>4, IdleFacts DEF FinishFailedStart, FinishCancel, FinishProxy
  <2>2. \A d \in Commands : phase'[d] = "started" => phase[d] = "started"
    BY <1>0, <1>4 DEF FinishFailedStart, FinishCancel, FinishProxy, TypeOK
  <2>3. StartedIsSubscribed'
    BY <2>1, <2>2, StartedKept DEF SubscribedInv
  <2> QED
    BY <2>1, <2>3 DEF SubscribedInv
\* Steps that touch neither the list nor a phase nor the framework's thread.
<1>5. ASSUME UNCHANGED <<event_cb, kind, phase, api>>
      PROVE  SubscribedInv'
  BY <1>5 DEF SubscribedInv, StartedIsSubscribed, Has
<1>6. CASE ApiStep
  BY <1>4, <1>6, RegisterSubscribes, UnregisterSubscribes, AttemptSubscribes,
     FinishStartSubscribes DEF ApiStep
<1>7. CASE LoopStep
  BY <1>5, <1>7, RttCompleteSubscribes
  DEF LoopStep, HandleEvent, RttUnlist, RttDrop, Release
<1>8. ASSUME NEW e \in Events, Dispatch(e)
      PROVE  SubscribedInv'
  BY <1>5, <1>8 DEF Dispatch
<1>9. CASE UNCHANGED vars
  BY <1>5, <1>9 DEF vars
<1> QED
  BY <1>1, <1>2, <1>3, <1>6, <1>7, <1>8, <1>9 DEF Next, ApiCall

\* A started command keeps every handler it registered until its own cancel,
\* whatever the calls, failures and completions of the others.  The list needs
\* room for one handler of each event (the code allocates 64).
THEOREM StartedKeepsHandlers ==
    ASSUME OneUserPerEvent, Cardinality(Events) <= AllocEventCb
    PROVE  Spec => []StartedIsSubscribed
<1>1. SubscribedInv => StartedIsSubscribed
  BY DEF SubscribedInv
<1> QED
  BY <1>1, InitSubscribed, StepSubscribed, Invariance, PTL DEF Spec

-----------------------------------------------------------------------------
(***************************************************************************)
(* WifiHal implements CommandLife.                                         *)
(***************************************************************************)

\* A step that changes nobody's status and keeps the event thread where it is
\* is a stutter of CommandLife.
LEMMA Stutter ==
    ASSUME \A d \in Commands : Status(d)' = Status(d),
           loop'.cmd = loop.cmd
    PROVE  UNCHANGED <<[c \in Commands |-> Status(c)], loop.cmd>>
<1>1. [c \in Commands |-> Status(c)]' = [c \in Commands |-> Status(c)']
  OBVIOUS
<1> QED
  BY <1>1

\* A step that gives the callable commands of S the status r.
LEMMA Stops ==
    ASSUME NEW S \in SUBSET Commands, NEW r \in {"stopped", "freed"},
           \A d \in S : Status(d) \in {"callable", "stopped"} /\ Status(d)' = r,
           \A d \in Commands \ S : Status(d)' = Status(d),
           r = "freed" => loop.cmd \notin S,
           loop'.cmd = loop.cmd
    PROVE  Life!Next
<1>1. [c \in Commands |-> Status(c)]'
        = [c \in Commands |-> IF c \in S THEN r ELSE [d \in Commands |-> Status(d)][c]]
  OBVIOUS
<1>2. Life!Stop(S, r)
  BY <1>1 DEF Life!Stop
<1> QED
  BY <1>2 DEF Life!Next

LEMMA InitLife == Init => Life!Init
<1> SUFFICES ASSUME Init PROVE Life!Init
  OBVIOUS
<1>1. \A c \in Commands : Status(c) = "unborn"
  BY DEF Init, Status
<1>2. loop.cmd = NoCommand
  BY DEF Init, Waiting
<1> QED
  BY <1>1, <1>2 DEF Life!Init

LEMMA StepLife ==
    ASSUME IInv, IInv', [Next]_vars
    PROVE  [Life!Next]_<<[c \in Commands |-> Status(c)], loop.cmd>>
<1> DEFINE LifeVars == <<[c \in Commands |-> Status(c)], loop.cmd>>
<1>1. TypeOK
  BY DEF IInv
<1>2. ASSUME NEW c \in Commands, NEW k \in Kinds, Start(c, k)
      PROVE  Life!Next
  <2>1. Status(c) = "unborn" /\ Status(c)' = "callable"
    BY <1>1, <1>2 DEF Start, Status, Active, TypeOK
  <2>2. \A d \in Commands \ {c} : Status(d)' = Status(d)
    BY <1>1, <1>2 DEF Start, Status, TypeOK
  <2>3. loop' = loop
    BY <1>2 DEF Start
  <2>4. [d \in Commands |-> Status(d)]'
          = [[d \in Commands |-> Status(d)] EXCEPT ![c] = "callable"]
    BY <2>1, <2>2
  <2>5. Life!Create(c)
    BY <2>1, <2>3, <2>4 DEF Life!Create
  <2> QED
    BY <2>5 DEF Life!Next
<1>3. ASSUME NEW c \in Commands, Cancel(c)
      PROVE  UNCHANGED LifeVars
  <2>1. \A d \in Commands : Status(d)' = Status(d)
    BY <1>1, <1>3 DEF Cancel, Status, Active, TypeOK
  <2> QED
    BY <1>3, <2>1, Stutter DEF Cancel
<1>4. ASSUME NEW k \in CancelledByProxy, CancelByProxy(k)
      PROVE  UNCHANGED LifeVars
  <2>1. \A d \in Commands : Status(d)' = Status(d)
    BY <1>1, <1>4 DEF CancelByProxy, Status, Active, TypeOK
  <2> QED
    BY <1>4, <2>1, Stutter DEF CancelByProxy
<1>5. ASSUME UNCHANGED <<mRefs, phase, loop>>
      PROVE  UNCHANGED LifeVars
  <2>1. \A d \in Commands : Status(d)' = Status(d)
    BY <1>5 DEF Status
  <2> QED
    BY <1>5, <2>1, Stutter
<1>6. CASE FinishStart
  <2>1. api.cmd \in Commands
    BY <1>6 DEF FinishStart, Finished, IInv, ApiInv
  <2>2. \A d \in Commands : Status(d)' = Status(d)
    BY <1>1, <1>6, <2>1 DEF FinishStart, Status, Active, TypeOK
  <2> QED
    BY <1>6, <2>2, Stutter DEF FinishStart
<1>7. CASE FinishFailedStart
  <2>1. PICK c \in Commands : c = api.cmd /\ phase[c] = "starting"
    BY <1>7 DEF FinishFailedStart, Finished, IInv, ApiInv
  <2>2. mRefs[c] > 0
    BY <2>1 DEF IInv, RefsInv, Active, InFlight
  <2>3. Status(c) = "callable" /\ Status(c)' = "stopped"
    BY <1>1, <1>7, <2>1, <2>2 DEF FinishFailedStart, Status, Active, TypeOK
  <2>4. \A d \in Commands \ {c} : Status(d)' = Status(d)
    BY <1>1, <1>7, <2>1 DEF FinishFailedStart, Status, TypeOK
  <2>5. loop' = loop
    BY <1>7 DEF FinishFailedStart
  <2> QED
    BY <2>1, <2>3, <2>4, <2>5, Stops
<1>8. CASE FinishCancel
  <2>1. PICK c \in Commands : c = api.cmd /\ phase[c] \in {"stopping", "orphaned", "failed"}
    BY <1>8 DEF FinishCancel, Finished, IInv, ApiInv
  <2>2. /\ phase' = [phase EXCEPT ![c] = "cancelled"]
        /\ mRefs' = [mRefs EXCEPT ![c] = @ - 1]
        /\ loop' = loop
    BY <1>8, <2>1 DEF FinishCancel
  <2>3. mRefs'[c] = InFlight(c)
    <3>1. mRefs[c] = 1 + InFlight(c) /\ InFlight(c) \in {0, 1}
      BY <2>1 DEF IInv, RefsInv, Active, InFlight
    <3> QED
      BY <1>1, <2>1, <2>2, <3>1 DEF TypeOK
  <2>4. PICK r \in {"stopped", "freed"} : r = IF loop.cmd = c THEN "stopped" ELSE "freed"
    OBVIOUS
  <2>5. Status(c) \in {"callable", "stopped"} /\ Status(c)' = r
    <3>1. mRefs[c] > 0
      BY <2>1 DEF IInv, RefsInv, Active, InFlight
    <3> QED
      BY <1>1, <2>1, <2>2, <2>3, <2>4, <3>1 DEF Status, Active, TypeOK, InFlight
  <2>6. \A d \in Commands \ {c} : Status(d)' = Status(d)
    BY <1>1, <2>1, <2>2 DEF Status, TypeOK
  <2>7. r = "freed" => loop.cmd \notin {c}
    BY <2>4
  <2> QED
    BY <2>1, <2>2, <2>5, <2>6, <2>7, Stops
<1>9. CASE FinishProxy
  <2> DEFINE S == {d \in Commands : phase[d] = "sweeping"}
  <2>1. \A d \in S : mRefs[d] > 0
    BY DEF IInv, RefsInv, Active, InFlight
  <2>2. \A d \in S : Status(d) = "callable" /\ Status(d)' = "stopped"
    BY <1>9, <2>1 DEF FinishProxy, Status, Active
  <2>3. \A d \in Commands \ S : Status(d)' = Status(d)
    BY <1>9 DEF FinishProxy, Status
  <2>4. loop' = loop /\ S \in SUBSET Commands
    BY <1>9 DEF FinishProxy
  <2> HIDE DEF S
  <2> QED
    BY <2>2, <2>3, <2>4, Stops
<1>10. CASE ApiStep
  <2>1. CASE RegisterStep \/ UnregisterStep \/ AttemptSucceeds \/ AttemptFails
    BY <1>5, <2>1 DEF RegisterStep, UnregisterStep, AttemptSucceeds, AttemptFails
  <2> QED
    BY <1>6, <1>7, <1>8, <1>9, <1>10, <2>1 DEF ApiStep
<1>11. ASSUME NEW e \in Events, Dispatch(e)
       PROVE  Life!Next
  <2>1. event_cb \in Seq(Handlers) /\ FirstHandler(e) # NoCommand
    BY <1>1, <1>11 DEF Dispatch, TypeOK
  <2>2. PICK i \in DOMAIN event_cb : FirstHandler(e) = event_cb[i].cmd
    BY <2>1, FirstHandlerFacts
  <2>3. PICK c \in Commands : c = FirstHandler(e) /\ phase[c] \in Active
    BY <1>1, <2>2, Members DEF IInv, HandlersInv
  <2>4. /\ loop.cmd = NoCommand /\ loop'.cmd = c /\ phase' = phase
        /\ mRefs' = [mRefs EXCEPT ![c] = @ + 1]
    BY <1>11, <2>3 DEF Dispatch, IInv, LoopInv
  <2>5. Status(c) = "callable" /\ Status(c)' = "callable"
    BY <2>3, <2>4 DEF Status, Active
  <2>6. \A d \in Commands : Status(d)' = Status(d)
    BY <1>1, <2>3, <2>4, <2>5 DEF Status, TypeOK
  <2>7. Life!Call(c)
    BY <2>3, <2>4, <2>5, <2>6 DEF Life!Call
  <2> QED
    BY <2>7 DEF Life!Next
<1>12. CASE HandleEvent \/ RttUnlist
  <2>1. loop'.cmd = loop.cmd /\ mRefs' = mRefs /\ phase' = phase
    BY <1>1, <1>12 DEF HandleEvent, RttUnlist, TypeOK, LoopStates
  <2>2. \A d \in Commands : Status(d)' = Status(d)
    BY <2>1 DEF Status
  <2> QED
    BY <2>1, <2>2, Stutter
<1>13. CASE RttComplete
  <2>1. PICK c \in Commands :
           /\ c = loop.cmd
           /\ phase[c] \in {"starting", "started", "sweeping", "orphaned"}
    BY <1>1, <1>13, Members DEF RttComplete, IInv, LoopInv
  <2>2. mRefs[c] > 0
    BY <2>1 DEF IInv, RefsInv, Active, InFlight
  <2>3. /\ phase' = [phase EXCEPT ![c] = "done"]
        /\ mRefs' = mRefs /\ loop'.cmd = loop.cmd
    BY <1>1, <1>13, <2>1 DEF RttComplete, TypeOK, LoopStates
  <2>4. Status(c)' = "stopped"
    BY <1>1, <2>1, <2>2, <2>3 DEF Status, Active, TypeOK
  <2>5. \A d \in Commands \ {c} : Status(d)' = Status(d)
    BY <1>1, <2>1, <2>3 DEF Status, TypeOK
  <2>6. CASE phase[c] = "orphaned"
    <3>1. Status(c) = "stopped"
      BY <2>2, <2>6 DEF Status, Active
    <3> QED
      BY <2>3, <2>4, <2>5, <3>1, Stutter
  <2>7. CASE phase[c] # "orphaned"
    <3>1. Status(c) = "callable"
      BY <2>1, <2>7 DEF Status, Active
    <3> QED
      BY <2>1, <2>3, <2>4, <2>5, <3>1, Stops
  <2> QED
    BY <2>6, <2>7
<1>14. CASE RttDrop
  <2>1. PICK c \in Commands : c = loop.cmd /\ phase[c] = "done" /\ mRefs[c] = 2
    BY <1>1, <1>14, Members DEF RttDrop, IInv, LoopInv, RefsInv
  <2>2. /\ mRefs' = [mRefs EXCEPT ![c] = @ - 1]
        /\ phase' = phase /\ loop'.cmd = loop.cmd
    BY <1>1, <1>14, <2>1 DEF RttDrop, TypeOK, LoopStates
  <2>3. mRefs'[c] = 1 /\ \A d \in Commands : d # c => mRefs'[d] = mRefs[d]
    BY <1>1, <2>1, <2>2 DEF TypeOK
  <2>4. \A d \in Commands : Status(d)' = Status(d)
    BY <2>1, <2>2, <2>3 DEF Status
  <2> QED
    BY <2>2, <2>4, Stutter
<1>15. CASE Release
  <2>1. PICK c \in Commands : c = loop.cmd /\ phase[c] # "unborn" /\ phase[c] \in Phases
    BY <1>1, <1>15, Members DEF Release, IInv, LoopInv, TypeOK
  <2>2. /\ mRefs' = [mRefs EXCEPT ![c] = @ - 1]
        /\ phase' = phase /\ loop'.cmd = NoCommand
    BY <1>15, <2>1 DEF Release, Waiting
  <2>3. c # NoCommand
    BY <2>1, ConstantsAssumption
  <2>4. mRefs[c] \in Nat /\ mRefs[c] >= 1
    <3>1. mRefs[c] \in Nat /\ InFlight(c) = 1 /\ loop.pc \notin {"notify", "drop"}
      BY <1>1, <1>15, <2>1 DEF TypeOK, InFlight, Release
    <3> QED
      BY <2>1, <3>1 DEF IInv, RefsInv, Active, Phases
  <2>5. mRefs'[c] = mRefs[c] - 1 /\ \A d \in Commands : d # c => mRefs'[d] = mRefs[d]
    BY <1>1, <2>1, <2>2 DEF TypeOK
  <2>6. \A d \in Commands : d # c => Status(d)' = Status(d)
    BY <2>2, <2>5 DEF Status
  <2>7. Status(c)' = Status(c) \/ (Status(c) = "stopped" /\ Status(c)' = "freed")
    BY <2>1, <2>2, <2>4, <2>5 DEF Status
  <2>8. CASE Status(c)' = Status(c)
    <3>1. [d \in Commands |-> Status(d)]' = [d \in Commands |-> Status(d)]
      BY <2>6, <2>8
    <3>2. Life!Return
      BY <2>1, <2>2, <2>3, <3>1 DEF Life!Return
    <3> QED
      BY <3>2 DEF Life!Next
  <2>9. CASE Status(c) = "stopped" /\ Status(c)' = "freed"
    <3>1. [d \in Commands |-> Status(d)]'
            = [[d \in Commands |-> Status(d)] EXCEPT ![c] = "freed"]
      BY <2>1, <2>6, <2>9
    <3>2. Life!Return
      BY <2>1, <2>2, <2>3, <2>9, <3>1 DEF Life!Return
    <3> QED
      BY <3>2 DEF Life!Next
  <2> QED
    BY <2>7, <2>8, <2>9
<1>16. CASE LoopStep
  BY <1>12, <1>13, <1>14, <1>15, <1>16 DEF LoopStep
<1>17. CASE UNCHANGED vars
  BY <1>5, <1>17 DEF vars
<1> QED
  BY <1>2, <1>3, <1>4, <1>10, <1>11, <1>16, <1>17 DEF Next, ApiCall

\* Events reach a command only between its creation and its stop, and its
\* memory goes when neither thread uses it any more: every behaviour of the
\* handler list, the table and the reference counts is one of CommandLife.
THEOREM Refinement ==
    ASSUME OneUserPerEvent
    PROVE  Spec => ImplementsCommandLife
BY InitLife, StepLife, Invariance, PTL DEF Spec, ImplementsCommandLife, Life!Spec
=============================================================================
