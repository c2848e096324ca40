------------------------- MODULE WpaDriverCmdProofs --------------------------
(***************************************************************************)
(* What a caller of a driver command was told is in effect, the channels   *)
(* follow the country, the framework knows the state of the interface, and *)
(* statistics are of the station asked for, for any countries, stations    *)
(* and limits.  The argument: a command changes one topic of the driver    *)
(* and tells its caller of that topic and no other, and what changes the   *)
(* driver behind the callers' backs happens when there are none.           *)
(***************************************************************************)
EXTENDS WpaDriverCmd, TLAPS

\* The settings of a topic are settings, and none of them is None.
LEMMA SettingsFacts ==
    ASSUME NEW t \in Topics, NEW s \in Settings[t]
    PROVE  s \in AnySetting /\ s # None
BY WpaAssumption DEF WpaAssumption, Settings, Topics, AnySetting, None

\* A reply without statistics is a reply, and its statistics are of its station.
LEMMA AnswerFacts ==
    ASSUME NEW ret \in {"-1", "0", "OK", "FAIL", "text"}
    PROVE  /\ Answer(ret) \in [ret : {"-1", "0", "OK", "FAIL", "text"},
                               sta : Stations \cup {None},
                               statistics : [Attributes -> Stations \cup {None}]]
           /\ \A a \in Attributes : Answer(ret).statistics[a] = None
           /\ Answer(ret).sta = None
BY DEF Answer, NoStatistics, Zero

\* The part of the invariant that is about the reply.
ReplyInv ==
    /\ reply \in [ret : {"-1", "0", "OK", "FAIL", "text"},
                  sta : Stations \cup {None},
                  statistics : [Attributes -> Stations \cup {None}]]
    /\ StatisticsOfStation

\* The part that is about what was granted and what the driver was given.
GrantInv ==
    /\ driver \in [Topics -> AnySetting]
    /\ granted \in [Topics -> AnySetting]
    /\ \A t \in Topics : driver[t] \in Settings[t] \cup {None}
    /\ GrantedIsInEffect

LEMMA AnswerKeeps ==
    ASSUME NEW ret \in {"-1", "0", "OK", "FAIL", "text"}, reply' = Answer(ret)
    PROVE  ReplyInv'
BY AnswerFacts DEF ReplyInv, StatisticsOfStation

\* A command that gives the driver s for topic t and tells its caller so keeps
\* the reply and what was granted in order, if the driver has s whenever the
\* caller is told so.
LEMMA TellKeeps ==
    ASSUME GrantInv, NEW t \in Topics, NEW s \in Settings[t],
           NEW ret \in {"-1", "0", "OK", "FAIL"}, Tell(t, s, ret),
           driver' = driver \/ driver' = [driver EXCEPT ![t] = s],
           t # "switch" /\ ret \in {"0", "OK"} => driver' = [driver EXCEPT ![t] = s]
    PROVE  GrantInv' /\ ReplyInv'
<1>1. s \in AnySetting /\ None \in AnySetting
  BY SettingsFacts DEF AnySetting
<1>2. ReplyInv'
  BY AnswerKeeps DEF Tell
<1>3. /\ driver' \in [Topics -> AnySetting]
      /\ \A u \in Topics : driver'[u] \in Settings[u] \cup {None}
  BY <1>1 DEF GrantInv
<1>4. granted' \in [Topics -> AnySetting]
  BY <1>1 DEF GrantInv, Tell
<1>5. ASSUME NEW u \in Topics \ {"switch"}, granted'[u] # None
      PROVE  driver'[u] = granted'[u]
  <2>1. CASE u = t
    BY <2>1, <1>5 DEF GrantInv, Tell
  <2>2. CASE u # t
    <3>1. granted'[u] = granted[u] /\ driver'[u] = driver[u]
      BY <2>2 DEF GrantInv, Tell
    <3> QED
      BY <3>1, <1>5 DEF GrantInv, GrantedIsInEffect
  <2> QED
    BY <2>1, <2>2
<1> QED
  BY <1>2, <1>3, <1>4, <1>5 DEF GrantInv, GrantedIsInEffect

-----------------------------------------------------------------------------
\* The first supplicant is not started yet.
LEMMA InitIInv == Init => IInv
<1> SUFFICES ASSUME Init PROVE IInv
  OBVIOUS
<1>1. ReplyInv
  BY AnswerFacts DEF Init, ReplyInv, StatisticsOfStation
<1>2. /\ driver \in [Topics -> AnySetting]
      /\ granted \in [Topics -> AnySetting]
      /\ \A t \in Topics : driver[t] \in Settings[t] \cup {None}
  BY DEF Init, Settings, AnySetting
<1>3. /\ drv_errors \in 0..NumErrors
      /\ row \in 0..MaxRow
  BY WpaAssumption DEF WpaAssumption, Init
<1>4. TypeOK
  BY <1>1, <1>2, <1>3 DEF ReplyInv, TypeOK, Init
<1> QED
  BY <1>1, <1>4 DEF IInv, ReplyInv, Init, Silent, GrantedIsInEffect,
     ChannelsFollowCountry, ToldIsState

\* The counters stay in their types in a private command.
LEMMA CountersKept ==
    ASSUME IInv, NEW t, NEW s, NEW d, PrivateCommand(d, t, s)
    PROVE  drv_errors' \in 0..NumErrors /\ row' \in 0..MaxRow
<1>1. /\ NumErrors \in Nat /\ MaxRow \in Nat
      /\ drv_errors \in 0..NumErrors /\ row \in 0..MaxRow
  BY WpaAssumption DEF WpaAssumption, IInv, TypeOK
<1>2. CASE PrivateOk
  BY <1>1, <1>2 DEF PrivateOk
<1>3. CASE row < MaxRow /\ row' = row + 1 /\ SendHangMsg
  BY <1>1, <1>3 DEF SendHangMsg
<1> QED
  BY <1>2, <1>3 DEF PrivateCommand

\* A private command tells its caller what the private ioctl did, which comes
\* last.
LEMMA PrivateKeeps ==
    ASSUME GrantInv, NEW t \in {"suspend", "string"}, NEW s \in Settings[t],
           NEW accepts \in BOOLEAN,
           PrivateCommand(After(driver, t, s, accepts), t, s)
    PROVE  GrantInv' /\ ReplyInv' /\ driver'["country"] = driver["country"]
             /\ driver'["flag"] = driver["flag"]
<1>1. t \in Topics
  BY DEF Topics
<1>2. PICK ret \in {"OK", "FAIL"} :
        /\ Tell(t, s, ret)
        /\ driver' = driver \/ driver' = [driver EXCEPT ![t] = s]
        /\ ret = "OK" => driver' = [driver EXCEPT ![t] = s]
  BY <1>1 DEF PrivateCommand, After, GrantInv
<1>3. GrantInv' /\ ReplyInv'
  BY <1>1, <1>2, TellKeeps
<1> QED
  BY <1>1, <1>2, <1>3 DEF GrantInv, Topics

\* A command that flags the interface keeps what was granted, the reply and
\* what the framework was told.
LEMMA SetFlagsKeeps ==
    ASSUME GrantInv, ToldIsState, told \in {"up", "down", None},
           NEW s \in {"up", "down"}, SetFlags(s)
    PROVE  /\ GrantInv' /\ ReplyInv' /\ ToldIsState'
           /\ told' \in {"up", "down", None}
           /\ driver'["country"] = driver["country"]
<1>1. "flag" \in Topics /\ s \in Settings["flag"]
  BY DEF Topics, Settings
<1>2. PICK accepts \in BOOLEAN :
        /\ driver' = After(driver, "flag", s, accepts)
        /\ told' = IF accepts THEN s ELSE told
        /\ Tell("flag", s, IF accepts THEN "0" ELSE "-1")
  BY DEF SetFlags
<1>3. GrantInv' /\ ReplyInv'
  BY <1>1, <1>2, TellKeeps DEF After
<1> QED
  BY <1>1, <1>2, <1>3 DEF After, GrantInv, ToldIsState, Topics

\* A command that sets one of the topics the supplicant keeps no copy of.
LEMMA OtherTopicKeeps ==
    ASSUME GrantInv, NEW t \in {"filter", "switch"}, NEW s \in Settings[t],
           NEW accepts \in BOOLEAN, driver' = After(driver, t, s, accepts),
           NEW ret \in {"-1", "0"}, Tell(t, s, ret),
           t = "filter" => ret = IF accepts THEN "0" ELSE "-1"
    PROVE  /\ GrantInv' /\ ReplyInv'
           /\ driver'["country"] = driver["country"]
           /\ driver'["flag"] = driver["flag"]
<1>1. t \in Topics
  BY DEF Topics
<1>2. GrantInv' /\ ReplyInv'
  BY <1>1, TellKeeps DEF After
<1> QED
  BY <1>1, <1>2 DEF After, GrantInv, Topics

-----------------------------------------------------------------------------
\* Every step keeps the invariant.
LEMMA NextIInv == IInv /\ [Next]_vars => IInv'
<1> SUFFICES ASSUME IInv, [Next]_vars PROVE IInv'
  OBVIOUS
<1>0. GrantInv /\ ReplyInv
  BY DEF IInv, TypeOK, GrantInv, ReplyInv
<1>a. /\ ready \in BOOLEAN /\ associated \in BOOLEAN
      /\ drv_errors \in 0..NumErrors /\ row \in 0..MaxRow
      /\ channels \in Countries \cup {None}
      /\ told \in {"up", "down", None}
      /\ Silent /\ ChannelsFollowCountry /\ ToldIsState
  BY DEF IInv, TypeOK
<1>b. ASSUME GrantInv', ReplyInv', Silent', ChannelsFollowCountry', ToldIsState',
             ready' \in BOOLEAN, associated' \in BOOLEAN, drv_errors' \in 0..NumErrors,
             row' \in 0..MaxRow, channels' \in Countries \cup {None},
             told' \in {"up", "down", None}
      PROVE  IInv'
  BY <1>b DEF IInv, TypeOK, GrantInv, ReplyInv
<1>c. driver["country"] \in Countries \cup {None}
  BY <1>0 DEF GrantInv, Settings, Topics
<1>1. CASE Start
  <2>1. granted = [t \in Topics |-> None] /\ told = None
    BY <1>1, <1>a DEF Start, Silent
  <2>2. /\ driver' \in [Topics -> AnySetting]
        /\ driver'["country"] = driver["country"]
        /\ \A t \in Topics : driver'[t] \in Settings[t] \cup {None}
    BY <1>1, <1>0 DEF Start, GrantInv, AnySetting, Topics, Settings
  <2>3. GrantInv'
    BY <1>1, <1>0, <2>1, <2>2 DEF Start, GrantInv, GrantedIsInEffect
  <2>4. Silent' /\ ToldIsState' /\ ChannelsFollowCountry'
    BY <1>1, <2>1, <2>2 DEF Start, Silent, ToldIsState, ChannelsFollowCountry
  <2>5. ReplyInv'
    BY <1>1, <1>0 DEF Start, ReplyInv, StatisticsOfStation
  <2>6. 0 \in 0..NumErrors /\ 0 \in 0..MaxRow
    BY WpaAssumption DEF WpaAssumption
  <2> QED
    BY <1>1, <1>a, <1>b, <1>c, <2>3, <2>4, <2>5, <2>6 DEF Start
<1>2. CASE Stop
  <2>1. GrantInv'
    BY <1>2, <1>0 DEF Stop, GrantInv, GrantedIsInEffect, AnySetting
  <2>2. ReplyInv'
    BY <1>2, AnswerKeeps DEF Stop
  <2>3. Silent' /\ ToldIsState' /\ ChannelsFollowCountry'
    BY <1>2 DEF Stop, Silent, ToldIsState, ChannelsFollowCountry
  <2> QED
    BY <1>2, <1>a, <1>b, <2>1, <2>2, <2>3 DEF Stop
<1>3. CASE HalSetsCountry
  <2>1. PICK c \in Countries : driver' = [driver EXCEPT !["country"] = c]
    BY <1>3 DEF HalSetsCountry
  <2>2. /\ driver' \in [Topics -> AnySetting]
        /\ \A t \in Topics : driver'[t] \in Settings[t] \cup {None}
    BY <2>1, <1>0 DEF GrantInv, AnySetting, Topics, Settings
  <2>3. granted' = [t \in Topics |-> None] /\ told' = None /\ ~ready'
    BY <1>3, <1>a DEF HalSetsCountry, Silent
  <2>4. GrantInv'
    BY <1>3, <1>0, <2>2, <2>3 DEF HalSetsCountry, GrantInv, GrantedIsInEffect
  <2>5. Silent' /\ ToldIsState' /\ ChannelsFollowCountry'
    BY <2>3 DEF Silent, ToldIsState, ChannelsFollowCountry
  <2>6. ReplyInv'
    BY <1>3, <1>0 DEF HalSetsCountry, ReplyInv, StatisticsOfStation
  <2> QED
    BY <1>3, <1>a, <1>b, <2>4, <2>5, <2>6 DEF HalSetsCountry
<1>4. ASSUME UNCHANGED <<ready, drv_errors, channels, told, driver, granted, reply, row>>,
             associated' \in BOOLEAN
      PROVE  IInv'
  <2>1. GrantInv' /\ ReplyInv'
    BY <1>4, <1>0 DEF GrantInv, GrantedIsInEffect, ReplyInv, StatisticsOfStation
  <2>2. Silent' /\ ToldIsState' /\ ChannelsFollowCountry'
    BY <1>4, <1>a DEF Silent, ToldIsState, ChannelsFollowCountry
  <2> QED
    BY <1>4, <1>a, <1>b, <2>1, <2>2
<1>5. CASE Connection
  BY <1>4, <1>5 DEF Connection
<1>6. ASSUME UNCHANGED <<ready, drv_errors, associated, channels, told, driver, granted, row>>,
             ReplyInv'
      PROVE  IInv'
  <2>1. GrantInv'
    BY <1>6, <1>0 DEF GrantInv, GrantedIsInEffect
  <2>2. Silent' /\ ToldIsState' /\ ChannelsFollowCountry'
    BY <1>6, <1>a DEF Silent, ToldIsState, ChannelsFollowCountry
  <2> QED
    BY <1>6, <1>a, <1>b, <2>1, <2>2
<1>7. CASE NotReady \/ Unsupported \/ CountryIgnored \/ GetMacAddr
  <2>1. \E ret \in {"-1", "0", "text"} : reply' = Answer(ret)
    BY <1>7 DEF NotReady, Unsupported, CountryIgnored, GetMacAddr
  <2>2. ReplyInv'
    BY <2>1, AnswerKeeps
  <2> QED
    BY <1>6, <1>7, <2>2 DEF NotReady, Unsupported, CountryIgnored, GetMacAddr
<1>8. CASE GetStaStatistics
  <2>1. CASE reply' = Answer("-1")
    BY <1>6, <1>8, <2>1, AnswerKeeps DEF GetStaStatistics
  <2>2. ASSUME NEW sta \in Stations, NEW present \in SUBSET Attributes, NEW room \in 0..Lines,
               reply' = PrintStatistics(Handler(InitialStatistics, present, sta), sta, room)
        PROVE  IInv'
    <3>1. CASE room < Lines
      BY <1>6, <1>8, <2>2, <3>1, AnswerKeeps DEF GetStaStatistics, PrintStatistics
    <3>2. CASE ~(room < Lines)
      <4>1. reply' = [ret |-> "text", sta |-> sta,
                      statistics |-> Handler(InitialStatistics, present, sta)]
        BY <2>2, <3>2 DEF PrintStatistics
      <4>2. /\ Handler(InitialStatistics, present, sta) \in [Attributes -> Stations \cup {None}]
            /\ \A a \in Attributes :
                 Handler(InitialStatistics, present, sta)[a] \in {sta, None}
        BY DEF Handler, InitialStatistics, Zero
      <4>3. ReplyInv'
        BY <4>1, <4>2 DEF ReplyInv, StatisticsOfStation
      <4> QED
        BY <1>6, <1>8, <4>3 DEF GetStaStatistics
    <3> QED
      BY <3>1, <3>2
  <2> QED
    BY <1>8, <2>1, <2>2 DEF GetStaStatistics
<1>9. CASE Country
  <2>1. PICK c \in Countries, accepts \in BOOLEAN :
          /\ driver' = After(driver, "country", c, accepts)
          /\ Tell("country", c, IF accepts THEN "0" ELSE "-1")
          /\ channels' = IF accepts THEN c ELSE channels
    BY <1>9 DEF Country
  <2>2. "country" \in Topics /\ c \in Settings["country"]
    BY DEF Topics, Settings
  <2>3. GrantInv' /\ ReplyInv'
    BY <1>0, <2>1, <2>2, TellKeeps DEF After
  <2>4. driver'["flag"] = driver["flag"]
    BY <1>0, <2>1 DEF After, GrantInv, Topics
  <2>5. channels' \in Countries \cup {None} /\ ChannelsFollowCountry'
    BY <1>0, <1>a, <1>9, <2>1, <2>2 DEF Country, After, GrantInv, ChannelsFollowCountry
  <2>6. Silent' /\ ToldIsState'
    BY <1>9, <1>a, <2>4 DEF Country, Silent, ToldIsState
  <2> QED
    BY <1>9, <1>a, <1>b, <2>3, <2>5, <2>6 DEF Country
<1>10. CASE DriverStart \/ DriverStop
  <2>1. PICK s \in {"up", "down"} : SetFlags(s)
    BY <1>10 DEF DriverStart, DriverStop
  <2>2. /\ GrantInv' /\ ReplyInv' /\ ToldIsState' /\ told' \in {"up", "down", None}
        /\ driver'["country"] = driver["country"]
    BY <1>0, <1>a, <2>1, SetFlagsKeeps
  <2>3. /\ ready /\ UNCHANGED <<ready, drv_errors, channels, row>>
        /\ associated' \in BOOLEAN
    BY <1>10, <1>a DEF DriverStart, DriverStop
  <2>4. Silent' /\ ChannelsFollowCountry'
    BY <1>a, <2>2, <2>3 DEF Silent, ChannelsFollowCountry
  <2> QED
    BY <1>a, <1>b, <2>2, <2>3, <2>4
<1>11. ASSUME GrantInv', ReplyInv', ready, UNCHANGED <<ready, associated, channels, told>>,
              driver'["country"] = driver["country"], driver'["flag"] = driver["flag"],
              drv_errors' \in 0..NumErrors, row' \in 0..MaxRow
       PROVE  IInv'
  <2>1. Silent' /\ ToldIsState' /\ ChannelsFollowCountry'
    BY <1>11, <1>a DEF Silent, ToldIsState, ChannelsFollowCountry
  <2> QED
    BY <1>11, <1>a, <1>b, <2>1
<1>12. CASE DriverSwitch \/ RxPacketFilter
  <2>0. PICK t \in {"filter", "switch"} :
          \E s \in Settings[t], accepts \in BOOLEAN, ret \in {"-1", "0"} :
            /\ driver' = After(driver, t, s, accepts)
            /\ Tell(t, s, ret)
            /\ t = "filter" => ret = IF accepts THEN "0" ELSE "-1"
    BY <1>12 DEF DriverSwitch, RxPacketFilter
  <2>1. PICK s \in Settings[t], accepts \in BOOLEAN, ret \in {"-1", "0"} :
          /\ driver' = After(driver, t, s, accepts)
          /\ Tell(t, s, ret)
          /\ t = "filter" => ret = IF accepts THEN "0" ELSE "-1"
    BY <2>0
  <2>2. /\ GrantInv' /\ ReplyInv'
        /\ driver'["country"] = driver["country"] /\ driver'["flag"] = driver["flag"]
    BY <1>0, <2>1, OtherTopicKeeps
  <2>3. ready /\ UNCHANGED <<ready, drv_errors, associated, channels, told, row>>
    BY <1>12 DEF DriverSwitch, RxPacketFilter
  <2> QED
    BY <1>11, <1>a, <2>2, <2>3
<1>13. CASE SetSuspendMode \/ Transparent
  <2>0. PICK t \in {"suspend", "string"} :
          \E s \in Settings[t], accepts \in BOOLEAN :
            PrivateCommand(After(driver, t, s, accepts), t, s)
    BY <1>13 DEF SetSuspendMode, Transparent
  <2>1. PICK s \in Settings[t], accepts \in BOOLEAN :
          PrivateCommand(After(driver, t, s, accepts), t, s)
    BY <2>0
  <2>2. /\ GrantInv' /\ ReplyInv'
        /\ driver'["country"] = driver["country"] /\ driver'["flag"] = driver["flag"]
    BY <1>0, <2>1, PrivateKeeps
  <2>3. drv_errors' \in 0..NumErrors /\ row' \in 0..MaxRow
    BY <2>1, CountersKept
  <2>4. ready /\ UNCHANGED <<ready, associated, channels, told>>
    BY <1>13 DEF SetSuspendMode, Transparent
  <2> QED
    BY <1>11, <2>2, <2>3, <2>4
<1>14. CASE UNCHANGED vars
  BY <1>4, <1>14, <1>a DEF vars
<1> QED
  BY <1>1, <1>2, <1>3, <1>5, <1>7, <1>8, <1>9, <1>10, <1>12, <1>13, <1>14 DEF Next

-----------------------------------------------------------------------------
\* IInv holds in every state, whatever the driver refuses and whenever the
\* supplicant dies.
THEOREM CommandInvariance == Spec => []IInv
BY InitIInv, NextIInv, PTL DEF Spec

\* Every variable of the driver commands keeps its type, and the driver is only
\* ever given settings of the topic (mediatek_driver_cmd_nl80211.c).
THEOREM CommandTypeCorrect == Spec => []TypeOK
<1>1. IInv => TypeOK
  BY DEF IInv
<1> QED
  BY <1>1, CommandInvariance, PTL

\* What a caller of wpa_driver_nl80211_driver_cmd was told is in effect is in
\* effect.
THEOREM GrantedInEffect == Spec => []GrantedIsInEffect
<1>1. IInv => GrantedIsInEffect
  BY DEF IInv
<1> QED
  BY <1>1, CommandInvariance, PTL

\* A running supplicant works with the channels of the driver's country
\* (wpa_driver_notify_country_change).
THEOREM ChannelsFollow == Spec => []ChannelsFollowCountry
<1>1. IInv => ChannelsFollowCountry
  BY DEF IInv
<1> QED
  BY <1>1, CommandInvariance, PTL

\* The last CTRL-EVENT-DRIVER-STATE is the state of the interface.
THEOREM ToldState == Spec => []ToldIsState
<1>1. IInv => ToldIsState
  BY DEF IInv
<1> QED
  BY <1>1, CommandInvariance, PTL

\* The statistics of a reply are of the station it was asked for, or zero
\* (wpa_driver_get_sta_statistics).
THEOREM OwnStatistics == Spec => []StatisticsOfStation
<1>1. IInv => StatisticsOfStation
  BY DEF IInv
<1> QED
  BY <1>1, CommandInvariance, PTL

-----------------------------------------------------------------------------
\* A number below m is its own remainder, whatever multiple of m is added.
LEMMA RemainderUnique ==
    ASSUME NEW m \in Nat \ {0}, NEW q \in Nat, NEW r \in 0..(m - 1)
    PROVE  (q * m + r) % m = r
BY Z3T(30)

\* Counting on, the remainder counts on or starts again.
LEMMA RemainderStep ==
    ASSUME NEW m \in Nat \ {0}, NEW r \in Nat
    PROVE  (r + 1) % m = IF (r % m) + 1 = m THEN 0 ELSE (r % m) + 1
<1>1. r % m \in 0..(m - 1)
  BY Z3T(30)
<1> DEFINE q == r \div m
<1>2. q \in Nat
  BY Z3T(30)
<1>3. r = q * m + (r % m)
  BY Z3T(30)
<1> HIDE DEF q
<1>4. CASE (r % m) + 1 = m
  <2>1. r + 1 = (q + 1) * m + 0
    BY <1>1, <1>2, <1>3, <1>4, Z3T(30)
  <2>2. ((q + 1) * m + 0) % m = 0
    BY <1>2, RemainderUnique, Z3T(30)
  <2> QED
    BY <2>1, <2>2, <1>4
<1>5. CASE (r % m) + 1 # m
  <2>1. (r % m) + 1 \in 0..(m - 1)
    BY <1>1, <1>5
  <2>2. r + 1 = q * m + ((r % m) + 1)
    BY <1>1, <1>2, <1>3, Z3T(30)
  <2>3. (q * m + ((r % m) + 1)) % m = (r % m) + 1
    BY <1>2, <2>1, RemainderUnique
  <2> QED
    BY <2>2, <2>3, <1>5
<1> QED
  BY <1>4, <1>5

\* Every step counts as the hang counter should.
LEMMA CountingKept == IInv /\ ErrorsInARow /\ [Next]_vars => ErrorsInARow'
<1> SUFFICES ASSUME IInv, ErrorsInARow, [Next]_vars PROVE ErrorsInARow'
  OBVIOUS
<1>0. NumErrors \in Nat /\ row \in Nat /\ drv_errors \in 0..NumErrors
  BY WpaAssumption DEF WpaAssumption, IInv, TypeOK
<1>1. 0 % (NumErrors + 1) = 0
  BY <1>0, Z3T(30)
<1>2. CASE row' = 0 /\ drv_errors' = 0
  BY <1>1, <1>2 DEF ErrorsInARow
<1>3. CASE row' = row + 1 /\ SendHangMsg
  <2> DEFINE m == NumErrors + 1
  <2>0. m \in Nat \ {0}
    BY <1>0
  <2> HIDE DEF m
  <2>3. (row + 1) % m = IF (row % m) + 1 = m THEN 0 ELSE (row % m) + 1
    BY <1>0, <2>0, RemainderStep
  <2>1. (row + 1) % (NumErrors + 1) =
          IF (row % (NumErrors + 1)) + 1 = NumErrors + 1 THEN 0 ELSE (row % (NumErrors + 1)) + 1
    BY <2>3 DEF m
  <2>2. drv_errors' = IF drv_errors + 1 = NumErrors + 1 THEN 0 ELSE drv_errors + 1
    BY <1>0, <1>3 DEF SendHangMsg
  <2> QED
    BY <1>3, <2>1, <2>2 DEF ErrorsInARow
<1>4. CASE UNCHANGED <<row, drv_errors>>
  BY <1>4 DEF ErrorsInARow
<1>5. CASE SetSuspendMode \/ Transparent
  BY <1>2, <1>3, <1>5 DEF SetSuspendMode, Transparent, PrivateCommand, PrivateOk
<1> QED
  BY <1>2, <1>4, <1>5 DEF Next, vars, Start, Stop, HalSetsCountry, Connection, NotReady,
     Unsupported, Country, CountryIgnored, DriverStart, DriverStop, DriverSwitch,
     RxPacketFilter, GetStaStatistics, GetMacAddr

\* drv_errors counts the private commands that failed in a row, modulo
\* DRV_NUMBER_SEQUENTIAL_ERRORS and one (wpa_driver_send_hang_msg).
THEOREM ErrorsCounted == Spec => []ErrorsInARow
<1>1. Init => ErrorsInARow
  <2>1. 0 % (NumErrors + 1) = 0
    BY WpaAssumption, Z3T(30) DEF WpaAssumption
  <2> QED
    BY <2>1 DEF Init, ErrorsInARow
<1> QED
  BY <1>1, CountingKept, CommandInvariance, PTL DEF Spec
=============================================================================
