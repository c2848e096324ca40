----------------------------- MODULE WpaDriverCmd -----------------------------
(***************************************************************************)
(* The driver commands of wpa_supplicant (mediatek_driver_cmd_nl80211.c).  *)
(* The supplicant has one thread, so a command is one step; but each       *)
(* command is one, two or three requests to the driver, by three ways      *)
(* (nl80211 test mode, a private ioctl, the interface flags), and the      *)
(* driver may refuse any of them.  The supplicant may die and be started   *)
(* again between two commands; the driver keeps what it was given.         *)
(*                                                                         *)
(* driver holds what the driver was given, by topic.  granted holds, by    *)
(* topic, what the caller of the last command was told is in effect.       *)
(***************************************************************************)
EXTENDS Integers

CONSTANTS
    Countries,              \* the country codes in use
    Stations,               \* the stations asked about
    NumErrors,              \* DRV_NUMBER_SEQUENTIAL_ERRORS
    MaxRow                  \* failures in a row (a bound for TLC)

ASSUME WpaAssumption ==
    /\ Countries # {} /\ "none" \notin Countries
    /\ "none" \notin Stations
    /\ NumErrors \in Nat
    /\ MaxRow \in Nat

VARIABLES
    ready,                  \* the supplicant runs with its drv, ctx and conf
    drv_errors,             \* the static of the file
    associated,             \* drv->associated
    channels,               \* the country the supplicant's channels are for
    told,                   \* the last CTRL-EVENT-DRIVER-STATE of this supplicant
    driver,                 \* what the driver was given
    granted,                \* what callers were told is in effect
    reply,                  \* the result of the last command
    row                     \* private ioctls that failed since the last that did not

vars == <<ready, drv_errors, associated, channels, told, driver, granted, reply, row>>

None == "none"

\* COUNTRY, start and stop, SETSUSPENDMODE, mtk_rx_packet_filter, rxfilter-*
\* and smt-*, and every other string.
Topics == {"country", "flag", "suspend", "filter", "switch", "string"}

\* What each topic can be set to, besides being left as it was at first.
Settings == [t \in Topics |->
    CASE t = "country" -> Countries
      [] t = "flag"    -> {"up", "down"}
      [] t \in {"suspend", "filter"} -> {"0", "1"}
      [] OTHER         -> {"1"}]

AnySetting == Countries \cup {"up", "down", "0", "1", None}

\* The attributes of NL80211_TESTMODE_STA_STATISTICS_*, two for all; the value
\* of one is the station it is about.
Attributes == {"MAC", "LINK_SCORE"}

\* The lines of the text, and how many of them the caller may have room for.
Lines == 2
Zero == [a \in Attributes |-> None]

NoStatistics == [ret |-> "-1", sta |-> None, statistics |-> Zero]
Answer(ret) == [NoStatistics EXCEPT !.ret = ret]

Init ==
    /\ ready = FALSE
    /\ drv_errors = 0
    /\ associated = FALSE
    /\ channels = None
    /\ told = None
    /\ driver = [t \in Topics |-> IF t = "flag" THEN "down" ELSE None]
    /\ granted = [t \in Topics |-> None]
    /\ reply = Answer("-1")
    /\ row = 0

-----------------------------------------------------------------------------
\* What the driver has after a request it accepts or refuses.
After(d, t, s, accepts) == IF accepts THEN [d EXCEPT ![t] = s] ELSE d

\* What the caller is told of topic t: that s is in effect, or nothing.
Tell(t, s, ret) ==
    /\ granted' = [granted EXCEPT ![t] = IF ret \in {"0", "OK"} THEN s ELSE None]
    /\ reply' = Answer(ret)

\* The supplicant brings the interface up and reads the channels of the
\* driver's country when it starts.
Start ==
    /\ ~ready
    /\ ready' = TRUE
    /\ drv_errors' = 0
    /\ row' = 0
    /\ channels' = driver["country"]
    /\ driver' = [driver EXCEPT !["flag"] = "up"]
    /\ UNCHANGED <<associated, told, granted, reply>>

\* It is stopped, or dies; the connection goes with it and nobody goes by
\* what he was told.
Stop ==
    /\ ready
    /\ ready' = FALSE
    /\ associated' = FALSE
    /\ channels' = None
    /\ told' = None
    /\ granted' = [t \in Topics |-> None]
    /\ reply' = Answer("-1")
    /\ UNCHANGED <<drv_errors, driver, row>>

\* Without a supplicant the country is set through the Wi-Fi HAL
\* (SetCountryCodeCommand), for the access point.
HalSetsCountry ==
    /\ ~ready
    /\ \E c \in Countries : driver' = [driver EXCEPT !["country"] = c]
    /\ UNCHANGED <<ready, drv_errors, associated, channels, told, granted, reply, row>>

\* nl80211 reports a connection, or its end.
Connection ==
    /\ ready
    /\ \/ ~associated /\ driver["flag"] = "up" /\ associated' = TRUE
       \/ associated /\ associated' = FALSE
    /\ UNCHANGED <<ready, drv_errors, channels, told, driver, granted, reply, row>>

-----------------------------------------------------------------------------
\* The first checks: drv, its ctx and conf have to be there.
NotReady ==
    /\ ~ready
    /\ reply' = Answer("-1")
    /\ UNCHANGED <<ready, drv_errors, associated, channels, told, driver, granted, row>>

\* POWERMODE, getpower, get-rts-threshold and set-rts-threshold only look at
\* their argument and fail, as a switch whose argument is no number does; the
\* btcoex commands do nothing and succeed.
Unsupported ==
    /\ ready
    /\ \E ret \in {"-1", "0"} : reply' = Answer(ret)
    /\ UNCHANGED <<ready, drv_errors, associated, channels, told, driver, granted, row>>

\* wpa_driver_notify_country_change is called whatever came of it (a mutant).
CountryUnchecked ==
    /\ ready
    /\ \E c \in Countries, accepts \in BOOLEAN :
         /\ driver' = After(driver, "country", c, accepts)
         /\ Tell("country", c, IF accepts THEN "0" ELSE "-1")
         /\ channels' = c
    /\ UNCHANGED <<ready, drv_errors, associated, told, row>>

\* wpa_driver_mediatek_set_country and, if the driver has the country, the
\* event that makes the supplicant rebuild its channels.
Country ==
    /\ ready
    /\ \E c \in Countries, accepts \in BOOLEAN :
         /\ driver' = After(driver, "country", c, accepts)
         /\ Tell("country", c, IF accepts THEN "0" ELSE "-1")
         /\ channels' = IF accepts THEN c ELSE channels
    /\ UNCHANGED <<ready, drv_errors, associated, told, row>>

\* A COUNTRY of another length than two letters is ignored, with result 0.
CountryIgnored ==
    /\ ready
    /\ reply' = Answer("0")
    /\ UNCHANGED <<ready, drv_errors, associated, channels, told, driver, granted, row>>

\* The state is told whatever came of the flags (a mutant).
SetFlagsUnchecked(s) ==
    \E accepts \in BOOLEAN :
       /\ driver' = After(driver, "flag", s, accepts)
       /\ told' = s
       /\ Tell("flag", s, IF accepts THEN "0" ELSE "-1")

\* linux_set_iface_flags: its result is the result, and if it succeeds the
\* framework is told CTRL-EVENT-DRIVER-STATE STARTED or STOPPED.
SetFlags(s) ==
    \E accepts \in BOOLEAN :
       /\ driver' = After(driver, "flag", s, accepts)
       /\ told' = IF accepts THEN s ELSE told
       /\ Tell("flag", s, IF accepts THEN "0" ELSE "-1")

DriverStart ==
    /\ ready
    /\ SetFlags("up")
    /\ UNCHANGED <<ready, drv_errors, associated, channels, row>>

\* The station leaves its network first, if it is in one; the interface goes
\* down whether or not that succeeded.
DriverStop ==
    /\ ready
    /\ \E left \in BOOLEAN :
         /\ left => associated
         /\ associated' = (associated /\ ~left)
         /\ SetFlags("down")
    /\ UNCHANGED <<ready, drv_errors, channels, row>>

-----------------------------------------------------------------------------
\* wpa_driver_nl80211_driver_sw_cmd: the result of the test mode command is
\* dropped and the caller is told 0.
DriverSwitch ==
    /\ ready
    /\ \E s \in Settings["switch"], accepts \in BOOLEAN :
         /\ driver' = After(driver, "switch", s, accepts)
         /\ Tell("switch", s, "0")
    /\ UNCHANGED <<ready, drv_errors, associated, channels, told, row>>

\* The command is answered as the switches are (a mutant).
RxPacketFilterDropped ==
    /\ ready
    /\ \E s \in Settings["filter"], accepts \in BOOLEAN :
         /\ driver' = After(driver, "filter", s, accepts)
         /\ Tell("filter", s, "0")
    /\ UNCHANGED <<ready, drv_errors, associated, channels, told, row>>

\* mtk_rx_packet_filter: here the result of the test mode command is kept.
\* A command of another length than 71 is refused like one the driver
\* refuses.
RxPacketFilter ==
    /\ ready
    /\ \E s \in Settings["filter"], accepts \in BOOLEAN :
         /\ driver' = After(driver, "filter", s, accepts)
         /\ Tell("filter", s, IF accepts THEN "0" ELSE "-1")
    /\ UNCHANGED <<ready, drv_errors, associated, channels, told, row>>

\* wpa_driver_send_hang_msg.
SendHangMsg ==
    drv_errors' = IF drv_errors + 1 > NumErrors THEN 0 ELSE drv_errors + 1

\* A success leaves the counter (a mutant).
PrivateOkCounted == row' = 0 /\ UNCHANGED drv_errors

PrivateOk == row' = 0 /\ drv_errors' = 0

\* The part for handled = 0: the private ioctl, whose failure is told in
\* words.
PrivateCommand(d, t, s) ==
    \/ /\ driver' = After(d, t, s, TRUE)
       /\ PrivateOk
       /\ Tell(t, s, "OK")
    \/ /\ row < MaxRow
       /\ row' = row + 1
       /\ driver' = d
       /\ SendHangMsg
       /\ Tell(t, s, "FAIL")

\* SETSUSPENDMODE goes to the driver by both ways, the first without a look
\* at its result.
SetSuspendMode ==
    /\ ready
    /\ \E s \in Settings["suspend"], accepts \in BOOLEAN :
         PrivateCommand(After(driver, "suspend", s, accepts), "suspend", s)
    /\ UNCHANGED <<ready, associated, channels, told>>

\* Any other command: the string goes by both ways, and the result of the
\* first is overwritten.
Transparent ==
    /\ ready
    /\ \E s \in Settings["string"], accepts \in BOOLEAN :
         PrivateCommand(After(driver, "string", s, accepts), "string", s)
    /\ UNCHANGED <<ready, associated, channels, told>>

-----------------------------------------------------------------------------
\* The statistics are not cleared before the driver fills them in (a mutant).
InitialStatisticsLeft == reply.statistics

\* The memset of wpa_driver_get_sta_statistics.
InitialStatistics == Zero

\* testmode_sta_statistics_handler: the attributes that are there, if the
\* nested ones can be parsed at all; the rest stays as it was.
Handler(statistics, present, sta) ==
    [a \in Attributes |-> IF a \in present THEN sta ELSE statistics[a]]

\* print_sta_statistics: nothing as soon as a line does not fit.
PrintStatistics(statistics, sta, room) ==
    IF room < Lines THEN Answer("0")
    ELSE [ret |-> "text", sta |-> sta, statistics |-> statistics]

\* GET_STA_STATISTICS: a bad address and a request that fails are answered -1.
GetStaStatistics ==
    /\ ready
    /\ \/ reply' = Answer("-1")
       \/ \E sta \in Stations, present \in SUBSET Attributes, room \in 0..Lines :
            reply' = PrintStatistics(Handler(InitialStatistics, present, sta), sta, room)
    /\ UNCHANGED <<ready, drv_errors, associated, channels, told, driver, granted, row>>

\* MACADDR is answered from the supplicant's own data.
GetMacAddr ==
    /\ ready
    /\ reply' = Answer("text")
    /\ UNCHANGED <<ready, drv_errors, associated, channels, told, driver, granted, row>>

Next ==
    \/ Start \/ Stop \/ HalSetsCountry \/ Connection
    \/ NotReady \/ Unsupported \/ Country \/ CountryIgnored
    \/ DriverStart \/ DriverStop
    \/ DriverSwitch \/ RxPacketFilter \/ SetSuspendMode \/ Transparent
    \/ GetStaStatistics \/ GetMacAddr

Spec == Init /\ [][Next]_vars

-----------------------------------------------------------------------------
\* Types.  The counter of failures stays within DRV_NUMBER_SEQUENTIAL_ERRORS.
TypeOK ==
    /\ ready \in BOOLEAN
    /\ associated \in BOOLEAN
    /\ drv_errors \in 0..NumErrors
    /\ row \in 0..MaxRow
    /\ channels \in Countries \cup {None}
    /\ told \in {"up", "down", None}
    /\ driver \in [Topics -> AnySetting]
    /\ granted \in [Topics -> AnySetting]
    /\ \A t \in Topics : driver[t] \in Settings[t] \cup {None}
    /\ reply \in [ret : {"-1", "0", "OK", "FAIL", "text"},
                  sta : Stations \cup {None},
                  statistics : [Attributes -> Stations \cup {None}]]

\* What a caller was told is in effect is in effect, whichever of its two
\* ways to the driver the command went and whatever was refused since.  The
\* switches are left out: their callers are told 0 for a command the driver
\* refused.
GrantedIsInEffect ==
    \A t \in Topics \ {"switch"} : granted[t] # None => driver[t] = granted[t]

\* A running supplicant works with the channels of the country the driver is
\* in, also when the driver refuses a country or the Wi-Fi HAL set one while
\* there was no supplicant.
ChannelsFollowCountry == ready => channels = driver["country"]

\* The framework is told of every change of the interface a command makes, and
\* of nothing else: the last state it was told is the interface's.
ToldIsState == told # None => told = driver["flag"]

\* The hang counter counts the private commands that failed in a row since the
\* last success or the last hang, over commands of all kinds and supplicants
\* that die.
ErrorsInARow == drv_errors = row % (NumErrors + 1)

\* Statistics are of the station asked for: a field the driver leaves out is
\* zero and not what an earlier station had there.
StatisticsOfStation ==
    \A a \in Attributes : reply.statistics[a] \in {reply.sta, None}

\* Nobody was told anything while there is no supplicant.
Silent == ~ready => told = None /\ granted = [t \in Topics |-> None]

\* The inductive invariant of WpaDriverCmdProofs.
IInv ==
    /\ TypeOK
    /\ Silent
    /\ GrantedIsInEffect
    /\ ChannelsFollowCountry
    /\ ToldIsState
    /\ StatisticsOfStation
=============================================================================
