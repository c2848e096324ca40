---------------------------- MODULE WifiCommands ----------------------------
(***************************************************************************)
(* The WifiCommand subclasses of libwifi-hal-mt66xx that subscribe to      *)
(* vendor events or keep a slot of the command table, each given as the    *)
(* straight-line program its start() and cancel() run.  A program is a     *)
(* sequence of three kinds of step:                                        *)
(*                                                                         *)
(*   Attempt(undo)  creating a message or sending it and waiting for the   *)
(*                  answer; when it fails start() unregisters the events   *)
(*                  of undo, in that order, and returns the error          *)
(*   Register(e)    registerVendorHandler(GOOGLE_OUI, e)                   *)
(*   Unregister(e)  unregisterVendorHandler(GOOGLE_OUI, e)                 *)
(*                                                                         *)
(* Attempts that follow each other with the same undo are written once:    *)
(* nothing another thread can see lies between them.                       *)
(***************************************************************************)
EXTENDS Naturals, Sequences, SequencesExt

\* WIFI_VENDOR_EVENT, the subcommands a handler is registered for.
Events ==
    {"SIGNIFICANT_CHANGE_RESULTS", "HOTLIST_RESULTS_FOUND",
     "SCAN_RESULTS_AVAILABLE", "FULL_SCAN_RESULTS", "RTT_COMPLETE",
     "COMPLETE_SCAN", "HOTLIST_RESULTS_LOST", "RSSI_MONITOR", "EPNO_EVENT",
     "ANQPO_HOTSPOT_MATCH"}

NoEvent == "no event"

Steps == [op : {"attempt", "register", "unregister"},
          ev : Events \cup {NoEvent},
          undo : Seq(Events)]

Attempt(undo) == [op |-> "attempt", ev |-> NoEvent, undo |-> undo]
Register(e)   == [op |-> "register", ev |-> e, undo |-> << >>]
Unregister(e) == [op |-> "unregister", ev |-> e, undo |-> << >>]

\* A request of cancel(): a failure is only logged, or ends cancel() at its end.
TryRequest == Attempt(<< >>)

-----------------------------------------------------------------------------
\* A mutant: the error path forgets the third event.
ScanCommand_start_halfUndone ==
    << Attempt(<< >>),
       Register("SCAN_RESULTS_AVAILABLE"),
       Register("COMPLETE_SCAN"),
       Register("FULL_SCAN_RESULTS"),
       Attempt(<<"COMPLETE_SCAN", "SCAN_RESULTS_AVAILABLE">>) >>

ScanCommand_start ==
    << Attempt(<< >>),
       Register("SCAN_RESULTS_AVAILABLE"),
       Register("COMPLETE_SCAN"),
       Register("FULL_SCAN_RESULTS"),
       Attempt(<<"COMPLETE_SCAN", "SCAN_RESULTS_AVAILABLE", "FULL_SCAN_RESULTS">>) >>

ScanCommand_cancel ==
    << TryRequest,
       Unregister("COMPLETE_SCAN"),
       Unregister("SCAN_RESULTS_AVAILABLE"),
       Unregister("FULL_SCAN_RESULTS") >>

FullScanResultsCommand_start ==
    << Attempt(<< >>),
       Register("FULL_SCAN_RESULTS"),
       Attempt(<<"FULL_SCAN_RESULTS">>) >>

FullScanResultsCommand_cancel ==
    << TryRequest, Unregister("FULL_SCAN_RESULTS") >>

\* The failure of the first request already unregisters, before anything is
\* registered: createSetupRequest may fail (no undo), then requestResponse.
BssidHotlistCommand_start ==
    << Attempt(<< >>),
       Attempt(<<"HOTLIST_RESULTS_FOUND", "HOTLIST_RESULTS_LOST">>),
       Attempt(<< >>),
       Register("HOTLIST_RESULTS_FOUND"),
       Register("HOTLIST_RESULTS_LOST"),
       Attempt(<<"HOTLIST_RESULTS_FOUND", "HOTLIST_RESULTS_LOST">>) >>

\* A mutant: cancel() forgets the second event.
BssidHotlistCommand_cancel_half ==
    << Unregister("HOTLIST_RESULTS_FOUND"), TryRequest >>

BssidHotlistCommand_cancel ==
    << Unregister("HOTLIST_RESULTS_FOUND"),
       Unregister("HOTLIST_RESULTS_LOST"),
       TryRequest >>

SignificantWifiChangeCommand_start ==
    << Attempt(<< >>),
       Register("SIGNIFICANT_CHANGE_RESULTS"),
       Attempt(<<"SIGNIFICANT_CHANGE_RESULTS">>) >>

SignificantWifiChangeCommand_cancel ==
    << Unregister("SIGNIFICANT_CHANGE_RESULTS"), TryRequest >>

ePNOCommand_start ==
    << Attempt(<< >>),
       Attempt(<<"EPNO_EVENT">>),
       Register("EPNO_EVENT") >>

ePNOCommand_cancel == << Unregister("EPNO_EVENT"), TryRequest >>

AnqpoConfigureCommand_start ==
    << Attempt(<< >>),
       Register("ANQPO_HOTSPOT_MATCH"),
       Attempt(<<"ANQPO_HOTSPOT_MATCH">>) >>

AnqpoConfigureCommand_cancel ==
    << TryRequest, Unregister("ANQPO_HOTSPOT_MATCH") >>

SetRSSIMonitorCommand_start == << Attempt(<< >>), Register("RSSI_MONITOR") >>

SetRSSIMonitorCommand_cancel == << TryRequest, Unregister("RSSI_MONITOR") >>

\* A mutant: the handler is registered before the request is sent.
RttCommand_start_early == << Register("RTT_COMPLETE"), Attempt(<<"RTT_COMPLETE">>) >>

RttCommand_start == << Attempt(<< >>), Register("RTT_COMPLETE") >>

\* cancel() and cancel_specific() differ only in the devices they name.
RttCommand_cancel == << TryRequest, Unregister("RTT_COMPLETE") >>

\* No event, and no cancel() of its own: the base class's does nothing.
BssidBlacklistCommand_start == << Attempt(<< >>) >>

-----------------------------------------------------------------------------
Kinds ==
    {"ScanCommand", "FullScanResultsCommand", "BssidHotlistCommand",
     "SignificantWifiChangeCommand", "ePNOCommand", "AnqpoConfigureCommand",
     "SetRSSIMonitorCommand", "RttCommand", "BssidBlacklistCommand"}

StartProgram(k) ==
    CASE k = "ScanCommand"                  -> ScanCommand_start
      [] k = "FullScanResultsCommand"       -> FullScanResultsCommand_start
      [] k = "BssidHotlistCommand"          -> BssidHotlistCommand_start
      [] k = "SignificantWifiChangeCommand" -> SignificantWifiChangeCommand_start
      [] k = "ePNOCommand"                  -> ePNOCommand_start
      [] k = "AnqpoConfigureCommand"        -> AnqpoConfigureCommand_start
      [] k = "SetRSSIMonitorCommand"        -> SetRSSIMonitorCommand_start
      [] k = "RttCommand"                   -> RttCommand_start
      [] k = "BssidBlacklistCommand"        -> BssidBlacklistCommand_start

CancelProgram(k) ==
    CASE k = "ScanCommand"                  -> ScanCommand_cancel
      [] k = "FullScanResultsCommand"       -> FullScanResultsCommand_cancel
      [] k = "BssidHotlistCommand"          -> BssidHotlistCommand_cancel
      [] k = "SignificantWifiChangeCommand" -> SignificantWifiChangeCommand_cancel
      [] k = "ePNOCommand"                  -> ePNOCommand_cancel
      [] k = "AnqpoConfigureCommand"        -> AnqpoConfigureCommand_cancel
      [] k = "SetRSSIMonitorCommand"        -> SetRSSIMonitorCommand_cancel
      [] k = "RttCommand"                   -> RttCommand_cancel
      [] k = "BssidBlacklistCommand"        -> << >>

\* The steps start() runs when an attempt fails: one unregistration per event.
UndoProgram(undo) == [i \in DOMAIN undo |-> Unregister(undo[i])]

\* The events a command of kind k registers for when its start() succeeds.
Subscriptions(k) ==
    LET P == StartProgram(k)
    IN  {P[i].ev : i \in {j \in DOMAIN P : P[j].op = "register"}}

\* The events a program has registered before its step n.
RegisteredBefore(prog, n) ==
    {prog[i].ev : i \in {j \in DOMAIN prog : j < n /\ prog[j].op = "register"}}

\* The events a program has yet to unregister from its step n on.
UnregisteredFrom(prog, n) ==
    {prog[i].ev : i \in {j \in DOMAIN prog : j >= n /\ prog[j].op = "unregister"}}

\* The kinds whose stop function looks the command up by its id.
CancelledById == Kinds \ {"RttCommand", "BssidBlacklistCommand"}

\* The kinds that can be stopped without the command: an id of -1, or any
\* wifi_rtt_range_cancel, runs cancel() on a temporary object.
CancelledByProxy ==
    {"ScanCommand", "FullScanResultsCommand", "ePNOCommand",
     "SetRSSIMonitorCommand", "RttCommand"}

\* The kinds whose start function takes the command out of the table again
\* when start() fails.
UnlistedOnFailure ==
    Kinds \ {"SetRSSIMonitorCommand", "RttCommand", "BssidBlacklistCommand"}
=============================================================================
