------------------------------ MODULE WifiReports ------------------------------
(***************************************************************************)
(* What the event loop hands on to the framework: the handleEvent of each  *)
(* command that listens to the driver, called in the step HandleEvents of  *)
(* WifiLifecycle.  An event is handled in one go by the thread of the loop *)
(* and the buffers are the command's own; which handler an event finds     *)
(* while the framework starts and cancels commands is the subject of       *)
(* WifiHal, and here one command runs at a time.                           *)
(*                                                                         *)
(* The driver (external) sends events in order.  A result is the number of *)
(* its event and its place in it.                                          *)
(***************************************************************************)
EXTENDS WifiLifecycle, Sequences

CONSTANTS
    Room,          \* MAX_RESULTS and MAX_EPNO_NETWORKS
    MaxResults,    \* the most results in an event (a bound for TLC)
    MaxEvents      \* how many events the driver sends (a bound for TLC)

ASSUME ReportsAssumption ==
    /\ Room \in Nat \ {0}
    /\ {MaxResults, MaxEvents} \subseteq Nat

VARIABLES
    command,       \* the class of the command that listens, or "none"
    mResults,      \* its buffer
    rtt,           \* what an RTT command holds: rttResults and mCompleted
    event,         \* the event handled last
    report,        \* the last call of the framework's handler for the command
    sent           \* the results in the events this RTT command was given

reportVars == <<command, mResults, rtt, event, report, sent>>
allVars == <<hal, in_event_loop, clean_up, exit_sockets, signalled, cleanups, loop, api,
             life, command, mResults, rtt, event, report, sent>>

\* The classes whose events hold a list, those that hold one thing, and RTT.
Lists == {"hotlist", "epno", "significant"}
Singles == {"scan", "full", "rssi", "anqpo"}
Classes == Lists \cup Singles \cup {"rtt"}

\* A place the code has cleared.
Blank == <<>>
Cleared == [i \in 1..Room |-> Blank]

NoResults == [results |-> <<>>, completed |-> FALSE]
NoEvent == [number |-> 0, results |-> 0, good |-> TRUE, lost |-> {}]
NoReport == [class |-> "none", results |-> <<>>]

Least(m, n) == IF m < n THEN m ELSE n

-----------------------------------------------------------------------------
(***************************************************************************)
(* The events.  good says whether the data passes the tests of the         *)
(* handler for its type, version and length (ePNO has none); lost holds    *)
(* the places of the networks an ePNO event reports as lost.               *)
(***************************************************************************)
Events(class, number) ==
    {e \in [number : {number},
            results : IF class \in Singles THEN {1} ELSE 0..MaxResults,
            good : IF class = "epno" THEN {TRUE} ELSE BOOLEAN,
            lost : IF class = "epno" THEN SUBSET (1..MaxResults) ELSE {{}}] :
        e.lost \subseteq 1..e.results}

\* The attributes of an RTT event: the completed flag, and for one target its
\* results, of which one may find no memory.
Completed(flag) == [type |-> "completed", flag |-> flag]
Target(results, unstored) == [type |-> "target", results |-> results, unstored |-> unstored]

RttEvents ==
    LET targets == {Target(n, u) : n \in 1..MaxResults, u \in 0..MaxResults}
    IN  {<<Completed(f), t>> : f \in BOOLEAN, t \in targets}
          \cup {<<t, Completed(f)>> : f \in BOOLEAN, t \in targets}

Call(class, results) == report' = [class |-> class, results |-> results]

Result(e, i) == <<e.number, i>>

-----------------------------------------------------------------------------
\* The buffer is not cleared first (a mutant).
HotlistFilledOnly(e) ==
    [i \in 1..Room |-> IF i <= e.results /\ e.good THEN Result(e, i) ELSE mResults[i]]

\* BssidHotlistCommand: the buffer is cleared, and filled if the data is of one
\* of the two types.
Hotlist(e) ==
    [i \in 1..Room |-> IF i <= e.results /\ e.good THEN Result(e, i) ELSE Cleared[i]]

\* ePNOCommand: the places of lost networks stay cleared.
Epno(e) ==
    [i \in 1..Room |-> IF i <= e.results /\ i \notin e.lost THEN Result(e, i) ELSE Cleared[i]]

\* SignificantWifiChangeCommand: only the places that are reported are written.
Significant(e) ==
    [i \in 1..Room |-> IF i <= e.results THEN Result(e, i) ELSE mResults[i]]

\* The events with a list; all but the significant change are reported when the
\* list is empty too.
HandleList(e) ==
    /\ event' = e
    /\ CASE command = "hotlist"     -> mResults' = Hotlist(e)
         [] command = "epno"        -> mResults' = Epno(e)
         [] command = "significant" -> mResults' = IF e.good THEN Significant(e) ELSE mResults
    /\ IF command = "significant" => e.good /\ e.results # 0
         THEN Call(command, SubSeq(mResults', 1, Least(e.results, Room)))
         ELSE UNCHANGED report
    /\ UNCHANGED <<command, rtt, sent>>

\* The events with one thing: a scan event, a full scan result, an RSSI, a
\* matching hotspot.  Nothing is reported when the data fails a test or there is
\* no memory for a copy.
HandleSingle(e) ==
    /\ event' = e
    /\ IF e.good THEN Call(command, <<Result(e, 1)>>) ELSE UNCHANGED report
    /\ UNCHANGED <<command, mResults, rtt, sent>>

\* An event without data is reported by no class.  (RttCommand looks for
\* attributes in it all the same; the driver is taken to send it none.)
HandleNothing(e) ==
    /\ event' = e
    /\ UNCHANGED <<command, mResults, rtt, report, sent>>

-----------------------------------------------------------------------------
\* The places of a target's results that find memory: the code gives the target
\* up at the first that does not.
Stored(t) == IF t.unstored \in 1..t.results THEN t.unstored - 1 ELSE t.results

\* The results of one attribute that are stored.
StoredOf(number, a) ==
    IF a.type = "completed" THEN <<>> ELSE [i \in 1..Stored(a) |-> <<number, i>>]

\* Each target starts again at the first place (a mutant).
RttAttributeAnew(number, s, a) ==
    IF a.type = "completed" THEN [results |-> s.results, completed |-> a.flag]
    ELSE [results   |-> StoredOf(number, a),
          completed |-> s.completed \/ a.unstored \in 1..a.results]

\* One attribute of an event: the flag is taken over, and the results of a target
\* are appended; want of memory counts as completion, until a flag says otherwise.
RttAttribute(number, s, a) ==
    IF a.type = "completed" THEN [results |-> s.results, completed |-> a.flag]
    ELSE [results   |-> s.results \o StoredOf(number, a),
          completed |-> s.completed \/ a.unstored \in 1..a.results]

\* What the command holds after the first k attributes of an event.
RttAttributes(number, attributes) ==
    LET s[k \in 0..Len(attributes)] ==
            IF k = 0 THEN rtt ELSE RttAttribute(number, s[k - 1], attributes[k])
    IN  s

\* The results among them that are stored.
StoredOfAll(number, attributes) ==
    LET t[k \in 0..Len(attributes)] ==
            IF k = 0 THEN <<>> ELSE t[k - 1] \o StoredOf(number, attributes[k])
    IN  t

\* RttCommand: when it is completed, everything is reported at once and the
\* command is gone.
HandleRtt(number, attributes) ==
    /\ event' = [NoEvent EXCEPT !.number = number]
    /\ sent' = sent \o StoredOfAll(number, attributes)[Len(attributes)]
    /\ LET s == RttAttributes(number, attributes)[Len(attributes)]
       IN  IF s.completed
             THEN /\ Call("rtt", s.results)
                  /\ rtt' = NoResults
                  /\ command' = "none"
             ELSE /\ rtt' = s
                  /\ UNCHANGED <<report, command>>
    /\ UNCHANGED mResults

-----------------------------------------------------------------------------
\* internal_event_handler: an event for the command that listens, or one that
\* finds no handler.
Handle ==
    \/ UNCHANGED reportVars
    \/ /\ event.number < MaxEvents
       /\ \/ /\ command \in Lists \cup Singles
             /\ HandleNothing([NoEvent EXCEPT !.number = event.number + 1])
          \/ \E e \in Events(command, event.number + 1) :
                \/ command \in Lists /\ HandleList(e)
                \/ command \in Singles /\ HandleSingle(e)
          \/ /\ command = "rtt"
             /\ \E attributes \in RttEvents : HandleRtt(event.number + 1, attributes)

\* What a command has before its first event.
Fresh ==
    /\ mResults' = Cleared
    /\ rtt' = NoResults
    /\ event' = [NoEvent EXCEPT !.number = event.number]
    /\ report' = NoReport
    /\ sent' = <<>>

\* The framework starts a command, and cancels it: its buffer and what it holds
\* go with it.
StartCommand ==
    /\ api = "idle" /\ life > 0 /\ hal[life] = "live"
    /\ command = "none"
    /\ command' \in Classes
    /\ Fresh

CancelCommand ==
    /\ api = "idle" /\ life > 0 /\ hal[life] = "live"
    /\ command # "none"
    /\ command' = "none"
    /\ Fresh

\* wifi_internal_cleanup frees the table of commands and the handlers: nothing
\* listens any more.
CommandsGo ==
    /\ command' = "none"
    /\ Fresh

-----------------------------------------------------------------------------
ReportsInit ==
    /\ Init
    /\ command = "none"
    /\ mResults = Cleared
    /\ rtt = NoResults
    /\ event = NoEvent
    /\ report = NoReport
    /\ sent = <<>>

\* The steps of WifiLifecycle, each with what it means for the commands.
LoopWithCommands(l) ==
    /\ LoopStep(l)
    /\ CASE At(l, "handling") -> Handle
         [] At(l, "cleaning") -> CommandsGo
         [] OTHER             -> UNCHANGED reportVars

CleanupWithCommands ==
    /\ CleanupStep
    /\ IF api = "cleaning" THEN CommandsGo ELSE UNCHANGED reportVars

lifecycleVars == vars

ReportsNext ==
    \/ (wifi_initialize \/ InitializeFails \/ BeginCleanup) /\ UNCHANGED reportVars
    \/ CleanupWithCommands
    \/ \E l \in Lives : LoopWithCommands(l) \/ (Outside(l) /\ UNCHANGED reportVars)
    \/ (StartCommand \/ CancelCommand) /\ UNCHANGED lifecycleVars

ReportsSpec == ReportsInit /\ [][ReportsNext]_allVars

FairReportsSpec ==
    /\ ReportsSpec
    /\ WF_allVars(CleanupWithCommands)
    /\ \A l \in Lives : WF_allVars(LoopWithCommands(l))

-----------------------------------------------------------------------------
(***************************************************************************)
(* Properties.                                                             *)
(***************************************************************************)
\* What a report made of a class other than RTT has to be.
OfEvent(r, e) ==
    /\ Len(r.results) = Least(e.results, Room)
    /\ \A i \in 1..Len(r.results) :
         \/ r.results[i] = <<e.number, i>>
         \/ r.results[i] = Blank /\ (~e.good \/ i \in e.lost)

\* A report is of the event that caused it: what it holds at a place is the
\* result at that place of the event, or nothing, and nothing only for a network
\* that was lost or data of another type; it never shows what an earlier event
\* left in the buffer.
ReportIsOfEvent ==
    [][report' # report /\ report'.class \in Lists \cup Singles
         => OfEvent(report', event')]_allVars

\* An RTT report holds every result that was stored since the command was
\* started, in the order of the events, however many events they came in.
RttReportsAll ==
    [][report' # report /\ report'.class = "rtt" => report'.results = sent']_allVars
=============================================================================
