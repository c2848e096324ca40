# Verification of the MT6737 device tree (Moto C Plus)

The repository is an Android device tree: mostly configuration, init scripts,
vendored headers and prebuilt interfaces, with a few components that hold real
logic. This directory models those components in TLA+, checks them with TLC on
small instances and proves their main properties with TLAPS for all instances.

`$W` stands for `src/libpanelli/libwifi-hal-mt66xx`, `$R` for
`src/ril/telephony/java/com/android/internal/telephony`.

## 1. Inventory

### Wi-Fi HAL (`$W`)
A C++ library loaded by the framework's Wi-Fi process. It talks to the driver
over two netlink sockets: `cmd_sock` for requests and `event_sock` for events.

| part | state | operations | hard behaviour |
|---|---|---|---|
| handler list and command table (`common.cpp`) | `event_cb` under `cb_lock`; `cmd`, under no lock | register and unregister, by event and by id | removal takes the first handler of an event, whoever owns it; both have a fixed size and nobody looks at the result |
| command classes (`gscan.cpp`, `rtt.cpp`, `wifi_hal.cpp`, `cpp_bindings.h`) | reference count, subscribed events, a buffer of results | `start`, `cancel`, `handleEvent` | error paths undo some of the registrations; the event thread calls a command after it has dropped the lock; a buffer outlives the event it was filled from, and RTT results come in several events |
| life cycle (`wifi_hal.cpp`) | `hal_info`, `in_event_loop`, `clean_up`, the static `exit_sockets` | `wifi_initialize`, `wifi_event_loop`, `wifi_cleanup`, `wifi_internal_cleanup` | two threads, two flags and no lock; `poll` blocks for ever |
| request and response (`cpp_bindings.cpp`) | messages on `cmd_sock` | `requestResponse` and its callbacks | several callers on one socket, with the sequence check off |
| cached scan results (`gscan.cpp`) | the caller's array | `GetScanResultsCommand` | a loop of rounds against a driver that may send too much, too little or nothing |
| one-shot requests (`wifi_hal.cpp`, `gscan.cpp`, `rtt.cpp`, `wifi_offload.cpp`) | the caller's buffer and its room | channels, feature sets, capabilities, country, keep-alive | a reply names no command, and the attribute numbers of three files overlap; the driver may have more than the caller has room for |
| logger (`wifi_logger.cpp`) | | | not built |

The framework calls from one thread and runs `wifi_event_loop` in another. The
parts share `hal_info`; every command goes through `requestResponse`, and every
event through the handler list to the `handleEvent` of a command.

Correct means: an event reaches a command only between its start and its stop;
no command is used after it was freed and none is kept for ever; the table
and the list stay within their allocation; no part takes another's slot;
a cleanup frees `hal_info` once, after its last use; a request ends and leaves
nothing on the socket; results are neither lost, doubled nor written past the
array.

### MediaTek RIL (`$R/MT6735.java`)
A subclass of the telephony framework's `RIL`. State: `dataCallCids`, the
interfaces in use, and system properties for airplane mode and emergency
numbers. Operations: `setupDataCall`, `deactivateDataCall`, `dial`,
`setRadioPower`, `processSolicited`, `processUnsolicited`. The framework calls
from one thread, the receiver thread handles the answers, and each of the two
SIM slots has an object of its own. Correct means: no two data calls on one
interface; the entry of every call the framework ends is given back; the modem is powered as the airplane setting
says; the modem's questions are answered.

### Emergency numbers (`$R/MtkEccList.java`, `configs/ecc_list.xml`)
State: the list read from the file, and the properties `ril.ecclist` and
`ril.ecclist1`, which the vendor's `rild` and the two phones' receiver threads
all write without a lock. Correct means: a number is dialled as an emergency
call just when the network, a SIM or the configuration says so, whoever writes the
properties in between.

### Power HAL (`power/`)
State: the remembered profile, the driver's control file, a persistent and a
volatile property. Correct means: after any failure, death or reboot the driver
does what the persisted setting says.

### wpa_supplicant driver commands
(`src/libpanelli/wpa_supplicant_8_lib/mediatek_driver_cmd_nl80211.c`) A
dispatcher of driver commands for the one thread of the supplicant. State: the
counter `drv_errors`, and what the driver was given. A command is one, two or
three requests to the driver, by three ways, and the driver may refuse any of
them. Correct means: what a caller was told is in effect is in effect; the
supplicant's channels are those of the driver's country; the framework knows
whether the interface is up; `drv_errors` counts failures in a row (the message
that it is for is commented out, `mediatek_driver_cmd_nl80211.c:45`); statistics are of the station that was asked for. The Wi-Fi
display, SCC/MCC, stage-scan and hotspot parts are not compiled, since
`Android.mk` defines none of their switches.

### Without logic to model
The CyanogenMod hardware classes (one sysfs file each), the shims for vendor
blobs, the configuration and the vendored headers.

## 2. Modules

| module | models | checked by | proved in |
|---|---|---|---|
| `WifiCommands` | the `start()` and `cancel()` of each command class as a program | with `WifiHal` | `WifiHalProofs` |
| `WifiHal` | handler list, table, references, caller and event thread | `MCWifiHal*.cfg` | `WifiHalProofs` |
| `CommandLife` | what a command promises, abstractly | as a property of `WifiHal` | `WifiHalProofs!Refinement` |
| `WifiLifecycle` | bringing up and taking down the HAL | `MCWifiLifecycle*.cfg` | `WifiLifecycleProofs` |
| `WifiReports` | `WifiLifecycle` with the event handlers that the loop calls | `MCWifiLifecycle.cfg` | `WifiLifecycleProofs` |
| `WifiQueries` | what each one-shot request makes of a reply | with `WifiRequest` | `WifiRequestProofs` |
| `WifiRequest` | `requestResponse` of those requests on the shared socket | `MCWifiRequest.cfg` | `WifiRequestProofs` |
| `GScanResults` | the retrieval of cached scans | `MCGScanResults.cfg` | `WifiRequestProofs` |
| `RilData` | data calls and `dataCallCids` | `MCRilData.cfg` | `RilDataProofs` |
| `RilRadio` | radio power and the replies to the modem's questions | `MCRilRadio.cfg` | `RilRadioProofs` |
| `EccList` | the emergency numbers | `MCEccList.cfg` | `EccListProofs` |
| `PowerHal` | double tap to wake, power profile | `MCPowerHal.cfg` | `PowerHalProofs` |
| `WpaDriverCmd` | the driver commands of the supplicant | `MCWpaDriverCmd.cfg` | `WpaDriverCmdProofs` |

Definitions keep the names of the functions they model where they model one
function. A definition whose comment ends in "(a mutant)" is a plausible bug; it
is used by no specification, and each one breaks the property that
`PROJECT.json` names for it.

### WifiHal, WifiCommands, CommandLife
A step is what one thread does between two points where the other can
interfere: one critical section of `cb_lock`, one request, one change of the
table, one change of a count. The nine command classes that subscribe to events
or keep a slot differ only in the order of requests, registrations and
removals, so each `start()` and `cancel()` is a short sequence of steps that
`WifiHal` runs: `RegisterStep`, `UnregisterStep`, `AttemptSucceeds`,
`AttemptFails`. A failing attempt goes on with the removals that its error path
names. `Start`, `Cancel` and `CancelByProxy` are the entry points; the last
one is a stop with id -1 or `wifi_rtt_range_cancel`, where a temporary command
runs `cancel()` for one that stays in the table. `Dispatch`, `HandleEvent`,
`RttComplete`, `RttUnlist`, `RttDrop` and `Release` are the event thread.

`CommandLife` is the abstract view: a command is unborn, callable, stopped and
freed, in this order; it can be called only while it is callable, and is not
freed while the caller needs it or the event thread is inside it. `Status` in
`WifiHal` is the refinement mapping.

What the model takes from the caller: one framework thread; ids that are
unique; cancelling by id only with the stop function of the command's class;
and, where `OneUserPerEvent` is TRUE, no two started commands that subscribe to
one event. The last one is not enforced by the code, and the run
`wifi_hal_shared_events` shows what happens without it. The table changes in one
step here, although the code takes no lock for it (see the plan).

### WifiLifecycle
Each step touches what one statement touches: the test of `in_event_loop`, its
setting, its clearing, the creation of the pair, the read of `'T'`. A *life* is
one `hal_info`; the pair belongs to the library and is shared by all lives.
`wifi_initialize` is one step that succeeds or undoes itself.
`Undisturbed` names three windows that are never hit when it is TRUE:
- `wifi_cleanup` is not called while the loop is starting (called, flag not yet
  set) or has just ended, nor the loop once the cleanup was called;
- the loop does not clear the flag between the two statements of `wifi_cleanup`
  that set `clean_up` and test `in_event_loop`;
- the next `wifi_initialize` waits for the end of the cleanup, not only for the
  handler that announces it.

In the first two windows both threads clean up, or the caller frees `hal_info`
under the loop; in the third the end of the old life closes the pair of the new
one. The run `wifi_lifecycle_race` shows the first.

### WifiReports
The composition of `WifiLifecycle` with the commands: whenever the loop is at
its step `HandleEvents`, `Handle` is what the handlers do with one event, and
when `hal_info` goes, so do the commands (`CommandsGo`). One command runs at a
time; which handler an event finds while commands come and go is the subject of
`WifiHal`. `Hotlist`, `Epno` and `Significant` are the three classes with a
buffer that lives as long as the command, `HandleSingle` stands for those that
report one thing and keep nothing, and `HandleRtt` for the accumulation of RTT
results until the completed flag comes, or memory for a result does not. A
result is the number of its event and its place in it, so a report that holds
what an earlier event left is told from one that does not. `Room` is
`MAX_RESULTS` (64) or `MAX_EPNO_NETWORKS` and smaller than the events TLC sends.
`WifiLifecycleProofs!ReportsImplementLifecycle` proves that the composition
implements `WifiLifecycle`.

Two inputs are left out because nothing in `src/` says that they come: an RTT
event without data, whose attributes the code looks for all the same
(`rtt.cpp:527`), and more results than `rttResults` has places (`rtt.cpp:552`
never tests `currentIdx`).

### WifiRequest, WifiQueries
`Send` to `Ends` are one call of `requestResponse`. The kernel serves a request
in the sender's thread, so data and acknowledgement are queued before the sender
reads; whoever reads first takes the first message, whosever it is. Every caller
returns and nothing is left over because an acknowledgement is as good as any
other. What is lost when requests overlap is whose data it is: the model keeps
the origin of each message, and `AloneGetsOwn` holds only for requests that no
other overlapped. `AllocFails` reports a success, as the code does. An overrun
of the socket is not modelled.

`answered` is what the kernel made of a request: the values it sent and its
verdict; `Delivered` is what the buffer should then hold.

`WifiQueries` is what the caller's `handleResponse` then does, attribute by
attribute, to the buffer it was given: `AttributesRead` is the loop over the
attributes, `AttributeRead` its body. The attribute numbers of `wifi_hal.cpp`,
`gscan.cpp` and `rtt.cpp` overlap (`GSCAN_ATTRIBUTE_CAPABILITIES` is
`WIFI_ATTRIBUTE_BAND` and `RTT_ATTRIBUTE_CAPABILITIES`), so a foreign answer
may be taken for one's own; `WithinBuffer` and `CountMatchesItems` say what
holds even then. Bytes behind an attribute that is too short are `Junk`. A room
of zero, which the code takes for no limit in the feature matrix
(`wifi_hal.cpp:824`), is not among the inputs, and neither is the multicast
group query, which runs before any other thread knows the HAL.

### GScanResults
`Ask`, `handleScanResults` (its `handleResponse`), `Acknowledged`, `Stop`, `GoOn`
and `LeaveLoop` are the loop of `execute`. `InOrder` gives the scans of a reply
in the order in which it holds them. A scan is a pair: how many results the driver claims and how
many the attribute holds. The driver hands over its scans in order and goes on
in the next round where it stopped; the comment "no more items left to retrieve"
(`gscan.cpp:876`) rests on that. When a whole round brings only scans without
results the loop takes it for the end: `NothingMissed` excludes this case by the
variable `barren`, and nothing else. That another caller's answer may reach this
command is the subject of `WifiRequest`.

### RilData
The table, the requests that are out with the interface they were sent with, the
calls in the modem, and the ids the framework knows. The code does not record
which interface it asked for: the answer takes the first free entry, and takes it
whatever its status is. So `ModemRefuses` may name any call id, one of a call that is
up too; the framework takes a failing status for a refusal and never deactivates it.
`processSolicited` drops the error of an answer that has data, and the framework goes
by the data: `ModemErrs` is an error with the data of a call that is up, which
becomes known although there is no call. An answer without data tells the framework
nothing. `lost` and `refused` count what leaves an entry in use for good.
`OneAtATime` makes the framework wait for the end of each request. The modem's
six actions are external, and so is what the framework takes from an answer (`Told`). Operations on the table are one step, although a
setup runs on the framework's thread and an answer on the receiver's: with
`OneAtATime` they never overlap.

### RilRadio
Two phones that the framework calls from one thread, each with a socket to
`rild`. `DecideRadioPower` and `SendRadioPower` are the halves of
`setRadioPower`: a death may come between the property and the request, and each
phone overwrites the one property. `Replies` and `Notifies` are what
`processUnsolicited` does with the indications that `MT6735.java` handles
itself; USSD and packet network indications only notify and are left out. The
framework, the user, `rild` and the modem are external: the framework calls until the
radio of each phone is as the user wants it. `Undisturbed` names two cases that
do not happen when it is TRUE, and in which the modem stays off while the
property says that it is on:
- the user changes something before the last change has taken effect (an "off"
  call that runs after airplane mode has ended clears the property);
- the process dies between the write of the property and the request that turns
  the modem on.

### EccList
Each receiver thread reads and rewrites the properties of both slots, one get
and one set at a time; `rild` and the other phone may write between the two. An empty
property is the code's sign for "no SIM", and after the first update no property is
empty. A set may undo what `rild` has written since the get: the slot is then `reverted`,
until `rild` writes the property again. Only an update that has read something else than
`rild` has written since, with the phone's own numbers or without, is `stale` and can do so: an
answer for the same SIM, and the other phone's updates, never hurt. A slot is settled
when `rild` has told of its SIM and the slot is not `reverted`; the two properties speak
of settled slots. SIMs without any number are left out (the code cannot
tell them from no SIM), a dial reads both properties in one step, and the
service category and the spellings of a number are not modelled.

`EmergencyAsConfigured` leaves out the numbers of condition 2 (`forMmi`, with the CTA list
when it is set): the file wants them dialled normally, and the code dials them
as emergency calls (section 5).

### PowerHal
Two writes of `_taptowake_set_state`, either of which may fail, with a death of
the process between them; the constructor that restores the setting; the
profile that is remembered in a static. The framework calls each function under
a lock of its own, so neither runs twice at once. `unpersisted` and `stale` record the
cases in which the code knowingly or unknowingly leaves two values different.

### WpaDriverCmd
One command is one step: the supplicant has one thread. `driver` is what the
driver was given, by topic (country, interface flag, suspend mode, packet filter,
switches, other strings), `granted` what the caller of the last command on the
topic was told is in effect. Each request of a command is refused or accepted
independently: `SETSUSPENDMODE` and every string the code does not know go to the driver
by test mode and then by ioctl, and only the second result counts. `Stop` and
`Start` are a supplicant that dies or is restarted while the driver keeps what it
has; `HalSetsCountry` is the Wi-Fi HAL setting the country for the access point while there
is no supplicant. `row` counts the private ioctls that failed in a row, so that
`ErrorsInARow` can say what `drv_errors` should be. Statistics are filled in
attribute by attribute; two attributes stand for all.

The switches (`rxfilter-*`, `smt-*`) are answered 0 whatever the driver said:
`GrantedIsInEffect` leaves their topic out. Commands on `ap0`, where `wpa_s` is never set
(`mediatek_driver_cmd_nl80211.c:1002`), and the exact lengths of buffers are
not modelled.

## 3. Runs

| run | instance | shows |
|---|---|---|
| `wifi_hal` | 3 commands of any class, list of 6, table of 2 | safety of handlers, table and references |
| `wifi_hal_live` | 2 commands, fairness | cancelled commands are freed; refinement of `CommandLife` |
| `wifi_hal_shared_events` | 2 commands, events shared | violation: cancel removes another command's handler |
| `wifi_lifecycle` | 3 lives, windows closed, 3 events of up to 3 results, buffers of 2, fairness | one cleanup, after the last use, and always; every report is of its event |
| `wifi_lifecycle_race` | 1 life, windows open | violation: `hal_info` is freed under the loop |
| `wifi_request` | 2 callers, 3 requests of 6 kinds, up to 2 values, fairness | all return, nothing is left over, the buffers hold what was asked for |
| `gscan_results` | caches of up to 4 scans, arrays of up to 3, 2 replies a round, 3 rounds, fairness | results in order and within the array |
| `ril_data` | 2 requests, 3 call ids, 5 lost calls, 2 refusals with a call id | interfaces distinct, entries given back |
| `ril_radio` | 2 phones, 3 changes, 1 indication, 1 death or reboot, fairness | modem, property and radios agree in the end; questions are answered |
| `ecc_list` | 2 slots, 5 numbers, 2 kinds of SIM, 1 list of the network | SIM and configured numbers are honoured through all updates, but for a set that undoes a write of `rild` |
| `power_hal` | 6 failures | driver and preference agree after any of them |
| `wpa_driver_cmd` | 2 countries, 2 stations, a hang after 3 failures, up to 4 in a row | what was told, the channels and the counter agree with the driver |

**Bounds.** A list of six just holds the most that three commands which share
no event subscribe to (3 + 2 + 1 events), so `StartedIsSubscribed` is not
defeated by a full list, and a table of two runs full with three commands; the
code has 64 of each. Three lives let a pair be closed by a life
that is over while another is up. Three requests by two callers let one caller
come back while the other's request is still out, with room for fewer
values than the driver has. Buffers of two and events of up to three
results overfill them, and three events let a short one follow a long one. Four
failures in a row, with a hang after three, start the counter again. Three rounds of two replies with an array of
three reach the end of the loop by each of its ways; the code has ten
rounds. Five lost calls fill the table of four and more. Three ids let one be
used again while another is up, and two refusals name one of a call that is up and
one that comes up later. Two kinds of SIM let a stale update bring back another SIM's list. Six failures let a reboot follow a death that
follows two failed writes. Three changes turn airplane mode on and off again
with one SIM switched before, between or after.

**Symmetry.** Commands and request serials are interchangeable: no
definition names one, and no run with symmetry checks liveness.

**Fairness.** Only for what the code goes on to do by itself: a call that was
begun and an event that is being handled (`WifiHal`), the steps of the loop and
of a cleanup that was begun (`WifiLifecycle`), a request that was sent
(`WifiRequest`, where the kernel always answers), the loop of `execute`
(`GScanResults`), the main thread, the receiver threads and `rild` (`RilRadio`; the
main thread takes calls in their order, so the calls of one phone do not starve
the other's, and the framework asks again while a radio is not as wanted).
`WifiReports` has the fairness of `WifiLifecycle`.
Otherwise nothing obliges the framework to call, the driver to send an
event or a failure to happen.

**Deadlock** is not checked where the system may really stop: after the last
life, the last change, request or failure the bounds allow, or when a retrieval has
returned.

## 4. Proofs

Each proof gives an inductive invariant, shows that `Init` and every
step keep it, and takes the properties from it. All hold for every value of the
constants that satisfies the module's `ASSUME` and the conditions named here;
but for one of `WifiHal`, the runs are under the same conditions. Where the type invariant is not
among a run's invariants it is proved all the same.

- **WifiHal** (`OneUserPerEvent`). The safety properties are not inductive: that
  a stopped command has no handler depends on which handlers its program has yet
  to remove. `ApiInv` says it for every point of every program: before its step
  `pc`, `start()` has registered no other events than those it names before, and
  `cancel()` has yet to remove all that are left; the lemmas about the programs show,
  class by class, that this survives a step.
  `RefsInv` gives the count in each phase; `HandlersInv`
  says that an event has one handler, which makes first-match removal hit the
  right one. Proved: all safety properties, the action
  property `SlotKeptWhileStarted`, and `ImplementsCommandLife`.
  `StartedIsSubscribed` also needs a list with room for one handler of each
  event (`Cardinality(Events) <= AllocEventCb`; the code has 64 places for 10
  events): with less, registrations may fail unseen. The run has a list of six, which
  is enough for its three commands.
  `SubscribedInv` says that what `start()` has registered is in the list, and what
  an error path or `cancel()` removes is nobody else's.
- **RilData**. With `OneAtATime`, the table does not change while a request is out,
  so the first free entry is the same at the answer as at the request; hence
  `InterfaceOfCall`, and with it `InterfacesDistinct`. `EntriesAccountedFor` and the
  types need no such condition: the entries in use are counted
  against the known calls that have one (`Held`) and the two counters, and every step keeps
  this whatever the other requests do; `AnswerInv` says that a call is reported once.
- **RilRadio**. The types, with what each part may put on a socket to `rild`,
  unconditionally. `PowerAsPersisted` under `Undisturbed`: `PowerInv` says which
  requests may be on their way, in the hands of the main thread or on a socket, in
  airplane mode and out of it, and what the property, the modem and the radios are
  meanwhile; when the last change has taken effect there are none (`SettledIsCalm`).
- **EccList**. A settled slot's property, and what an update that is not stale has
  read of it, is what `rild` wrote or that with the phone's own numbers (`Written`);
  an update of what is so written is so written again (`MergedTwice`). No condition.
- **PowerHal**. A setting that is between its two writes is in the driver and
  marked as not persisted; a profile that is set while the library is not loaded
  is marked as stale.
- **WifiLifecycle** (`Undisturbed`). The invariant ties the two threads together by
  where each is: `LoopInv` says, for each place of the loop, what `hal_info`, the flag
  and the pair are; `ApiInv` does so for the caller; `OneLife` that all lives but
  the last are over. The three safety properties follow, and, since
  `ReportsImplementLifecycle` maps each step of `WifiReports` to one of
  `WifiLifecycle` or none, they hold of the composition too. `ReportsOfEvents` proves
  `ReportIsOfEvent` for any size of buffers and events, and `RttReportsHoldAll` proves
  `RttReportsAll`: `RttAttributesFacts` shows, by induction over the attributes of an
  event, whatever they are and however many, that the loop appends what
  is stored, and `RttInv` says that what the command holds is what was stored since it started.
  Neither needs `Undisturbed`.
- **WpaDriverCmd**. The five properties with the types and `Silent` (nobody was told
  anything while there is no supplicant) are inductive. `ErrorsInARow` needs
  arithmetic of the remainder (`RemainderStep`), and no other property.
- **WifiRequest**. `NothingLeftOver` for any number of threads is a matter of counting
  (`CountInv`): the socket holds one verdict for each thread that waits, whosever it
  is; and from each message on no more data than verdicts that follow, or are to come
  from a thread that still sends. So with nobody waiting there is neither, and the
  bound of the socket in `TypeOK` follows as well. What is in a
  buffer needs the loops of `WifiQueries`: `ChannelsRead` and `SetsRead` say
  what they make of an answer with any number of values, by induction over its
  attributes, `AttributesIgnored` that nothing is taken from an answer of another
  kind, and `ResponseTaken` sums them up for all classes. `BufferInv`, which follows, says
  that a buffer has its places and its first `num` are of one answer; hence
  `WithinBuffer` and `CountMatchesItems`. `AloneGetsOwn` rests on `NothingLeftOver` and on
  `AloneInv`: a request that is alone has on the socket what the kernel sent for it and
  nothing else.
- **GScanResults**. `ScanInv`: the array holds the first of the scans handed over so
  far that have results, in their order (`StoredInOrder`), and an array that is
  not full holds all of them (`NotFullHasAll`); what ends the loop, then, tells that the driver
  has no more (`ReportInv`). For any cache, array and number of replies and rounds.

How the proofs by induction are done: `UpTo` takes a set instead of a predicate, since
the provers cannot instantiate the library's induction theorems, and `Reading` and `Loop`
show from it that a recursive function over the turns of a loop is what it says.

Only model-checked: the temporal properties with fairness (`CancelledIsFreed`,
`CleanupCompletes`, `EveryCallerReturns`, `Returns`, `RadioAsWanted`,
`IndicationsHandled`), which are outside the prover's reach, and the two violations.
Only proved: `PersistedWasAccepted` of `PowerHal`, and the types of `WifiHal`, `RilData`,
`EccList`, `PowerHal`, `WifiLifecycle`, `WpaDriverCmd` and `RilRadio`.

## 5. Where the code departs from what it says

- `wifi_unregister_vendor_handler` (`common.cpp:130`) removes the first handler
  of an event; with two commands on one event, `cancel()` leaves its own, and
  `event_cb` then points to a freed command.
- `setupDataCall` (`MT6735.java:276`) marks an interface as used only at the
  answer, and `deactivateDataCall` frees it before the modem has seen it: with
  `OneAtATime` FALSE `InterfacesDistinct` fails.
- `fetchCidFromDataCall` (`MT6735.java:477`) takes an entry for every answer with a call
  id, whatever its status; nothing ever gives back the one of a refused call, and after
  four of them every setup is sent with interface 0. `EntriesAccountedFor` counts them.
- `wifi_cleanup` (`wifi_hal.cpp:420`) takes `in_event_loop` for "the loop is
  active", but the loop uses `hal_info` before it sets and after it clears it.
- `updateEmergencyNumbersProperty` (`MtkEccList.java:361`) adds the numbers for
  condition 0, "ecc only when no sim" (`configs/ecc_list.xml:8`), for each empty
  slot, also when the other slot has a SIM. No run refutes the phrase, which may
  also mean one slot; `EmergencyAsConfigured` says what holds when the slots
  agree.
- "vendor ril refreshes the properties while generating this answer. Do our own updates
  afterwards" (`MT6735.java:401`): the updates of the phone that gets the answer are
  afterwards, those of the other need not be. One that has read the list of the
  SIM before sets it after the refresh, and the new SIM's numbers are no emergency numbers until
  `rild` answers again (`reverted` in `EccList`; `SimNumbersHonoured` fails without it after
  seven states).
- `ecc_list.xml:10` says of condition 2 "MMI will show ecc but send to nw as normal
  call", and the CTA list gets this condition (`MtkEccList.java:158`).
  `isEmergencyNumberExt` makes no difference, and `dial` (`MT6735.java:307`) sends such
  numbers as emergency calls. The file as shipped has no entry of condition 2.
- `wpa_driver_nl80211_driver_cmd` drops the result of the switches
  (`mediatek_driver_cmd_nl80211.c:1101`) and of the first way of
  `SETSUSPENDMODE`, and answers a failed ioctl with a positive length.

The first and the third are shown by the violation runs.

## 6. Not modelled, and why

- `wifi_logger.cpp` is not built, and its entries of the function table are
  commented out. `link_layer_stats.cpp` is compiled out (`#if 0`), and setting the
  scan MAC OUI and no-DFS are stubs. The RTT responder and available-channel commands are in
  no function table.
- The list of interfaces and the multicast memberships are set up once, before
  any other thread knows the HAL; a membership that fails is ignored
  (`wifi_hal.cpp:264`), and the HAL then gets no events of that group.
- Building and parsing netlink messages (`cpp_bindings.cpp`) is layout.
- Commands that are still in the table when `hal_info` is freed are never
  released (`wifi_hal.cpp:387`): memory only, and no property says otherwise.
- Counts that the driver sends as `u32` and the code reads into an `int`
  (`wifi_hal.cpp:716`, `822`, and the scan counts of `gscan.cpp`) are naturals: one of 2^31 or more would pass
  the clip as a negative number.
- A profile that `power.c` does not know is remembered without setting the property
  (`power.c:91`); `get_feature` tells the framework of four profiles, and those are modelled.
- Two threads inside the functions of the command table at once are a data race;
  `WifiHal` changes the table in one step.
- The CyanogenMod hardware classes read or write one file each; the shims and the
  configuration have no state.

Of the C and C++ lines of the repository nearly two thirds are headers of vendored
interfaces and tables of default settings (`include/cfgdefault` alone is more
than a third). The map covers about half of what is left.

## 7. Plan

Done: `WifiHal` with `CommandLife`, `RilData`, `WifiLifecycle` with `WifiReports`,
`EccList`, `PowerHal`, `WpaDriverCmd`, `WifiRequest` with
`WifiQueries`, `GScanResults`, `RilRadio`, each with proofs: every safety invariant and
action property that a run checks is proved.

Next:
1. Proofs: what `RilData` promises without `OneAtATime`; an abstract specification of the
   retrieval that `GScanResults` implements.
2. `RilRadio` composed with `RilData`: a modem that is powered off loses its calls.
3. `CmdTable`: the table in single reads and writes, framework thread against
   RTT completion, as a refinement of the atomic table of `WifiHal`.
