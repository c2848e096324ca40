------------------------------ MODULE WifiHal -------------------------------
(***************************************************************************)
(* The heart of libwifi-hal-mt66xx: the list of event handlers             *)
(* (hal_info.event_cb, under cb_lock), the table of cancellable commands   *)
(* (hal_info.cmd), the reference count of each WifiCommand, the thread     *)
(* that runs wifi_event_loop and dispatches events to the handlers, and    *)
(* the framework's thread that starts, cancels and stops commands.         *)
(*                                                                         *)
(* Every step is what one thread does between two points where the other   *)
(* can interfere: one critical section of cb_lock, one request, one change *)
(* of the table, one change of a reference count.  The program of each     *)
(* command class comes from WifiCommands.  The caller is one thread        *)
(* (the framework serialises its calls), and gives every command an id of  *)
(* its own, so a table slot holds the command itself.                      *)
(***************************************************************************)
EXTENDS WifiCommands, FiniteSets

CONSTANTS
    Commands,         \* the WifiCommand objects the framework ever creates
    NoCommand,        \* none of them
    AllocEventCb,     \* hal_info.alloc_event_cb, DEFAULT_EVENT_CB_SIZE
    AllocCmd,         \* hal_info.alloc_cmd, DEFAULT_CMD_SIZE
    OneUserPerEvent   \* TRUE: the caller never has two commands started whose
                      \* subscriptions overlap

ASSUME ConstantsAssumption ==
    /\ NoCommand \notin Commands
    /\ AllocEventCb \in Nat
    /\ AllocCmd \in Nat
    /\ OneUserPerEvent \in BOOLEAN

VARIABLES
    event_cb,   \* sequence of [ev, cmd]: hal_info.event_cb[0 .. num_event_cb-1]
    cmd,        \* sequence of commands: hal_info.cmd[0 .. num_cmd-1]
    mRefs,      \* the reference count of each command; 0 once created: freed
    kind,       \* the class of each command, NoKind before it is created
    phase,      \* how far each command is in its life, as its caller sees it
    api,        \* the framework's thread: the call it runs and the step it is at
    loop        \* the event thread: the command it is calling and the step

vars == <<event_cb, cmd, mRefs, kind, phase, api, loop>>

NoKind == "no kind"

Phases == {"unborn", "starting", "started", "stopping", "sweeping",
           "orphaned", "failed", "cancelled", "done"}

\* cb_info, less the vendor id (GOOGLE_OUI throughout) and the callback
\* (WifiCommand::event_handler throughout).
Handlers == [ev : Events, cmd : Commands]

\* A command that may own a handler.
Active == {"starting", "started", "stopping", "sweeping"}

Idle == [mode |-> "idle", cmd |-> NoCommand, kind |-> NoKind,
         prog |-> << >>, pc |-> 1]

Waiting == [pc |-> "idle", cmd |-> NoCommand]

ApiStates ==
    [mode : {"idle", "start", "fail", "cancel", "sweep"},
     cmd : Commands \cup {NoCommand},
     kind : Kinds \cup {NoKind},
     prog : Seq(Steps),
     pc : Nat \ {0}]

LoopStates ==
    [pc : {"idle", "handle", "notify", "drop", "release"},
     cmd : Commands \cup {NoCommand}]

\* 1 while the event thread holds its own reference to command c.
InFlight(c) == IF loop.cmd = c THEN 1 ELSE 0

-----------------------------------------------------------------------------
(***************************************************************************)
(* The operations on the handler list and the command table.               *)
(***************************************************************************)

\* wifi_register_vendor_handler; no caller looks at its result.
RegisterHandler(cb, e, c) ==
    IF Len(cb) < AllocEventCb THEN Append(cb, [ev |-> e, cmd |-> c]) ELSE cb

\* Removes the newest handler whatever its event (a mutant).
UnregisterNewest(cb, e) == IF cb = << >> THEN cb ELSE Front(cb)

\* wifi_unregister_vendor_handler: the first entry for the event goes,
\* whichever command it belongs to.
UnregisterHandler(cb, e) == RemoveFirstMatch(cb, LAMBDA h : h.ev = e)

\* wifi_register_cmd; no caller looks at its result.
RegisterCmd(table, c) ==
    IF Len(table) < AllocCmd THEN Append(table, c) ELSE table

\* Removes the last command of the table instead (a mutant).
UnregisterLastCmd(table, c) ==
    IF Contains(table, c) THEN Front(table) ELSE table

\* wifi_unregister_cmd.  The memmove covers one slot more than is in use, whose
\* content no one reads.
UnregisterCmd(table, c) == RemoveFirst(table, c)

Listed(c) == Contains(cmd, c)

-----------------------------------------------------------------------------
Init ==
    /\ event_cb = << >>
    /\ cmd = << >>
    /\ mRefs = [c \in Commands |-> 0]
    /\ kind = [c \in Commands |-> NoKind]
    /\ phase = [c \in Commands |-> "unborn"]
    /\ api = Idle
    /\ loop = Waiting

(***************************************************************************)
(* The framework's thread.                                                 *)
(***************************************************************************)

Conflict(k, l) == Subscriptions(k) \cap Subscriptions(l) # {}

\* What the caller must respect for first-match dispatch and first-match
\* removal to concern the command that is meant.
MayStart(k) ==
    OneUserPerEvent =>
        \A d \in Commands : phase[d] = "started" => ~Conflict(k, kind[d])

MayStop(c) ==
    OneUserPerEvent =>
        \A d \in Commands : phase[d] = "started" =>
            d = c \/ ~Conflict(kind[c], kind[d])

MaySweep(k) ==
    OneUserPerEvent =>
        \A d \in Commands : phase[d] = "started" =>
            kind[d] = k \/ ~Conflict(k, kind[d])

\* wifi_start_gscan, wifi_set_bssid_hotlist, ...: new, wifi_register_cmd,
\* and on to cmd->start().
Start(c, k) ==
    /\ api.mode = "idle"
    /\ phase[c] = "unborn"
    /\ MayStart(k)
    /\ mRefs' = [mRefs EXCEPT ![c] = 1]
    /\ kind' = [kind EXCEPT ![c] = k]
    /\ phase' = [phase EXCEPT ![c] = "starting"]
    /\ cmd' = RegisterCmd(cmd, c)
    /\ api' = [mode |-> "start", cmd |-> c, kind |-> k,
               prog |-> StartProgram(k), pc |-> 1]
    /\ UNCHANGED <<event_cb, loop>>

\* wifi_cancel_cmd and wifi_disable_full_scan_results: the table slot goes
\* first, then cmd->cancel() runs.  An id that is not in the table is refused
\* (WIFI_ERROR_INVALID_ARGS) and changes nothing.  A command that was swept
\* away, or an RSSI monitor that failed to start, can still be cancelled.
Cancel(c) ==
    /\ api.mode = "idle"
    /\ phase[c] \in {"started", "orphaned", "failed"}
    /\ kind[c] \in CancelledById
    /\ Listed(c)
    /\ MayStop(c)
    /\ cmd' = UnregisterCmd(cmd, c)
    /\ phase' = [phase EXCEPT ![c] = IF @ = "started" THEN "stopping" ELSE @]
    /\ api' = [mode |-> "cancel", cmd |-> c, kind |-> kind[c],
               prog |-> CancelProgram(kind[c]), pc |-> 1]
    /\ UNCHANGED <<event_cb, mRefs, kind, loop>>

\* A stop function called with id -1, or wifi_rtt_range_cancel: a temporary
\* command runs cancel(); the started one stays where it is.
CancelByProxy(k) ==
    /\ api.mode = "idle"
    /\ MaySweep(k)
    /\ phase' = [c \in Commands |->
                    IF phase[c] = "started" /\ kind[c] = k THEN "sweeping"
                                                           ELSE phase[c]]
    /\ api' = [mode |-> "sweep", cmd |-> NoCommand, kind |-> k,
               prog |-> CancelProgram(k), pc |-> 1]
    /\ UNCHANGED <<event_cb, cmd, mRefs, kind, loop>>

Running == api.mode # "idle" /\ api.pc <= Len(api.prog)
Step == api.prog[api.pc]
Advance == api' = [api EXCEPT !.pc = @ + 1]

\* registerVendorHandler.
RegisterStep ==
    /\ Running /\ Step.op = "register"
    /\ event_cb' = RegisterHandler(event_cb, Step.ev, api.cmd)
    /\ Advance
    /\ UNCHANGED <<cmd, mRefs, kind, phase, loop>>

\* unregisterVendorHandler.
UnregisterStep ==
    /\ Running /\ Step.op = "unregister"
    /\ event_cb' = UnregisterHandler(event_cb, Step.ev)
    /\ Advance
    /\ UNCHANGED <<cmd, mRefs, kind, phase, loop>>

\* A message is created and answered, or cancel() carries on regardless.
AttemptSucceeds ==
    /\ Running /\ Step.op = "attempt"
    /\ Advance
    /\ UNCHANGED <<event_cb, cmd, mRefs, kind, phase, loop>>

\* start() gives up: it unregisters what this attempt's error path names.
AttemptFails ==
    /\ Running /\ Step.op = "attempt" /\ api.mode = "start"
    /\ api' = [api EXCEPT !.mode = "fail", !.prog = UndoProgram(Step.undo), !.pc = 1]
    /\ UNCHANGED <<event_cb, cmd, mRefs, kind, phase, loop>>

Finished(mode) == api.mode = mode /\ api.pc > Len(api.prog)

\* start() returned WIFI_SUCCESS.  An RTT command may be complete by now.
FinishStart ==
    /\ Finished("start")
    /\ phase' = [phase EXCEPT ![api.cmd] = IF @ = "starting" THEN "started" ELSE @]
    /\ api' = Idle
    /\ UNCHANGED <<event_cb, cmd, mRefs, kind, loop>>

\* start() returned an error and the slot is kept (a mutant).
FinishFailedStartListed ==
    /\ Finished("fail")
    /\ phase' = [phase EXCEPT ![api.cmd] = "failed"]
    /\ api' = Idle
    /\ UNCHANGED <<event_cb, cmd, mRefs, kind, loop>>

\* start() returned an error: most start functions take the command out of
\* the table, none releases it.
FinishFailedStart ==
    /\ Finished("fail")
    /\ phase' = [phase EXCEPT ![api.cmd] = "failed"]
    /\ cmd' = IF api.kind \in UnlistedOnFailure THEN UnregisterCmd(cmd, api.cmd)
                                                ELSE cmd
    /\ api' = Idle
    /\ UNCHANGED <<event_cb, mRefs, kind, loop>>

\* cancel() ran but the reference is kept (a mutant).
FinishCancelKeepingRef ==
    /\ Finished("cancel")
    /\ phase' = [phase EXCEPT ![api.cmd] = "cancelled"]
    /\ api' = Idle
    /\ UNCHANGED <<event_cb, cmd, mRefs, kind, loop>>

\* cancel() returned: cmd->releaseRef().
FinishCancel ==
    /\ Finished("cancel")
    /\ mRefs' = [mRefs EXCEPT ![api.cmd] = @ - 1]
    /\ phase' = [phase EXCEPT ![api.cmd] = "cancelled"]
    /\ api' = Idle
    /\ UNCHANGED <<event_cb, cmd, kind, loop>>

\* The temporary command is released; the one it stood for has lost its
\* handlers and keeps its table slot and its reference.
FinishProxy ==
    /\ Finished("sweep")
    /\ phase' = [c \in Commands |->
                    IF phase[c] = "sweeping" THEN "orphaned" ELSE phase[c]]
    /\ api' = Idle
    /\ UNCHANGED <<event_cb, cmd, mRefs, kind, loop>>

-----------------------------------------------------------------------------
(***************************************************************************)
(* The event thread.                                                       *)
(***************************************************************************)

\* The command whose handler the loop of internal_valid_message_handler finds.
FirstHandler(e) ==
    LET i == SelectInSeq(event_cb, LAMBDA h : h.ev = e)
    IN  IF i = 0 THEN NoCommand ELSE event_cb[i].cmd

\* The lookup without addRef (a mutant).
DispatchWithoutRef(e) ==
    /\ loop.pc = "idle"
    /\ FirstHandler(e) # NoCommand
    /\ loop' = [pc |-> "handle", cmd |-> FirstHandler(e)]
    /\ UNCHANGED <<event_cb, cmd, mRefs, kind, phase, api>>

\* internal_valid_message_handler under cb_lock: an event that nobody
\* registered for is dropped and changes nothing.
Dispatch(e) ==
    /\ loop.pc = "idle"
    /\ FirstHandler(e) # NoCommand
    /\ mRefs' = [mRefs EXCEPT ![FirstHandler(e)] = @ + 1]
    /\ loop' = [pc |-> "handle", cmd |-> FirstHandler(e)]
    /\ UNCHANGED <<event_cb, cmd, kind, phase, api>>

\* handleEvent() reads the event, may call the framework, and returns.
HandleEvent ==
    /\ loop.pc = "handle"
    /\ loop' = [loop EXCEPT !.pc = "release"]
    /\ UNCHANGED <<event_cb, cmd, mRefs, kind, phase, api>>

\* RttCommand::handleEvent of the event that sets mCompleted.
RttComplete ==
    /\ loop.pc = "handle" /\ kind[loop.cmd] = "RttCommand"
    /\ event_cb' = UnregisterHandler(event_cb, "RTT_COMPLETE")
    /\ phase' = [phase EXCEPT ![loop.cmd] = "done"]
    /\ loop' = [loop EXCEPT !.pc = "notify"]
    /\ UNCHANGED <<cmd, mRefs, kind, api>>

\* The results are delivered and freed, then wifi_unregister_cmd(id()).
RttUnlist ==
    /\ loop.pc = "notify"
    /\ cmd' = UnregisterCmd(cmd, loop.cmd)
    /\ loop' = [loop EXCEPT !.pc = IF Listed(loop.cmd) THEN "drop" ELSE "release"]
    /\ UNCHANGED <<event_cb, mRefs, kind, phase, api>>

\* cmd->releaseRef() of the command that was in the table.
RttDrop ==
    /\ loop.pc = "drop"
    /\ mRefs' = [mRefs EXCEPT ![loop.cmd] = @ - 1]
    /\ loop' = [loop EXCEPT !.pc = "release"]
    /\ UNCHANGED <<event_cb, cmd, kind, phase, api>>

\* The handler is left without releaseRef (a mutant).
ReleaseForgotten ==
    /\ loop.pc = "release"
    /\ loop' = Waiting
    /\ UNCHANGED <<event_cb, cmd, mRefs, kind, phase, api>>

\* Back in internal_valid_message_handler: cmd->releaseRef().
Release ==
    /\ loop.pc = "release"
    /\ mRefs' = [mRefs EXCEPT ![loop.cmd] = @ - 1]
    /\ loop' = Waiting
    /\ UNCHANGED <<event_cb, cmd, kind, phase, api>>

-----------------------------------------------------------------------------
ApiCall ==
    \/ \E c \in Commands, k \in Kinds : Start(c, k)
    \/ \E c \in Commands : Cancel(c)
    \/ \E k \in CancelledByProxy : CancelByProxy(k)

ApiStep ==
    \/ RegisterStep
    \/ UnregisterStep
    \/ AttemptSucceeds
    \/ AttemptFails
    \/ FinishStart
    \/ FinishFailedStart
    \/ FinishCancel
    \/ FinishProxy

LoopStep ==
    \/ HandleEvent
    \/ RttComplete
    \/ RttUnlist
    \/ RttDrop
    \/ Release

Next == ApiCall \/ ApiStep \/ (\E e \in Events : Dispatch(e)) \/ LoopStep

\* A call that was begun and an event that is being handled go on to their
\* end: no step of either waits for the other thread.  Nothing obliges the
\* framework to call or the driver to send an event.
Fairness == WF_vars(ApiStep) /\ WF_vars(LoopStep)

Spec == Init /\ [][Next]_vars

FairSpec == Spec /\ Fairness

-----------------------------------------------------------------------------
(***************************************************************************)
(* Properties.                                                             *)
(***************************************************************************)

\* Every variable has its type: the list and the table never outgrow their
\* allocation and no reference count goes below zero.
TypeOK ==
    /\ event_cb \in Seq(Handlers)
    /\ Len(event_cb) <= AllocEventCb
    /\ cmd \in Seq(Commands)
    /\ Len(cmd) <= AllocCmd
    /\ mRefs \in [Commands -> Nat]
    /\ kind \in [Commands -> Kinds \cup {NoKind}]
    /\ phase \in [Commands -> Phases]
    /\ api \in ApiStates
    /\ loop \in LoopStates

\* No dangling pointer in the handler list: the command an event would be
\* dispatched to has not been freed, whatever was cancelled, failed or
\* completed before (hal_info.event_cb against WifiCommand::releaseRef).
NoDanglingHandler ==
    \A i \in DOMAIN event_cb : mRefs[event_cb[i].cmd] > 0

\* Neither thread runs a member function of a freed command: the event thread
\* until its last releaseRef, the caller until start() or cancel() has no
\* step left; and the table holds no freed command.
NoUseAfterFree ==
    /\ loop.pc # "idle" => mRefs[loop.cmd] > 0
    /\ Running /\ api.cmd # NoCommand => mRefs[api.cmd] > 0
    /\ \A i \in DOMAIN cmd : mRefs[cmd[i]] > 0

\* A command whose start failed, whose cancel returned, that was swept away
\* or that completed gets no further event: no handler of it is left, although
\* cancel() and every error path name the events again one by one.
SilentAfterStop ==
    \A i \in DOMAIN event_cb : phase[event_cb[i].cmd] \in Active

\* The handlers of a started command stay registered until its own cancel:
\* the calls and failures of other commands do not take them away.
\* RTT commands are left out: the completion of an earlier one may remove the
\* handler of the next (rtt.cpp:611).
StartedIsSubscribed ==
    \A c \in Commands :
        phase[c] = "started" /\ kind[c] # "RttCommand" =>
            \A e \in Subscriptions(kind[c]) : Contains(event_cb, [ev |-> e, cmd |-> c])

\* Reference counts are exact.  A command that is live for its caller has the
\* creator's reference, a cancelled one has lost it, and the event thread's
\* own reference comes on top; so nothing is freed early and a cancelled
\* command is not kept for ever.
RefsAreExact ==
    \A c \in Commands :
        /\ phase[c] = "unborn" => mRefs[c] = 0
        /\ phase[c] \in Active \cup {"orphaned", "failed"} => mRefs[c] = 1 + InFlight(c)
        /\ phase[c] = "cancelled" => mRefs[c] = InFlight(c)
        /\ phase[c] = "done" /\ Listed(c) => mRefs[c] = 2

\* Only a failed RSSI or RTT start, a blacklist, and a stop with id -1 or
\* wifi_rtt_range_cancel leave a slot of the table in use for a command that
\* is no longer started; every other call gives its slot back.
OnlyKnownSlotsLeak ==
    \A i \in DOMAIN cmd :
        LET c == cmd[i]
        IN  \/ phase[c] \in {"starting", "started", "sweeping", "orphaned"}
            \/ /\ phase[c] = "failed"
               /\ kind[c] \in {"SetRSSIMonitorCommand", "RttCommand",
                               "BssidBlacklistCommand"}
            \/ phase[c] = "done" /\ loop = [pc |-> "notify", cmd |-> c]

\* No other call takes away the table slot of a started command, so a command
\* that got one can be cancelled by its id for as long as it is started.
SlotKeptWhileStarted ==
    [][\A c \in Commands :
          phase[c] = "started" /\ Listed(c) /\ phase'[c] = "started" => Listed(c)']_vars

\* A cancelled command is freed in the end, even when the event thread was
\* inside its handler while it was cancelled.
CancelledIsFreed ==
    \A c \in Commands : phase[c] = "cancelled" ~> mRefs[c] = 0

\* The comment at the head of cancel() of the hotlist, significant-change and
\* ePNO commands, "unregister event handler": after cancel() the command has
\* no handler.
CancelUnregisters ==
    \A i \in DOMAIN event_cb :
        LET c == event_cb[i].cmd
        IN  kind[c] \in {"BssidHotlistCommand", "SignificantWifiChangeCommand",
                         "ePNOCommand"}
            => phase[c] # "cancelled"

-----------------------------------------------------------------------------
(***************************************************************************)
(* WifiHal implements CommandLife.                                         *)
(***************************************************************************)

Status(c) ==
    IF phase[c] = "unborn" THEN "unborn"
    ELSE IF phase[c] \in Active THEN "callable"
    ELSE IF mRefs[c] > 0 THEN "stopped"
    ELSE "freed"

Life == INSTANCE CommandLife WITH
            Nobody <- NoCommand,
            status <- [c \in Commands |-> Status(c)],
            calling <- loop.cmd

\* Events reach a command only between its start and its stop, and its memory
\* goes only when neither the caller nor the event thread still uses it.
ImplementsCommandLife == Life!Spec

-----------------------------------------------------------------------------
(***************************************************************************)
(* The inductive invariant behind the safety properties.                   *)
(***************************************************************************)

\* An event has one handler, and its command is one that may own it.
HandlersInv ==
    /\ \A i, j \in DOMAIN event_cb : event_cb[i].ev = event_cb[j].ev => i = j
    /\ \A i \in DOMAIN event_cb :
          /\ phase[event_cb[i].cmd] \in Active
          /\ event_cb[i].ev \in Subscriptions(kind[event_cb[i].cmd])

\* Phases agree with classes, and what the caller promises about live commands.
PhaseInv ==
    \A c \in Commands :
        /\ phase[c] # "unborn" <=> kind[c] \in Kinds
        /\ \A d \in Commands :
              c # d /\ phase[c] \in Active /\ phase[d] \in Active
                => ~Conflict(kind[c], kind[d])
        /\ phase[c] = "starting" => api.mode \in {"start", "fail"} /\ api.cmd = c
        /\ phase[c] = "stopping" => api.mode = "cancel" /\ api.cmd = c
        /\ phase[c] = "sweeping" => api.mode = "sweep" /\ api.kind = kind[c]

\* Where the caller is in its program tells which handlers its command has.
ApiInv ==
    /\ api.mode = "idle" => api = Idle
    /\ api.mode \in {"start", "fail", "cancel"} =>
          api.cmd \in Commands /\ api.kind = kind[api.cmd] /\ api.kind \in Kinds
    /\ api.mode = "start" =>
          /\ api.prog = StartProgram(api.kind)
          /\ phase[api.cmd] \in {"starting", "done"}
          /\ phase[api.cmd] = "done" => ~Running
          /\ \A i \in DOMAIN event_cb : event_cb[i].cmd = api.cmd
                => event_cb[i].ev \in RegisteredBefore(api.prog, api.pc)
    /\ api.mode = "fail" =>
          /\ phase[api.cmd] = "starting"
          /\ api.kind = "RttCommand" => api.prog = << >>
          /\ \A i \in DOMAIN api.prog : api.prog[i].op = "unregister"
          /\ \A i \in DOMAIN event_cb : event_cb[i].cmd = api.cmd
                => event_cb[i].ev \in UnregisteredFrom(api.prog, api.pc)
    /\ api.mode = "cancel" =>
          /\ api.kind \in CancelledById
          /\ api.prog = CancelProgram(api.kind)
          /\ phase[api.cmd] \in {"stopping", "orphaned", "failed"}
          /\ \A i \in DOMAIN event_cb : event_cb[i].cmd = api.cmd
                => event_cb[i].ev \in UnregisteredFrom(api.prog, api.pc)
    /\ api.mode = "sweep" =>
          /\ api.cmd = NoCommand
          /\ api.kind \in CancelledByProxy
          /\ api.prog = CancelProgram(api.kind)
          /\ \A i \in DOMAIN event_cb : phase[event_cb[i].cmd] = "sweeping"
                => event_cb[i].ev \in UnregisteredFrom(api.prog, api.pc)

\* The event thread is inside a command that exists; an RTT command it is
\* inside of is not complete yet and its start() has no step left.
LoopInv ==
    /\ loop.pc = "idle" <=> loop.cmd = NoCommand
    /\ loop.pc # "idle" => phase[loop.cmd] # "unborn"
    /\ loop.pc \in {"notify", "drop"} => phase[loop.cmd] = "done"
    /\ loop.pc = "handle" /\ kind[loop.cmd] = "RttCommand" =>
          /\ phase[loop.cmd] \in {"starting", "started", "sweeping", "orphaned"}
          /\ phase[loop.cmd] = "starting" => api.mode = "start" /\ ~Running

\* The reference count of each command, in every phase.
RefsInv ==
    \A c \in Commands :
        /\ phase[c] = "unborn" => mRefs[c] = 0
        /\ phase[c] \in Active \cup {"orphaned", "failed"} => mRefs[c] = 1 + InFlight(c)
        /\ phase[c] = "cancelled" => mRefs[c] = InFlight(c)
        /\ phase[c] = "done" =>
              IF loop.cmd = c /\ loop.pc \in {"notify", "drop"} THEN mRefs[c] = 2
              ELSE mRefs[c] \in {InFlight(c), InFlight(c) + 1}

\* A command is in the table once, and never while or after it is cancelled.
TableInv ==
    /\ api.mode = "cancel" => \A i \in DOMAIN cmd : cmd[i] # api.cmd
    /\ \A i, j \in DOMAIN cmd : cmd[i] = cmd[j] => i = j
    /\ \A i \in DOMAIN cmd :
          /\ phase[cmd[i]] \in {"starting", "started", "sweeping", "orphaned",
                                "failed", "done"}
          /\ phase[cmd[i]] = "done" => loop = [pc |-> "notify", cmd |-> cmd[i]]
          /\ phase[cmd[i]] = "failed" => kind[cmd[i]] \notin UnlistedOnFailure

IInv ==
    /\ TypeOK
    /\ HandlersInv
    /\ PhaseInv
    /\ ApiInv
    /\ LoopInv
    /\ RefsInv
    /\ TableInv
=============================================================================
