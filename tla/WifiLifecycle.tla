--------------------------- MODULE WifiLifecycle ----------------------------
(***************************************************************************)
(* How the HAL is brought up and taken down: wifi_initialize, the entry    *)
(* and the exit of wifi_event_loop, wifi_cleanup, wifi_internal_cleanup    *)
(* and the socket pair that ends a blocking poll.  The framework calls     *)
(* from one thread and runs wifi_event_loop in another, one for each time  *)
(* the HAL is brought up (a life).  hal_info belongs to a life;            *)
(* exit_sockets is a static of the library and is shared by all lives.     *)
(*                                                                         *)
(* No lock protects any of it: each step below touches what one statement  *)
(* of the code touches.                                                    *)
(***************************************************************************)
EXTENDS Naturals

CONSTANTS
    MaxLives,      \* how often the framework brings the HAL up (a bound for TLC)
    Undisturbed    \* TRUE: three windows of the code are never hit:
                   \*   wifi_cleanup is not called while the loop starts or
                   \*   has just ended, nor the loop once it was called;
                   \*   the loop does not end between the two statements of
                   \*   wifi_cleanup; and the next wifi_initialize awaits the
                   \*   end of the cleanup, not only the handler

ASSUME LifecycleAssumption ==
    /\ MaxLives \in Nat
    /\ Undisturbed \in BOOLEAN

VARIABLES
    hal,             \* hal_info of each life
    in_event_loop,   \* hal_info.in_event_loop
    clean_up,        \* hal_info.clean_up
    exit_sockets,    \* the life whose loop made the pair that is open, or NoPair
    signalled,       \* whether 'T' waits in the pair of a life
    cleanups,        \* how often wifi_internal_cleanup ran for a life
    loop,            \* where the thread that runs wifi_event_loop is
    api,             \* where the framework's thread is in wifi_cleanup
    life             \* the life that was begun last

vars == <<hal, in_event_loop, clean_up, exit_sockets, signalled, cleanups,
          loop, api, life>>

Lives == 1..MaxLives

NoPair == 0

\* The loop's thread still reads hal_info, or polls for it.
Active == {"entered", "paired", "polling", "handling", "checking", "leaving", "left"}

LoopPcs == {"out", "cleaning", "closing", "over"} \cup Active

Init ==
    /\ hal = [l \in Lives |-> "none"]
    /\ in_event_loop = [l \in Lives |-> FALSE]
    /\ clean_up = [l \in Lives |-> FALSE]
    /\ exit_sockets = NoPair
    /\ signalled = [l \in Lives |-> FALSE]
    /\ cleanups = [l \in Lives |-> 0]
    /\ loop = [l \in Lives |-> "out"]
    /\ api = "idle"
    /\ life = 0

-----------------------------------------------------------------------------
(***************************************************************************)
(* wifi_internal_cleanup: everything up to the call of cleaned_up_handler, *)
(* and what comes after it.  The framework may act on the handler at once. *)
(***************************************************************************)
CleanUpAndNotify(l) ==
    /\ hal' = [hal EXCEPT ![l] = "cleaned"]
    /\ cleanups' = [cleanups EXCEPT ![l] = @ + 1]

FreeAndClose(l) ==
    /\ hal' = [hal EXCEPT ![l] = "freed"]
    /\ exit_sockets' = NoPair

(***************************************************************************)
(* The framework's thread.  It brings the HAL up again when the handler    *)
(* has told it that the last life is over.                                 *)
(***************************************************************************)
MayInitialize ==
    /\ api = "idle"
    /\ life < MaxLives
    /\ life > 0 => hal[life] \in (IF Undisturbed THEN {"freed"} ELSE {"cleaned", "freed"})

wifi_initialize ==
    /\ MayInitialize
    /\ life' = life + 1
    /\ hal' = [hal EXCEPT ![life + 1] = "live"]
    /\ UNCHANGED <<in_event_loop, clean_up, exit_sockets, signalled, cleanups, loop, api>>

\* An initialisation that fails undoes itself with wifi_internal_cleanup, which
\* closes the pair whoever made it.
InitializeFails ==
    /\ MayInitialize
    /\ exit_sockets' = NoPair
    /\ UNCHANGED <<hal, in_event_loop, clean_up, signalled, cleanups, loop, api, life>>

\* wifi_cleanup: the handler and clean_up are set.
BeginCleanup ==
    /\ api = "idle" /\ life > 0
    /\ hal[life] = "live" /\ ~clean_up[life]
    /\ Undisturbed => loop[life] \notin {"entered", "paired", "left"}
    /\ clean_up' = [clean_up EXCEPT ![life] = TRUE]
    /\ api' = "test"
    /\ UNCHANGED <<hal, in_event_loop, exit_sockets, signalled, cleanups, loop, life>>

\* The loop is not looked at: the caller always cleans up (a mutant).
TestLoopIgnored ==
    /\ api = "test"
    /\ api' = "cleaning"
    /\ UNCHANGED <<hal, in_event_loop, clean_up, exit_sockets, signalled, cleanups, loop, life>>

\* wifi_cleanup: a running loop is sent 'T' and cleans up, else the caller does.
TestLoop ==
    /\ api = "test"
    /\ IF in_event_loop[life] /\ exit_sockets # NoPair
         THEN /\ signalled' = [signalled EXCEPT ![exit_sockets] = TRUE]
              /\ api' = "idle"
         ELSE /\ api' = "cleaning"
              /\ UNCHANGED signalled
    /\ UNCHANGED <<hal, in_event_loop, clean_up, exit_sockets, cleanups, loop, life>>

CallerCleansUp ==
    /\ api = "cleaning"
    /\ CleanUpAndNotify(life)
    /\ api' = "closing"
    /\ UNCHANGED <<in_event_loop, clean_up, exit_sockets, signalled, loop, life>>

CallerCloses ==
    /\ api = "closing"
    /\ FreeAndClose(life)
    /\ api' = "idle"
    /\ UNCHANGED <<in_event_loop, clean_up, signalled, cleanups, loop, life>>

-----------------------------------------------------------------------------
(***************************************************************************)
(* The thread that runs wifi_event_loop of life l.                         *)
(***************************************************************************)
At(l, pc) == loop[l] = pc
Goto(l, pc) == loop' = [loop EXCEPT ![l] = pc]

\* The loop is called for a HAL that is up; it returns at once when
\* in_event_loop says that it runs already.
Enter(l) ==
    /\ At(l, "out") /\ hal[l] = "live" /\ ~in_event_loop[l]
    /\ Undisturbed => ~clean_up[l]
    /\ Goto(l, "entered")
    /\ UNCHANGED <<hal, in_event_loop, clean_up, exit_sockets, signalled, cleanups, api, life>>

MakePair(l) ==
    /\ At(l, "entered")
    /\ exit_sockets' = l
    /\ signalled' = [signalled EXCEPT ![l] = FALSE]
    /\ Goto(l, "paired")
    /\ UNCHANGED <<hal, in_event_loop, clean_up, cleanups, api, life>>

\* The loop goes on without a pair (a mutant).
MakePairUnchecked(l) ==
    /\ At(l, "entered")
    /\ Goto(l, "paired")
    /\ UNCHANGED <<hal, in_event_loop, clean_up, exit_sockets, signalled, cleanups, api, life>>

MakePairFails(l) ==
    /\ At(l, "entered")
    /\ Goto(l, "out")
    /\ UNCHANGED <<hal, in_event_loop, clean_up, exit_sockets, signalled, cleanups, api, life>>

\* The flag is never set (a mutant).
SetInEventLoopForgotten(l) ==
    /\ At(l, "paired")
    /\ Goto(l, "polling")
    /\ UNCHANGED <<hal, in_event_loop, clean_up, exit_sockets, signalled, cleanups, api, life>>

SetInEventLoop(l) ==
    /\ At(l, "paired")
    /\ in_event_loop' = [in_event_loop EXCEPT ![l] = TRUE]
    /\ Goto(l, "polling")
    /\ UNCHANGED <<hal, clean_up, exit_sockets, signalled, cleanups, api, life>>

\* poll watches the pair that is open now; 'T' comes before any event.
Woken == exit_sockets # NoPair /\ signalled[exit_sockets]

ReadExit(l) ==
    /\ At(l, "polling") /\ Woken
    /\ signalled' = [signalled EXCEPT ![exit_sockets] = FALSE]
    /\ Goto(l, "leaving")
    /\ UNCHANGED <<hal, in_event_loop, clean_up, exit_sockets, cleanups, api, life>>

ReceiveEvent(l) ==
    /\ At(l, "polling") /\ ~Woken
    /\ Goto(l, "handling")
    /\ UNCHANGED <<hal, in_event_loop, clean_up, exit_sockets, signalled, cleanups, api, life>>

\* poll fails: on EINTR the loop goes on to its condition, else it leaves.
PollFails(l) ==
    /\ At(l, "polling")
    /\ \E pc \in {"checking", "leaving"} : Goto(l, pc)
    /\ UNCHANGED <<hal, in_event_loop, clean_up, exit_sockets, signalled, cleanups, api, life>>

\* internal_event_handler returns.
HandleEvents(l) ==
    /\ At(l, "handling")
    /\ Goto(l, "checking")
    /\ UNCHANGED <<hal, in_event_loop, clean_up, exit_sockets, signalled, cleanups, api, life>>

CheckCleanUp(l) ==
    /\ At(l, "checking")
    /\ Goto(l, IF clean_up[l] THEN "leaving" ELSE "polling")
    /\ UNCHANGED <<hal, in_event_loop, clean_up, exit_sockets, signalled, cleanups, api, life>>

ClearInEventLoop(l) ==
    /\ At(l, "leaving")
    /\ Undisturbed => api # "test"
    /\ in_event_loop' = [in_event_loop EXCEPT ![l] = FALSE]
    /\ Goto(l, "left")
    /\ UNCHANGED <<hal, clean_up, exit_sockets, signalled, cleanups, api, life>>

\* The loop returns and leaves the cleanup to nobody (a mutant).
LeaveWithoutCleanup(l) ==
    /\ At(l, "left")
    /\ Goto(l, "out")
    /\ UNCHANGED <<hal, in_event_loop, clean_up, exit_sockets, signalled, cleanups, api, life>>

\* A loop that ends without being asked to can be called again.
Leave(l) ==
    /\ At(l, "left")
    /\ Goto(l, IF clean_up[l] THEN "cleaning" ELSE "out")
    /\ UNCHANGED <<hal, in_event_loop, clean_up, exit_sockets, signalled, cleanups, api, life>>

LoopCleansUp(l) ==
    /\ At(l, "cleaning")
    /\ CleanUpAndNotify(l)
    /\ Goto(l, "closing")
    /\ UNCHANGED <<in_event_loop, clean_up, exit_sockets, signalled, api, life>>

LoopCloses(l) ==
    /\ At(l, "closing")
    /\ FreeAndClose(l)
    /\ Goto(l, "over")
    /\ UNCHANGED <<in_event_loop, clean_up, signalled, cleanups, api, life>>

-----------------------------------------------------------------------------
\* wifi_cleanup, once it is called, runs to its end.
CleanupStep == TestLoop \/ CallerCleansUp \/ CallerCloses

\* What the loop does without anything from outside.
LoopStep(l) ==
    \/ MakePair(l)
    \/ SetInEventLoop(l)
    \/ ReadExit(l)
    \/ HandleEvents(l)
    \/ CheckCleanUp(l)
    \/ ClearInEventLoop(l)
    \/ Leave(l)
    \/ LoopCleansUp(l)
    \/ LoopCloses(l)

Outside(l) == Enter(l) \/ MakePairFails(l) \/ ReceiveEvent(l) \/ PollFails(l)

Next ==
    \/ wifi_initialize
    \/ InitializeFails
    \/ BeginCleanup
    \/ CleanupStep
    \/ \E l \in Lives : LoopStep(l) \/ Outside(l)

Spec == Init /\ [][Next]_vars

\* Both threads are scheduled.  Nothing obliges the framework to begin a
\* cleanup or to call the loop, or the driver to send events.
FairSpec == Spec /\ WF_vars(CleanupStep) /\ \A l \in Lives : WF_vars(LoopStep(l))

-----------------------------------------------------------------------------
(***************************************************************************)
(* Properties.                                                             *)
(***************************************************************************)

\* Every variable has its type; a life is cleaned up once at most: the loop and
\* the caller of wifi_cleanup never both run wifi_internal_cleanup.
TypeOK ==
    /\ hal \in [Lives -> {"none", "live", "cleaned", "freed"}]
    /\ in_event_loop \in [Lives -> BOOLEAN]
    /\ clean_up \in [Lives -> BOOLEAN]
    /\ exit_sockets \in Lives \cup {NoPair}
    /\ signalled \in [Lives -> BOOLEAN]
    /\ cleanups \in [Lives -> 0..1]
    /\ loop \in [Lives -> LoopPcs]
    /\ api \in {"idle", "test", "cleaning", "closing"}
    /\ life \in 0..MaxLives

\* The caller of wifi_cleanup frees hal_info only when the event loop is not
\* active, as in_event_loop tells it ("Indicates that event loop is active",
\* common.h:115).
InactiveWhenFreed ==
    api \in {"cleaning", "closing"} => loop[life] \in {"out", "over"}

\* hal_info is there for as long as a thread reads it: from the call of the
\* loop to its last test of clean_up, and in wifi_cleanup.
UsedWhileLive ==
    /\ \A l \in Lives : loop[l] \in Active => hal[l] = "live"
    /\ api = "test" => hal[life] = "live"

\* A loop that runs watches a pair of its own, so that its 'T' reaches it:
\* the end of an earlier life does not close the pair of a later one.
PairIsOwn ==
    \A l \in Lives :
        loop[l] \in {"polling", "handling", "checking"} => exit_sockets = l

(***************************************************************************)
(* The inductive invariant of WifiLifecycleProofs, for Undisturbed.        *)
(***************************************************************************)
Idle(l) == loop[l] \in {"out", "over"}

Flagged == {"polling", "handling", "checking", "leaving"}

\* Only the last life is in use.
OneLife ==
    \A l \in Lives :
        /\ l > life => hal[l] = "none" /\ ~clean_up[l] /\ Idle(l)
        /\ l < life => hal[l] = "freed" /\ Idle(l)

\* Where the loop is tells what it may rely on.
LoopInv ==
    \A l \in Lives :
        /\ in_event_loop[l] <=> loop[l] \in Flagged
        /\ loop[l] \in {"paired", "left"} \cup Flagged => exit_sockets = l
        /\ loop[l] \in {"entered", "paired"} => ~clean_up[l]
        /\ loop[l] \in Active => hal[l] = "live"
        /\ loop[l] = "cleaning" => hal[l] = "live" /\ clean_up[l]
        /\ loop[l] = "closing" => hal[l] = "cleaned"
        /\ loop[l] = "over" => hal[l] = "freed"
        /\ hal[l] \in {"none", "live"} => cleanups[l] = 0

\* Where wifi_cleanup is tells the same of the last life.
ApiInv ==
    /\ api # "idle" => life \in Lives /\ clean_up[life]
    /\ api = "test" => hal[life] = "live" /\ loop[life] \in {"out"} \cup Flagged
    /\ api = "cleaning" => hal[life] = "live" /\ loop[life] = "out"
    /\ api = "closing" => hal[life] = "cleaned" /\ loop[life] = "out"

IInv == TypeOK /\ OneLife /\ LoopInv /\ ApiInv

\* A cleanup that was begun comes to its end, although the loop may block in
\* poll for ever without an event: 'T' wakes it.
CleanupCompletes ==
    \A l \in Lives : clean_up[l] ~> hal[l] = "freed"
=============================================================================
