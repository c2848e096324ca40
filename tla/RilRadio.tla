------------------------------ MODULE RilRadio -------------------------------
(***************************************************************************)
(* Radio power and the modem's questions in MT6735.java.  setRadioPower    *)
(* turns the whole modem off when airplane mode is on, and on again when   *)
(* it was; what it last saw of the setting is kept in the property         *)
(* persist.radio.airplane.mode.on, which the phones of both SIM slots      *)
(* share.  processUnsolicited answers the modem's questions with a request *)
(* of its own; its indications of USSD and of the packet network, which    *)
(* only notify registrants, are left out.                                  *)
(*                                                                         *)
(* The two phones are objects of one process; the framework calls both     *)
(* from its main thread, and each has a receiver thread and a socket to    *)
(* rild.  The framework, the user, rild and the modem are external: the    *)
(* framework asks for the radio of a phone to be as it should whenever it  *)
(* is not; rild turns the modem on at boot unless the property says true.  *)
(***************************************************************************)
EXTENDS Naturals, Sequences, SequencesExt

CONSTANTS
    Phones,        \* the SIM slots
    Undisturbed,   \* TRUE: the user changes nothing before the last change has
                   \* taken effect, and the process does not die between the
                   \* two halves of a call that turns the modem on
    MaxChanges,    \* changes by the user (a bound for TLC)
    MaxAsked,      \* indications of the modem (a bound for TLC)
    MaxFailures    \* deaths of the process and reboots (a bound for TLC)

ASSUME RadioAssumption ==
    /\ Undisturbed \in BOOLEAN
    /\ {MaxChanges, MaxAsked, MaxFailures} \subseteq Nat

VARIABLES
    airplane,    \* Settings.Global.AIRPLANE_MODE_ON
    persisted,   \* persist.radio.airplane.mode.on
    eboot,       \* gsm.ril.eboot
    wants,       \* whether the user wants the radio of each SIM
    calls,       \* the calls of setRadioPower that are due for each phone
    sending,     \* the request setRadioPower is about to send, with its phone
    queue,       \* the requests on each phone's socket to rild
    powered,     \* the modem is on
    radio,       \* the radio of each phone is on
    asked,       \* the questions of the modem to each phone
    inbox,       \* the indications each receiver thread has yet to read
    untold,      \* the framework has not been told of a call of this phone
    changes,     \* how much the user has changed so far
    asks,        \* how many indications there were so far
    failures     \* how many deaths and reboots there were so far

power == <<airplane, persisted, eboot, wants, calls, sending, powered, radio>>
talk == <<asked, inbox, untold>>
counts == <<changes, asks, failures>>
vars == <<power, queue, talk, counts>>

PowerRequests == {"MODEM_POWERON", "MODEM_POWEROFF", "RADIO_ON", "RADIO_OFF"}

\* What the modem waits for after each question.
Questions == {"REGISTRATION_SUSPENDED", "INCOMING_CALL", "SET_ATTACH_APN"}

Answer(q) ==
    CASE q = "REGISTRATION_SUSPENDED" -> "RESUME_REGISTRATION"
      [] q = "INCOMING_CALL"          -> "SET_CALL_INDICATION"
      [] q = "SET_ATTACH_APN"         -> "SET_INITIAL_ATTACH_APN"

Answers == {Answer(q) : q \in Questions}

NoRequest == [phone |-> "none", request |-> "none"]

Desired(p) == wants[p] /\ ~airplane

\* Nothing of the power of phone p is under way.
Idle(p) ==
    /\ calls[p] = << >> /\ sending.phone # p
    /\ \A r \in PowerRequests : ~Contains(queue[p], r)

\* The last change of the user has taken effect.
Settled == \A p \in Phones : Idle(p) /\ radio[p] = Desired(p)

Init ==
    /\ airplane = FALSE
    /\ persisted = FALSE
    /\ eboot = 0
    /\ wants \in [Phones -> BOOLEAN]
    /\ calls = [p \in Phones |-> << >>]
    /\ sending = NoRequest
    /\ queue = [p \in Phones |-> << >>]
    /\ powered = TRUE
    /\ radio = [p \in Phones |-> FALSE]
    /\ asked = [p \in Phones |-> {}]
    /\ inbox = [p \in Phones |-> << >>]
    /\ untold = [p \in Phones |-> FALSE]
    /\ changes = 0
    /\ asks = 0
    /\ failures = 0

-----------------------------------------------------------------------------
(***************************************************************************)
(* The user and the framework (external).                                  *)
(***************************************************************************)
Change == changes < MaxChanges /\ changes' = changes + 1 /\ UNCHANGED <<asks, failures>>

\* The call that makes the radio of phone p as it should now be, if it is not.
CallsFor(p) == IF radio[p] # Desired(p)' THEN Append(calls[p], Desired(p)') ELSE calls[p]

SetAirplane ==
    /\ Change
    /\ Undisturbed => Settled
    /\ airplane' = ~airplane
    /\ UNCHANGED wants
    /\ calls' = [p \in Phones |-> CallsFor(p)]
    /\ UNCHANGED <<persisted, eboot, sending, powered, radio, queue, talk>>

\* The radio of one SIM is switched.
SetSim(p) ==
    /\ Change
    /\ Undisturbed => Settled
    /\ wants' = [wants EXCEPT ![p] = ~@]
    /\ UNCHANGED airplane
    /\ calls' = [calls EXCEPT ![p] = CallsFor(p)]
    /\ UNCHANGED <<persisted, eboot, sending, powered, radio, queue, talk>>

\* The radio of a phone is not as it should be.
CallAgain(p) ==
    /\ Idle(p) /\ radio[p] # Desired(p)
    /\ calls' = [calls EXCEPT ![p] = <<Desired(p)>>]
    /\ UNCHANGED <<airplane, persisted, eboot, wants, sending, powered, radio, queue,
                   talk, counts>>

-----------------------------------------------------------------------------
(***************************************************************************)
(* setRadioPower, which the framework's main thread runs for one phone at  *)
(* a time.                                                                 *)
(***************************************************************************)

\* wasInApm is read after the property was set, and never differs from isInApm (a
\* mutant).
RequestForLate(on) ==
    CASE ~on /\ airplane -> "MODEM_POWEROFF"
      [] on              -> "RADIO_ON"
      [] OTHER           -> "RADIO_OFF"

\* What is sent, by the setting and what was seen of it before.
RequestFor(on) ==
    CASE on /\ persisted /\ ~airplane  -> "MODEM_POWERON"
      [] ~on /\ airplane               -> "MODEM_POWEROFF"
      [] on /\ (airplane \/ ~persisted) -> "RADIO_ON"
      [] ~on /\ ~airplane              -> "RADIO_OFF"

\* The setting is read and persisted, and the request chosen.
DecideRadioPower(p) ==
    /\ sending = NoRequest /\ calls[p] # << >>
    /\ sending' = [phone |-> p, request |-> RequestFor(Head(calls[p]))]
    /\ persisted' = airplane
    /\ calls' = [calls EXCEPT ![p] = Tail(@)]
    /\ UNCHANGED <<airplane, eboot, wants, powered, radio, queue, talk, counts>>

\* gsm.ril.eboot is only ever set (a mutant).
EbootOnlySet ==
    IF sending.request = "MODEM_POWEROFF" THEN 1 ELSE eboot

Eboot ==
    CASE sending.request = "MODEM_POWERON"  -> 0
      [] sending.request = "MODEM_POWEROFF" -> 1
      [] OTHER                              -> eboot

\* gsm.ril.eboot is set and the request sent.
SendRadioPower ==
    /\ sending # NoRequest
    /\ eboot' = Eboot
    /\ queue' = [queue EXCEPT ![sending.phone] = Append(@, sending.request)]
    /\ sending' = NoRequest
    /\ UNCHANGED <<airplane, persisted, wants, calls, powered, radio, talk, counts>>

-----------------------------------------------------------------------------
(***************************************************************************)
(* rild and the modem (external).                                          *)
(***************************************************************************)
ServePower(p) ==
    /\ queue[p] # << >> /\ Head(queue[p]) \in PowerRequests
    /\ LET r == Head(queue[p])
       IN  /\ powered' = IF r = "MODEM_POWERON" THEN TRUE
                         ELSE IF r = "MODEM_POWEROFF" THEN FALSE ELSE powered
           /\ radio' = IF ~powered' THEN [s \in Phones |-> FALSE]
                       ELSE CASE r = "RADIO_ON"  -> [radio EXCEPT ![p] = TRUE]
                              [] r = "RADIO_OFF" -> [radio EXCEPT ![p] = FALSE]
                              [] OTHER           -> radio
    /\ asked' = IF powered' THEN asked ELSE [s \in Phones |-> {}]
    /\ queue' = [queue EXCEPT ![p] = Tail(@)]
    /\ UNCHANGED <<airplane, persisted, eboot, wants, calls, sending, inbox, untold, counts>>

ServeAnswer(p) ==
    /\ queue[p] # << >> /\ Head(queue[p]) \in Answers
    /\ asked' = [asked EXCEPT ![p] = {q \in @ : Answer(q) # Head(queue[p])}]
    /\ queue' = [queue EXCEPT ![p] = Tail(@)]
    /\ UNCHANGED <<power, inbox, untold, counts>>

Indicate(p, i) ==
    /\ powered /\ asks < MaxAsked
    /\ asks' = asks + 1
    /\ inbox' = [inbox EXCEPT ![p] = Append(@, i)]
    /\ UNCHANGED <<power, queue, changes, failures>>

\* The modem asks, and waits for the answer.
Ask(p, q) ==
    /\ Indicate(p, q)
    /\ q \notin asked[p]
    /\ asked' = [asked EXCEPT ![p] = @ \cup {q}]
    /\ untold' = [untold EXCEPT ![p] = @ \/ q = "INCOMING_CALL"]

\* A call has ended (129), or made other progress.
CallInfo(p, ended) ==
    /\ Indicate(p, IF ended THEN "CALL_ENDED" ELSE "CALL_PROGRESS")
    /\ untold' = [untold EXCEPT ![p] = @ \/ ended]
    /\ UNCHANGED asked

-----------------------------------------------------------------------------
(***************************************************************************)
(* The receiver threads.                                                   *)
(***************************************************************************)

\* The attach request is left to the framework (a mutant).
RepliesButApn(i) ==
    IF i \in Questions \ {"SET_ATTACH_APN"} THEN <<Answer(i)>> ELSE << >>

\* What the response functions send back to the modem.
Replies(i) == IF i \in Questions THEN <<Answer(i)>> ELSE << >>

\* Whether the registrants of the call state are notified: of an incoming call,
\* and of call information only when responseCallProgress returns null.
Notifies(i) == i \in {"INCOMING_CALL", "CALL_ENDED"}

processUnsolicited(p) ==
    /\ inbox[p] # << >>
    /\ inbox' = [inbox EXCEPT ![p] = Tail(@)]
    /\ queue' = [queue EXCEPT ![p] = @ \o Replies(Head(inbox[p]))]
    /\ untold' = [untold EXCEPT ![p] = @ /\ ~Notifies(Head(inbox[p]))]
    /\ UNCHANGED <<power, asked, counts>>

-----------------------------------------------------------------------------
Fail == failures < MaxFailures /\ failures' = failures + 1 /\ UNCHANGED <<changes, asks>>

\* The phone process dies and starts again: what rild has got it serves, what is
\* on its way to the process is lost, and the framework polls the calls anew.
PhoneDies ==
    /\ Fail
    /\ Undisturbed => sending.request # "MODEM_POWERON"
    /\ calls' = [p \in Phones |-> << >>]
    /\ sending' = NoRequest
    /\ inbox' = [p \in Phones |-> << >>]
    /\ untold' = [p \in Phones |-> FALSE]
    /\ UNCHANGED <<airplane, persisted, eboot, wants, powered, radio, queue, asked>>

Reboot ==
    /\ Fail
    /\ calls' = [p \in Phones |-> << >>]
    /\ sending' = NoRequest
    /\ queue' = [p \in Phones |-> << >>]
    /\ powered' = ~persisted
    /\ eboot' = 0
    /\ radio' = [p \in Phones |-> FALSE]
    /\ asked' = [p \in Phones |-> {}]
    /\ inbox' = [p \in Phones |-> << >>]
    /\ untold' = [p \in Phones |-> FALSE]
    /\ UNCHANGED <<airplane, persisted, wants>>

\* What goes on by itself for one phone.
Proceeds(p) ==
    \/ CallAgain(p)
    \/ DecideRadioPower(p)
    \/ ServePower(p)
    \/ ServeAnswer(p)

Next ==
    \/ SetAirplane
    \/ SendRadioPower
    \/ \E p \in Phones :
          \/ SetSim(p)
          \/ Proceeds(p)
          \/ processUnsolicited(p)
          \/ \E q \in Questions : Ask(p, q)
          \/ \E ended \in BOOLEAN : CallInfo(p, ended)
    \/ PhoneDies
    \/ Reboot

Spec == Init /\ [][Next]_vars

\* The main thread, the receiver threads and rild are scheduled.
FairSpec ==
    /\ Spec
    /\ WF_vars(SendRadioPower)
    /\ \A p \in Phones :
          /\ WF_vars(CallAgain(p))
          /\ SF_vars(DecideRadioPower(p))
          /\ WF_vars(ServePower(p) \/ ServeAnswer(p))
          /\ WF_vars(processUnsolicited(p))

-----------------------------------------------------------------------------
(***************************************************************************)
(* Properties.                                                             *)
(***************************************************************************)
Requests == PowerRequests \cup Answers
Indications == Questions \cup {"CALL_ENDED", "CALL_PROGRESS"}

\* Every variable has its type.
TypeOK ==
    /\ {airplane, persisted, powered} \subseteq BOOLEAN
    /\ eboot \in {0, 1}
    /\ {wants, radio, untold} \subseteq [Phones -> BOOLEAN]
    /\ calls \in [Phones -> Seq(BOOLEAN)]
    /\ sending \in [phone : Phones, request : PowerRequests] \cup {NoRequest}
    /\ queue \in [Phones -> Seq(Requests)]
    /\ asked \in [Phones -> SUBSET Questions]
    /\ inbox \in [Phones -> Seq(Indications)]

\* When nothing is under way, the modem is off just when the property, which
\* both phones share and each call overwrites, says that it was turned off, so
\* that the call that is to turn it on again will; and when it is on rild is told
\* to start it at the next start (gsm.ril.eboot).
PowerAsPersisted ==
    Settled => /\ powered = ~persisted
               /\ powered => eboot = 0

\* Once the user changes nothing any more and nothing fails, every radio comes to
\* be as the user wants it, off in airplane mode, and stays so.
RadioAsWanted == \A p \in Phones : <>[](radio[p] = Desired(p))

QuestionsAnswered(p) ==
    \A q \in Questions, n \in 0..MaxFailures :
        (Contains(inbox[p], q) /\ failures = n) ~> (q \notin asked[p] \/ failures > n)

CallsTold(p) == untold[p] ~> ~untold[p]

\* Every question that reaches the phone is answered, unless the process dies
\* before; and the framework is told of every call that comes or ends, although
\* call progress is kept from it.
IndicationsHandled == \A p \in Phones : QuestionsAnswered(p) /\ CallsTold(p)
=============================================================================
