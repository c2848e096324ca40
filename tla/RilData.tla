------------------------------ MODULE RilData -------------------------------
(***************************************************************************)
(* Data calls in MT6735.java: the table dataCallCids, which stands for the *)
(* network interfaces in use, as setupDataCall, the answer to it and       *)
(* deactivateDataCall change it.  setupDataCall sends the number of an     *)
(* interface with the request; which one it sent is not remembered, and    *)
(* the answer's call id goes to the first free entry of the table.         *)
(*                                                                         *)
(* The framework above and the modem below are external: the framework     *)
(* deactivates the calls it knows of, the modem answers requests, drops    *)
(* calls of its own accord, and may reset, on which the superclass fails   *)
(* every request that is out.  An answer whose data tell of a failure may  *)
(* have a call id all the same, which takes an entry; and an answer with   *)
(* data loses its error, so that the framework goes by the data alone.     *)
(***************************************************************************)
EXTENDS Integers, FiniteSets, FiniteSetsExt

CONSTANTS
    Serials,       \* requests that can be out at once
    Cids,          \* the call ids the modem hands out
    OneAtATime,    \* TRUE: the framework awaits the end of each request
    MaxLost,       \* how many calls the modem ever drops (a bound for TLC)
    MaxRefused     \* after so many, no refusal names a call id (a bound for TLC)

ASSUME DataAssumption ==
    /\ Cids \subseteq Nat /\ IsFiniteSet(Cids)
    /\ OneAtATime \in BOOLEAN
    /\ MaxLost \in Nat /\ MaxRefused \in Nat

VARIABLES
    dataCallCids,  \* the table; an entry that is in use holds a call id
    requests,      \* each setup request that is out: interface, stage, answer
    calls,         \* the calls that are up in the modem
    known,         \* the call ids the framework has been told of
    closing,       \* the call ids whose deactivation is on its way
    lost,          \* how many calls the modem has dropped so far
    refused        \* how many refusals that name a call id were taken so far

vars == <<dataCallCids, requests, calls, known, closing, lost, refused>>

\* The array has five entries; every loop stops after the fourth.
Slots == 0..3

Free == -1

NoRequest == [stage |-> "none", interfaceId |-> 0, cid |-> Free, up |-> FALSE]

Sent(i) == [stage |-> "sent", interfaceId |-> i, cid |-> Free, up |-> FALSE]

\* up: the status in the data is that of a call that is up.
Answered(i, cid, up) == [stage |-> "answered", interfaceId |-> i, cid |-> cid, up |-> up]

Out(s) == requests[s].stage # "none"

\* The first entry of the table that holds v, or none.
NoSlot == 4

FirstSlot(v) ==
    LET S == {i \in Slots : dataCallCids[i] = v}
    IN  IF S = {} THEN NoSlot ELSE Min(S)

\* The last one instead (a mutant).
LastSlot(v) ==
    LET S == {i \in Slots : dataCallCids[i] = v}
    IN  IF S = {} THEN NoSlot ELSE Max(S)

Quiet == closing = {} /\ \A s \in Serials : ~Out(s)

-----------------------------------------------------------------------------
Init ==
    /\ dataCallCids = [i \in Slots |-> Free]
    /\ requests = [s \in Serials |-> NoRequest]
    /\ calls = {}
    /\ known = {}
    /\ closing = {}
    /\ lost = 0
    /\ refused = 0

\* interfaceId in setupDataCall; it stays 0 when every entry is in use.
InterfaceId ==
    LET i == FirstSlot(Free) IN IF i = NoSlot THEN 0 ELSE i + 1

\* setupDataCall.
SetupDataCall(s) ==
    /\ ~Out(s)
    /\ OneAtATime => Quiet
    /\ requests' = [requests EXCEPT ![s] = Sent(InterfaceId)]
    /\ UNCHANGED <<dataCallCids, calls, known, closing, lost, refused>>

\* No call has the id, and none is about to be reported with it.
Fresh(cid) ==
    /\ cid \notin known \cup closing
    /\ \A call \in calls : call.cid # cid
    /\ \A s \in Serials : requests[s].up => requests[s].cid # cid

\* The modem sets up the call on the interface it was given.
ModemAccepts(s, cid) ==
    /\ requests[s].stage = "sent"
    /\ Fresh(cid)
    /\ calls' = calls \cup {[cid |-> cid, interfaceId |-> requests[s].interfaceId]}
    /\ requests' = [requests EXCEPT ![s] = Answered(@.interfaceId, cid, TRUE)]
    /\ UNCHANGED <<dataCallCids, known, closing, lost, refused>>

\* It answers with an error, but with the data of a call that is up.
ModemErrs(s, cid) ==
    /\ requests[s].stage = "sent"
    /\ Fresh(cid)
    /\ requests' = [requests EXCEPT ![s] = Answered(@.interfaceId, cid, TRUE)]
    /\ UNCHANGED <<dataCallCids, calls, known, closing, lost, refused>>

\* It answers with an error and no data, or with data whose status is a
\* failure; such data may name any call id, one of a call that is up too.
ModemRefuses(s, cid) ==
    /\ requests[s].stage = "sent"
    /\ cid # Free => refused < MaxRefused
    /\ requests' = [requests EXCEPT ![s] = Answered(@.interfaceId, cid, FALSE)]
    /\ UNCHANGED <<dataCallCids, calls, known, closing, lost, refused>>

\* Stores the answer in the last free entry (a mutant).
StoreInLastFree(cid) ==
    IF cid = Free \/ LastSlot(Free) = NoSlot THEN dataCallCids
    ELSE [dataCallCids EXCEPT ![LastSlot(Free)] = cid]

\* fetchCidFromDataCall: the first free entry, whichever interface was asked for
\* and whatever the status is.
Store(cid) ==
    IF cid = Free \/ FirstSlot(Free) = NoSlot THEN dataCallCids
    ELSE [dataCallCids EXCEPT ![FirstSlot(Free)] = cid]

\* The call ids that the framework takes from the answer: it sees no error of an
\* answer with data, and goes by the status (external).
Told(s) == {cid \in Cids : requests[s].up /\ requests[s].cid = cid}

\* processSolicited for RIL_REQUEST_SETUP_DATA_CALL, and the message to the
\* framework.
ProcessSolicited(s) ==
    /\ requests[s].stage = "answered"
    /\ dataCallCids' = Store(requests[s].cid)
    /\ known' = known \cup Told(s)
    /\ requests' = [requests EXCEPT ![s] = NoRequest]
    /\ refused' = IF requests[s].up \/ requests[s].cid = Free THEN refused ELSE refused + 1
    /\ UNCHANGED <<calls, closing, lost>>

\* The entry after the one that is meant (a mutant).
ReleaseNext(cid) ==
    IF FirstSlot(cid) \in {NoSlot, 3} THEN dataCallCids
    ELSE [dataCallCids EXCEPT ![FirstSlot(cid) + 1] = Free]

\* Nothing is given back (a mutant).
ReleaseNothing(cid) == dataCallCids

\* The loop of deactivateDataCall: the first entry that holds the call id.
ReleaseSlot(cid) ==
    IF FirstSlot(cid) = NoSlot THEN dataCallCids
    ELSE [dataCallCids EXCEPT ![FirstSlot(cid)] = Free]

\* deactivateDataCall: the entry is free before the modem has seen the request.
DeactivateDataCall(cid) ==
    /\ cid \in known
    /\ OneAtATime => Quiet
    /\ dataCallCids' = ReleaseSlot(cid)
    /\ known' = known \ {cid}
    /\ closing' = closing \cup {cid}
    /\ UNCHANGED <<requests, calls, lost, refused>>

ModemDeactivates(cid) ==
    /\ cid \in closing
    /\ closing' = closing \ {cid}
    /\ calls' = {call \in calls : call.cid # cid}
    /\ UNCHANGED <<dataCallCids, requests, known, lost, refused>>

\* A call is lost and the framework takes note of it without deactivating it.
ModemDrops(cid) ==
    /\ cid \in known
    /\ lost < MaxLost
    /\ lost' = lost + 1
    /\ known' = known \ {cid}
    /\ calls' = {call \in calls : call.cid # cid}
    /\ UNCHANGED <<dataCallCids, requests, closing, refused>>

\* The modem or rild restarts: every call is gone and every request fails
\* (external).  No code clears the table.
ModemResets ==
    /\ lost + Cardinality(known) <= MaxLost
    /\ lost' = lost + Cardinality(known)
    /\ calls' = {}
    /\ known' = {}
    /\ closing' = {}
    /\ requests' = [s \in Serials |-> NoRequest]
    /\ UNCHANGED <<dataCallCids, refused>>

Next ==
    \/ \E s \in Serials :
          \/ SetupDataCall(s)
          \/ ProcessSolicited(s)
          \/ \E cid \in Cids : ModemAccepts(s, cid) \/ ModemErrs(s, cid)
          \/ \E cid \in Cids \cup {Free} : ModemRefuses(s, cid)
    \/ \E cid \in Cids :
          \/ DeactivateDataCall(cid)
          \/ ModemDeactivates(cid)
          \/ ModemDrops(cid)
    \/ ModemResets

Spec == Init /\ [][Next]_vars

-----------------------------------------------------------------------------
(***************************************************************************)
(* Properties.                                                             *)
(***************************************************************************)

\* Every variable has its type; the interface that is sent is one of the four,
\* or 0.
TypeOK ==
    /\ dataCallCids \in [Slots -> Cids \cup {Free}]
    /\ requests \in [Serials -> [stage : {"none", "sent", "answered"},
                                 interfaceId : 0..4,
                                 cid : Cids \cup {Free},
                                 up : BOOLEAN]]
    /\ calls \subseteq [cid : Cids, interfaceId : 0..4]
    /\ known \subseteq Cids
    /\ closing \subseteq Cids
    /\ lost \in 0..MaxLost
    /\ refused \in Nat

\* The interface of a call that is up, or asked for, is not the interface of
\* another ("Find the first available interfaceId", MT6735.java:275).
InterfacesDistinct ==
    /\ \A a, b \in calls : a.interfaceId = b.interfaceId /\ a.interfaceId # 0 => a = b
    /\ \A s \in Serials, a \in calls :
          requests[s].stage = "sent" /\ requests[s].interfaceId # 0
            => a.interfaceId # requests[s].interfaceId

\* The entry of the interface a known call runs on holds that call's id,
\* although the code never records which interface it asked for: the entry
\* found by the answer is the one found by the request.
InterfaceOfCall ==
    \A call \in calls :
        call.cid \in known /\ call.interfaceId # 0
          => dataCallCids[call.interfaceId - 1] = call.cid

InUse == {i \in Slots : dataCallCids[i] # Free}

\* The known calls that have an entry.
Held == {cid \in known : \E i \in Slots : dataCallCids[i] = cid}

\* An entry outlives its call only when the framework was never to deactivate
\* it: for a call the modem dropped, or for a refusal that named a call id.
\* Every other one is given back, although the entry deactivateDataCall clears
\* may be that of a refusal, and a call may have found the table full.
EntriesAccountedFor ==
    Cardinality(InUse) <= Cardinality(Held) + lost + refused

-----------------------------------------------------------------------------
(***************************************************************************)
(* The inductive invariant behind InterfacesDistinct and InterfaceOfCall,  *)
(* for a framework that awaits the end of each request.                    *)
(***************************************************************************)

\* The one request that is out still has the interface the table would give
\* now: the table does not change while it is out.
RequestInv ==
    /\ \A s, t \in Serials : Out(s) /\ Out(t) => s = t
    /\ \A s \in Serials : Out(s) =>
          /\ closing = {}
          /\ requests[s].interfaceId = InterfaceId
    /\ \A s \in Serials : requests[s].up =>
          /\ requests[s].stage = "answered"
          /\ requests[s].cid \notin known
          /\ \A a \in calls : a.cid = requests[s].cid
                               => a.interfaceId = requests[s].interfaceId

\* A call that is up is known, on its way down, or just reported.
CallInv ==
    /\ \A a, b \in calls : a.cid = b.cid => a = b
    /\ \A a, b \in calls : a.interfaceId = b.interfaceId /\ a.interfaceId # 0 => a = b
    /\ \A a \in calls :
          \/ a.cid \in known \cup closing
          \/ \E s \in Serials : requests[s].up /\ requests[s].cid = a.cid
    /\ known \cap closing = {}

IInv == TypeOK /\ RequestInv /\ CallInv /\ InterfaceOfCall
=============================================================================
