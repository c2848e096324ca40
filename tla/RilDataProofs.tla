--------------------------- MODULE RilDataProofs ----------------------------
(***************************************************************************)
(* Data calls do not share an interface, whatever the modem answers, drops *)
(* or forgets, provided the framework awaits the end of each request.  The *)
(* argument: while a request is out the table stays as it was when the     *)
(* request chose its interface, so the entry the answer takes is the entry *)
(* of that interface.  And whether it awaits them or not, only calls that  *)
(* the modem dropped, and refusals that name a call id, leave an entry in  *)
(* use.                                                                    *)
(***************************************************************************)
EXTENDS RilData, FiniteSetTheorems, TLAPS

\* The first entry that holds a value, when there is one.
LEMMA FirstSlotFacts ==
    ASSUME NEW v
    PROVE  \/ /\ FirstSlot(v) \in Slots
              /\ dataCallCids[FirstSlot(v)] = v
           \/ /\ FirstSlot(v) = NoSlot
              /\ \A i \in Slots : dataCallCids[i] # v
<1> DEFINE S == {i \in Slots : dataCallCids[i] = v}
<1>1. CASE S = {}
  BY <1>1 DEF FirstSlot
<1>2. CASE S # {}
  <2>1. \E x \in S : \A y \in S : x <= y
    <3>1. CASE 0 \in S
      BY <3>1 DEF Slots
    <3>2. CASE 0 \notin S /\ 1 \in S
      BY <3>2 DEF Slots
    <3>3. CASE 0 \notin S /\ 1 \notin S /\ 2 \in S
      BY <3>3 DEF Slots
    <3>4. CASE 0 \notin S /\ 1 \notin S /\ 2 \notin S
      <4>1. S = {3}
        BY <1>2, <3>4 DEF Slots
      <4> QED
        BY <4>1
    <3> QED
      BY <3>1, <3>2, <3>3, <3>4
  <2>2. Min(S) \in S
    BY <2>1 DEF Min
  <2> QED
    BY <1>2, <2>2 DEF FirstSlot
<1> QED
  BY <1>1, <1>2

\* The interface a request asks for is free, or 0 when the table is full.
LEMMA InterfaceIdFacts ==
    \/ /\ InterfaceId \in 1..4
       /\ FirstSlot(Free) = InterfaceId - 1
       /\ dataCallCids[InterfaceId - 1] = Free
    \/ /\ InterfaceId = 0
       /\ FirstSlot(Free) = NoSlot
<1>1. \/ FirstSlot(Free) \in 0..3 /\ dataCallCids[FirstSlot(Free)] = Free
      \/ FirstSlot(Free) = 4
  BY FirstSlotFacts DEF Slots, NoSlot
<1> QED
  BY <1>1 DEF InterfaceId, NoSlot

\* A call on the interface that is free now is not a known one.
LEMMA FreeInterface ==
    ASSUME IInv, NEW a \in calls, a.cid \in known, a.interfaceId # 0
    PROVE  a.interfaceId # InterfaceId
<1>1. a.cid \in Nat /\ a.interfaceId \in 1..4
  <2>1. a \in [cid : Cids, interfaceId : 0..4]
    BY DEF IInv, TypeOK
  <2>2. a.cid \in Cids /\ a.interfaceId \in 0..4
    BY <2>1
  <2>3. a.cid \in Nat
    BY <2>2, DataAssumption
  <2>4. a.interfaceId \in 1..4
    BY <2>2
  <2> QED
    BY <2>3, <2>4
<1>2. dataCallCids[a.interfaceId - 1] = a.cid
  BY DEF IInv, InterfaceOfCall
<1>3. a.cid # Free
  BY <1>1 DEF Free
<1> QED
  BY <1>1, <1>2, <1>3, InterfaceIdFacts

\* A call is reported by a request that is out.
LEMMA UpIsOut == RequestInv => \A s \in Serials : requests[s].up => Out(s)
BY DEF RequestInv, Out

LEMMA InitInv == Init => IInv
<1> SUFFICES ASSUME Init PROVE IInv
  OBVIOUS
<1>1. TypeOK
  BY DataAssumption DEF Init, TypeOK, NoRequest, Free
<1>2. RequestInv
  BY DEF Init, RequestInv, NoRequest, Out
<1> QED
  BY <1>1, <1>2 DEF Init, IInv, CallInv, InterfaceOfCall

LEMMA SetupDataCallInv ==
    ASSUME OneAtATime, IInv, NEW s \in Serials, SetupDataCall(s)
    PROVE  IInv'
<1>1. /\ Quiet
      /\ requests' = [requests EXCEPT ![s] = Sent(InterfaceId)]
      /\ UNCHANGED <<dataCallCids, calls, known, closing, lost, refused>>
  BY DEF SetupDataCall
<1>2. InterfaceId' = InterfaceId
  BY <1>1 DEF InterfaceId, FirstSlot
<1>3. InterfaceId \in 0..4
  BY InterfaceIdFacts
<1>4. /\ \A t \in Serials \ {s} : requests'[t] = requests[t] /\ ~Out(t)
      /\ requests'[s] = Sent(InterfaceId)
      /\ closing = {}
  BY <1>1 DEF IInv, TypeOK, Quiet
<1>5. TypeOK'
  BY <1>1, <1>3 DEF IInv, TypeOK, Sent, Free
<1>6. RequestInv'
  <2>1. \A t \in Serials : ~requests'[t].up
    BY <1>4, UpIsOut DEF Sent, IInv
  <2>2. \A t \in Serials : Out(t)' => t = s
    BY <1>4 DEF Out
  <2> QED
    BY <1>1, <1>2, <1>4, <2>1, <2>2 DEF RequestInv, Sent
<1>7. CallInv'
  <2>1. \A t \in Serials : ~requests[t].up
    BY <1>1 DEF Quiet, Out, IInv, RequestInv
  <2> QED
    BY <1>1, <2>1 DEF IInv, CallInv
<1>8. InterfaceOfCall'
  BY <1>1 DEF IInv, InterfaceOfCall
<1> QED
  BY <1>5, <1>6, <1>7, <1>8 DEF IInv

LEMMA ModemAcceptsInv ==
    ASSUME OneAtATime, IInv, NEW s \in Serials, NEW cid \in Cids, ModemAccepts(s, cid)
    PROVE  IInv'
<1> DEFINE i == requests[s].interfaceId
           new == [cid |-> cid, interfaceId |-> i]
<1>1. /\ requests[s].stage = "sent"
      /\ \A call \in calls : call.cid # cid
      /\ cid \notin known \cup closing
      /\ calls' = calls \cup {new}
      /\ requests' = [requests EXCEPT ![s] = Answered(i, cid, TRUE)]
      /\ UNCHANGED <<dataCallCids, known, closing, lost, refused>>
  BY DEF ModemAccepts, Fresh
<1>2. /\ i = InterfaceId /\ i \in 0..4 /\ closing = {} /\ Out(s)
      /\ \A t \in Serials \ {s} : ~Out(t)
  BY <1>1 DEF IInv, RequestInv, TypeOK, Out
<1>3. InterfaceId' = InterfaceId
  BY <1>1 DEF InterfaceId, FirstSlot
<1>4. /\ \A t \in Serials \ {s} : requests'[t] = requests[t]
      /\ requests'[s] = Answered(i, cid, TRUE)
  BY <1>1 DEF IInv, TypeOK
<1>5. \A a \in calls : a.cid \in known
  <2>1. \A t \in Serials : ~requests[t].up
    BY <1>1, <1>2, UpIsOut DEF IInv, RequestInv
  <2> QED
    BY <1>2, <2>1 DEF IInv, CallInv
<1>6. \A a \in calls : a.interfaceId = i => i = 0
  BY <1>2, <1>5, FreeInterface
<1>7. TypeOK'
  BY <1>1, <1>2 DEF IInv, TypeOK, Answered
<1>8. RequestInv'
  <2>1. \A t \in Serials : Out(t)' => t = s
    BY <1>2, <1>4 DEF Out
  <2> QED
    <3>1. \A t \in Serials : requests'[t].up => t = s
      BY <1>2, <1>4, UpIsOut DEF IInv
    <3>2. \A a \in calls' : a.cid = cid => a.interfaceId = i
      BY <1>1
    <3> HIDE DEF i, new
    <3>3. /\ requests'[s].stage = "answered" /\ requests'[s].cid = cid
          /\ requests'[s].interfaceId = i
      BY <1>4 DEF Answered
    <3>4. \A t \in Serials : requests'[t].up =>
             /\ requests'[t].stage = "answered"
             /\ requests'[t].cid \notin known'
             /\ \A a \in calls' : a.cid = requests'[t].cid
                                   => a.interfaceId = requests'[t].interfaceId
      <4>1. cid \notin known'
        BY <1>1
      <4> QED
        BY <3>1, <3>2, <3>3, <4>1, Zenon
    <3>5. \A t \in Serials : Out(t)' =>
             closing' = {} /\ requests'[t].interfaceId = InterfaceId'
      BY <1>1, <1>2, <1>3, <2>1, <3>3
    <3> QED
      BY <2>1, <3>4, <3>5 DEF RequestInv
<1>9. CallInv'
  <2>1. requests'[s].up /\ requests'[s].cid = new.cid
    BY <1>4 DEF Answered
  <2>2. new.cid = cid /\ new.interfaceId = i
    OBVIOUS
  <2> HIDE DEF new, i
  <2>3. \A a \in calls' : a = new \/ (a \in calls /\ a.cid \in known /\ a.cid # cid)
    BY <1>1, <1>5
  <2>4. \A a, b \in calls' : a.cid = b.cid => a = b
    BY <2>2, <2>3 DEF IInv, CallInv
  <2>5. \A a, b \in calls' : a.interfaceId = b.interfaceId /\ a.interfaceId # 0 => a = b
    BY <1>6, <2>2, <2>3 DEF IInv, CallInv
  <2> QED
    BY <1>1, <2>1, <2>3, <2>4, <2>5 DEF IInv, CallInv
<1>10. InterfaceOfCall'
  BY <1>1 DEF IInv, InterfaceOfCall
<1> QED
  BY <1>7, <1>8, <1>9, <1>10 DEF IInv

\* An answer that brings no call: a refusal, or an error with a call's data.
LEMMA NoCallInv ==
    ASSUME OneAtATime, IInv, NEW s \in Serials,
           NEW cid \in Cids \cup {Free}, NEW up \in BOOLEAN,
           requests[s].stage = "sent",
           up => cid \notin known /\ \A call \in calls : call.cid # cid,
           requests' = [requests EXCEPT ![s] = Answered(@.interfaceId, cid, up)],
           UNCHANGED <<dataCallCids, calls, known, closing, lost, refused>>
    PROVE  IInv'
<1> DEFINE i == requests[s].interfaceId
<1>1. InterfaceId' = InterfaceId
  BY DEF InterfaceId, FirstSlot
<1>2. /\ \A t \in Serials \ {s} : requests'[t] = requests[t]
      /\ requests'[s] = Answered(i, cid, up)
      /\ i \in 0..4
  BY DEF IInv, TypeOK
<1>3. TypeOK'
  BY <1>2 DEF IInv, TypeOK, Answered
<1>4. RequestInv'
  BY <1>1, <1>2 DEF IInv, RequestInv, Answered, Out
<1>5. CallInv'
  <2>1. \A t \in Serials : requests[t].up => requests'[t] = requests[t]
    BY <1>2 DEF IInv, RequestInv
  <2> QED
    BY <2>1 DEF IInv, CallInv
<1>6. InterfaceOfCall'
  BY DEF IInv, InterfaceOfCall
<1> QED
  BY <1>3, <1>4, <1>5, <1>6 DEF IInv

LEMMA ModemRefusesInv ==
    ASSUME OneAtATime, IInv, NEW s \in Serials,
           NEW cid \in Cids \cup {Free}, ModemRefuses(s, cid)
    PROVE  IInv'
BY NoCallInv DEF ModemRefuses

LEMMA ModemErrsInv ==
    ASSUME OneAtATime, IInv, NEW s \in Serials, NEW cid \in Cids, ModemErrs(s, cid)
    PROVE  IInv'
BY NoCallInv DEF ModemErrs, Fresh

LEMMA ProcessSolicitedInv ==
    ASSUME OneAtATime, IInv, NEW s \in Serials, ProcessSolicited(s)
    PROVE  IInv'
<1> DEFINE i == requests[s].interfaceId
           cid == requests[s].cid
           up == requests[s].up
<1>1. /\ requests[s].stage = "answered"
      /\ dataCallCids' = Store(cid)
      /\ known' = known \cup {c \in Cids : up /\ cid = c}
      /\ requests' = [requests EXCEPT ![s] = NoRequest]
      /\ refused' \in Nat
      /\ UNCHANGED <<calls, closing, lost>>
  BY DEF ProcessSolicited, Told, IInv, TypeOK
<1>2. /\ i = InterfaceId /\ i \in 0..4 /\ cid \in Cids \cup {Free} /\ closing = {}
      /\ \A t \in Serials \ {s} : ~Out(t)
      /\ up => /\ cid \notin known
               /\ \A a \in calls : a.cid = cid => a.interfaceId = i
  BY <1>1 DEF IInv, RequestInv, TypeOK, Out
<1>3. \A t \in Serials : ~Out(t)' /\ ~requests'[t].up
  <2>1. \A t \in Serials : requests'[t] = IF t = s THEN NoRequest ELSE requests[t]
    BY <1>1 DEF IInv, TypeOK
  <2> QED
    BY <1>2, <2>1, UpIsOut DEF IInv, Out, NoRequest
<1>4. dataCallCids \in [Slots -> Cids \cup {Free}]
  BY DEF IInv, TypeOK
\* The answer goes to the entry of the interface that was asked for.
<1>5. /\ dataCallCids' \in [Slots -> Cids \cup {Free}]
      /\ cid # Free /\ i # 0 => dataCallCids'[i - 1] = cid
      /\ \A j \in Slots : dataCallCids[j] # Free => dataCallCids'[j] = dataCallCids[j]
  <2>1. CASE cid = Free \/ FirstSlot(Free) = NoSlot
    <3>1. dataCallCids' = dataCallCids
      BY <1>1, <2>1 DEF Store
    <3>2. cid = Free \/ i = 0
      BY <1>2, <2>1, InterfaceIdFacts DEF NoSlot
    <3> QED
      BY <1>4, <3>1, <3>2
  <2>2. CASE cid # Free /\ FirstSlot(Free) # NoSlot
    <3>1. /\ i \in 1..4 /\ FirstSlot(Free) = i - 1 /\ i - 1 \in Slots
          /\ dataCallCids[i - 1] = Free
      BY <1>2, <2>2, InterfaceIdFacts DEF Slots
    <3>2. dataCallCids' = [dataCallCids EXCEPT ![i - 1] = cid]
      BY <1>1, <2>2, <3>1 DEF Store
    <3> HIDE DEF i, cid
    <3> QED
      BY <1>2, <1>4, <3>1, <3>2
  <2> QED
    BY <2>1, <2>2
<1>6. TypeOK'
  BY <1>1, <1>2, <1>5 DEF IInv, TypeOK, NoRequest
<1>7. RequestInv'
  BY <1>3 DEF RequestInv
<1>8. CallInv'
  <2>1. \A a \in calls : a.cid \in Cids /\ (a.cid \in known \/ (up /\ a.cid = cid))
    BY <1>2 DEF IInv, TypeOK, RequestInv, CallInv, Out
  <2> HIDE DEF cid, up
  <2> QED
    BY <1>1, <1>2, <2>1 DEF IInv, CallInv
<1>9. InterfaceOfCall'
  <2> SUFFICES ASSUME NEW a \in calls, a.cid \in known', a.interfaceId # 0
               PROVE  dataCallCids'[a.interfaceId - 1] = a.cid
    BY <1>1 DEF InterfaceOfCall
  <2>1. a.cid \in Nat /\ a.interfaceId - 1 \in Slots
    <3>1. a \in [cid : Cids, interfaceId : 0..4]
      BY DEF IInv, TypeOK
    <3>2. a.cid \in Cids /\ a.interfaceId \in 0..4
      BY <3>1
    <3>3. a.cid \in Nat
      BY <3>2, DataAssumption
    <3>4. a.interfaceId - 1 \in Slots
      BY <3>2 DEF Slots
    <3> QED
      BY <3>3, <3>4
  <2>2. CASE a.cid \in known
    <3>1. dataCallCids[a.interfaceId - 1] = a.cid
      BY <2>2 DEF IInv, InterfaceOfCall
    <3> QED
      BY <1>5, <2>1, <3>1 DEF Free
  <2>3. CASE a.cid \notin known
    <3>1. up /\ a.cid = cid
      BY <1>1, <2>3
    <3>2. a.interfaceId = i
      BY <1>2, <3>1
    <3> QED
      BY <1>5, <2>1, <3>1, <3>2 DEF Free
  <2> QED
    BY <2>2, <2>3
<1> QED
  BY <1>6, <1>7, <1>8, <1>9 DEF IInv

LEMMA DeactivateDataCallInv ==
    ASSUME OneAtATime, IInv, NEW cid \in Cids, DeactivateDataCall(cid)
    PROVE  IInv'
<1>1. /\ cid \in known /\ Quiet
      /\ dataCallCids' = ReleaseSlot(cid)
      /\ known' = known \ {cid}
      /\ closing' = closing \cup {cid}
      /\ UNCHANGED <<requests, calls, lost, refused>>
  BY DEF DeactivateDataCall
<1>2. dataCallCids \in [Slots -> Cids \cup {Free}]
  BY DEF IInv, TypeOK
<1>3. /\ dataCallCids' \in [Slots -> Cids \cup {Free}]
      /\ \A j \in Slots : dataCallCids[j] # cid => dataCallCids'[j] = dataCallCids[j]
  <2>1. CASE FirstSlot(cid) = NoSlot
    BY <1>1, <1>2, <2>1 DEF ReleaseSlot
  <2>2. CASE FirstSlot(cid) # NoSlot
    <3>1. PICK j \in Slots : j = FirstSlot(cid) /\ dataCallCids[j] = cid
      BY <2>2, FirstSlotFacts
    <3>2. dataCallCids' = [dataCallCids EXCEPT ![j] = Free]
      BY <1>1, <2>2, <3>1 DEF ReleaseSlot
    <3> QED
      BY <1>2, <3>1, <3>2
  <2> QED
    BY <2>1, <2>2
<1>4. TypeOK'
  BY <1>1, <1>3 DEF IInv, TypeOK
<1>5. RequestInv'
  BY <1>1, UpIsOut DEF IInv, RequestInv, Quiet, Out
<1>6. CallInv'
  BY <1>1 DEF IInv, CallInv
<1>7. InterfaceOfCall'
  <2> SUFFICES ASSUME NEW a \in calls, a.cid \in known', a.interfaceId # 0
               PROVE  dataCallCids'[a.interfaceId - 1] = a.cid
    BY <1>1 DEF InterfaceOfCall
  <2>1. a.cid # cid /\ a.interfaceId - 1 \in Slots
    BY <1>1 DEF IInv, TypeOK, Slots
  <2>2. dataCallCids[a.interfaceId - 1] = a.cid
    BY <1>1 DEF IInv, InterfaceOfCall
  <2> QED
    BY <1>3, <2>1, <2>2
<1> QED
  BY <1>4, <1>5, <1>6, <1>7 DEF IInv

LEMMA ModemDeactivatesInv ==
    ASSUME OneAtATime, IInv, NEW cid \in Cids, ModemDeactivates(cid)
    PROVE  IInv'
<1>1. /\ cid \in closing
      /\ closing' = closing \ {cid}
      /\ calls' = {call \in calls : call.cid # cid}
      /\ UNCHANGED <<dataCallCids, requests, known, lost, refused>>
  BY DEF ModemDeactivates
<1>2. \A s \in Serials : ~Out(s)
  BY <1>1 DEF IInv, RequestInv
<1>3. TypeOK'
  BY <1>1 DEF IInv, TypeOK
<1>4. RequestInv'
  BY <1>1, <1>2, UpIsOut DEF IInv, RequestInv, Out
<1>5. CallInv'
  BY <1>1 DEF IInv, CallInv
<1>6. InterfaceOfCall'
  BY <1>1 DEF IInv, InterfaceOfCall
<1> QED
  BY <1>3, <1>4, <1>5, <1>6 DEF IInv

LEMMA ModemDropsInv ==
    ASSUME OneAtATime, IInv, NEW cid \in Cids, ModemDrops(cid)
    PROVE  IInv'
<1>1. /\ cid \in known
      /\ lost < MaxLost /\ lost' = lost + 1
      /\ known' = known \ {cid}
      /\ calls' = {call \in calls : call.cid # cid}
      /\ UNCHANGED <<dataCallCids, requests, closing, refused>>
  BY DEF ModemDrops
<1>2. InterfaceId' = InterfaceId
  BY <1>1 DEF InterfaceId, FirstSlot
<1>3. TypeOK'
  BY <1>1, DataAssumption DEF IInv, TypeOK
<1>4. RequestInv'
  BY <1>1, <1>2 DEF IInv, RequestInv, Out
<1>5. CallInv'
  BY <1>1 DEF IInv, CallInv
<1>6. InterfaceOfCall'
  BY <1>1 DEF IInv, InterfaceOfCall
<1> QED
  BY <1>3, <1>4, <1>5, <1>6 DEF IInv

LEMMA ModemResetsInv == IInv /\ ModemResets => IInv'
<1> SUFFICES ASSUME IInv, ModemResets PROVE IInv'
  OBVIOUS
<1>1. /\ lost + Cardinality(known) <= MaxLost
      /\ lost' = lost + Cardinality(known)
      /\ calls' = {} /\ known' = {} /\ closing' = {}
      /\ requests' = [s \in Serials |-> NoRequest]
      /\ UNCHANGED <<dataCallCids, refused>>
  BY DEF ModemResets
<1>2. Cardinality(known) \in Nat
  BY DataAssumption, FS_Subset, FS_CardinalityType DEF IInv, TypeOK
<1>3. TypeOK'
  BY <1>1, <1>2, DataAssumption DEF IInv, TypeOK, NoRequest
<1>4. RequestInv'
  BY <1>1 DEF RequestInv, Out, NoRequest
<1> QED
  BY <1>1, <1>3, <1>4 DEF IInv, CallInv, InterfaceOfCall

LEMMA StepInv == ASSUME OneAtATime PROVE IInv /\ [Next]_vars => IInv'
<1> SUFFICES ASSUME IInv, [Next]_vars PROVE IInv'
  OBVIOUS
<1>1. CASE UNCHANGED vars
  <2>1. InterfaceId' = InterfaceId
    BY <1>1 DEF vars, InterfaceId, FirstSlot
  <2>2. TypeOK' /\ CallInv' /\ InterfaceOfCall'
    BY <1>1 DEF vars, IInv, TypeOK, CallInv, InterfaceOfCall
  <2>3. RequestInv'
    BY <1>1, <2>1 DEF vars, IInv, RequestInv, Out
  <2> QED
    BY <2>2, <2>3 DEF IInv
<1>2. CASE Next
  BY <1>2, SetupDataCallInv, ModemAcceptsInv, ModemErrsInv, ModemRefusesInv,
     ProcessSolicitedInv, DeactivateDataCallInv, ModemDeactivatesInv, ModemDropsInv, ModemResetsInv DEF Next
<1> QED
  BY <1>1, <1>2

\* IInv is an invariant when each request is awaited.
THEOREM DataInvariance == ASSUME OneAtATime PROVE Spec => []IInv
<1>1. Init => IInv
  BY InitInv
<1>2. IInv /\ [Next]_vars => IInv'
  BY StepInv
<1> QED
  BY <1>1, <1>2, PTL DEF Spec

\* No two data calls, up or asked for, use one interface.
THEOREM DistinctInterfaces == ASSUME OneAtATime PROVE Spec => []InterfacesDistinct
<1>1. IInv => InterfacesDistinct
  <2> SUFFICES ASSUME IInv PROVE InterfacesDistinct
    OBVIOUS
  <2>1. ASSUME NEW s \in Serials, NEW a \in calls,
               requests[s].stage = "sent", requests[s].interfaceId # 0
        PROVE  a.interfaceId # requests[s].interfaceId
    <3>1. /\ Out(s) /\ closing = {} /\ requests[s].interfaceId = InterfaceId
          /\ \A t \in Serials : Out(t) => t = s
      BY <2>1 DEF IInv, RequestInv, Out
    <3>2. a.cid \in known
      <4>1. \A t \in Serials : ~requests[t].up
        BY <2>1, <3>1, UpIsOut DEF IInv, RequestInv
      <4> QED
        BY <3>1, <4>1 DEF IInv, CallInv
    <3> QED
      BY <2>1, <3>1, <3>2, FreeInterface
  <2> QED
    BY <2>1 DEF IInv, CallInv, InterfacesDistinct
<1> QED
  BY <1>1, DataInvariance, PTL

\* The table entry of the interface of every known call holds its call id.
THEOREM CallsKeepInterface == ASSUME OneAtATime PROVE Spec => []InterfaceOfCall
<1>1. IInv => InterfaceOfCall
  BY DEF IInv
<1> QED
  BY <1>1, DataInvariance, PTL

-----------------------------------------------------------------------------
(***************************************************************************)
(* What holds of the table however the requests overlap.                   *)
(***************************************************************************)

\* An answer takes one free entry, if there is one.
LEMMA StoreFacts ==
    ASSUME TypeOK, NEW cid \in Cids \cup {Free}
    PROVE  \/ Store(cid) = dataCallCids
           \/ \E j \in Slots : /\ dataCallCids[j] = Free /\ cid # Free
                              /\ Store(cid) = [dataCallCids EXCEPT ![j] = cid]
<1>1. CASE cid = Free \/ FirstSlot(Free) = NoSlot
  BY <1>1 DEF Store
<1>2. CASE cid # Free /\ FirstSlot(Free) # NoSlot
  <2>1. FirstSlot(Free) \in Slots /\ dataCallCids[FirstSlot(Free)] = Free
    BY <1>2, FirstSlotFacts
  <2> QED
    BY <1>2, <2>1 DEF Store
<1> QED
  BY <1>1, <1>2

\* Deactivation gives back one entry of the call, if it has one.
LEMMA ReleaseFacts ==
    ASSUME TypeOK, NEW cid \in Cids
    PROVE  \/ /\ ReleaseSlot(cid) = dataCallCids
              /\ \A j \in Slots : dataCallCids[j] # cid
           \/ \E j \in Slots : /\ dataCallCids[j] = cid
                              /\ ReleaseSlot(cid) = [dataCallCids EXCEPT ![j] = Free]
<1>1. CASE FirstSlot(cid) = NoSlot
  <2>1. FirstSlot(cid) \notin Slots
    BY <1>1 DEF Slots, NoSlot
  <2> QED
    BY <1>1, <2>1, FirstSlotFacts DEF ReleaseSlot
<1>2. CASE FirstSlot(cid) # NoSlot
  <2>1. FirstSlot(cid) \in Slots /\ dataCallCids[FirstSlot(cid)] = cid
    BY <1>2, FirstSlotFacts
  <2> QED
    BY <1>2, <2>1 DEF ReleaseSlot
<1> QED
  BY <1>1, <1>2

LEMMA InitTypeOK == Init => TypeOK
BY InitInv DEF IInv

\* Every step keeps the types.
LEMMA NextTypeOK == TypeOK /\ [Next]_vars => TypeOK'
<1> SUFFICES ASSUME TypeOK, [Next]_vars PROVE TypeOK'
  OBVIOUS
<1>1. ASSUME NEW s \in Serials, SetupDataCall(s)
      PROVE  TypeOK'
  <2>1. InterfaceId \in 0..4
    BY InterfaceIdFacts
  <2> QED
    BY <1>1, <2>1 DEF SetupDataCall, TypeOK, Sent, Free
<1>2. ASSUME NEW s \in Serials, NEW cid \in Cids \cup {Free}, ModemRefuses(s, cid)
      PROVE  TypeOK'
  BY <1>2 DEF ModemRefuses, TypeOK, Answered
<1>3. ASSUME NEW s \in Serials, ProcessSolicited(s)
      PROVE  TypeOK'
  <2>1. requests[s].cid \in Cids \cup {Free}
    BY DEF TypeOK
  <2>2. dataCallCids' \in [Slots -> Cids \cup {Free}]
    BY <1>3, <2>1, StoreFacts DEF ProcessSolicited, TypeOK
  <2>3. known' \subseteq Cids
    BY <1>3, <2>1 DEF ProcessSolicited, Told, TypeOK
  <2> QED
    BY <1>3, <2>2, <2>3 DEF ProcessSolicited, TypeOK, NoRequest
<1>4. ASSUME NEW s \in Serials, NEW cid \in Cids, ModemAccepts(s, cid) \/ ModemErrs(s, cid)
      PROVE  TypeOK'
  <2>1. CASE ModemAccepts(s, cid)
    BY <2>1 DEF ModemAccepts, TypeOK, Answered
  <2>2. CASE ModemErrs(s, cid)
    BY <2>2 DEF ModemErrs, TypeOK, Answered
  <2> QED
    BY <1>4, <2>1, <2>2
<1>5. ASSUME NEW cid \in Cids, DeactivateDataCall(cid)
      PROVE  TypeOK'
  <2>1. dataCallCids' \in [Slots -> Cids \cup {Free}]
    BY <1>5, ReleaseFacts DEF DeactivateDataCall, TypeOK
  <2> QED
    BY <1>5, <2>1 DEF DeactivateDataCall, TypeOK
<1>6. ASSUME NEW cid \in Cids, ModemDeactivates(cid)
      PROVE  TypeOK'
  BY <1>6 DEF ModemDeactivates, TypeOK
<1>7. ASSUME NEW cid \in Cids, ModemDrops(cid)
      PROVE  TypeOK'
  BY <1>7, DataAssumption DEF ModemDrops, TypeOK
<1>8. CASE ModemResets
  <2>1. Cardinality(known) \in Nat
    BY DataAssumption, FS_Subset, FS_CardinalityType DEF TypeOK
  <2> QED
    BY <1>8, <2>1, DataAssumption DEF ModemResets, TypeOK, NoRequest
<1>9. CASE UNCHANGED vars
  BY <1>9 DEF vars, TypeOK
<1> QED
  BY <1>1, <1>2, <1>3, <1>4, <1>5, <1>6, <1>7, <1>8, <1>9 DEF Next

\* The types, whatever the framework and the modem do: MT6735.dataCallCids never
\* holds anything but call ids and -1, and the interface sent is one of the four
\* or 0.
THEOREM DataTypeCorrect == Spec => []TypeOK
BY InitTypeOK, NextTypeOK, PTL DEF Spec

\* A call that is just being reported is not known, and nobody else's.
AnswerInv ==
    /\ \A s \in Serials : requests[s].up => requests[s].cid \notin known
    /\ \A s, t \in Serials :
          requests[s].up /\ requests[t].up /\ requests[s].cid = requests[t].cid => s = t

\* Every step keeps that.
LEMMA NextAnswerInv == TypeOK /\ AnswerInv /\ [Next]_vars => AnswerInv'
<1> SUFFICES ASSUME TypeOK, AnswerInv, [Next]_vars PROVE AnswerInv'
  OBVIOUS
<1>1. ASSUME NEW s \in Serials, SetupDataCall(s)
      PROVE  AnswerInv'
  <2>1. \A t \in Serials : requests'[t].up => requests'[t] = requests[t]
    BY <1>1 DEF SetupDataCall, TypeOK, Sent
  <2> QED
    BY <1>1, <2>1 DEF SetupDataCall, AnswerInv
<1>2. ASSUME NEW s \in Serials, NEW cid \in Cids \cup {Free}, ModemRefuses(s, cid)
      PROVE  AnswerInv'
  <2>1. \A t \in Serials : requests'[t].up => requests'[t] = requests[t]
    <3>1. \A t \in Serials :
             requests'[t] = IF t = s THEN Answered(requests[s].interfaceId, cid, FALSE)
                                     ELSE requests[t]
      BY <1>2 DEF ModemRefuses, TypeOK
    <3> QED
      BY <3>1 DEF Answered
  <2> QED
    <3>1. known' = known
      BY <1>2 DEF ModemRefuses
    <3> QED
      BY <2>1, <3>1 DEF AnswerInv
<1>3. ASSUME NEW s \in Serials, ProcessSolicited(s)
      PROVE  AnswerInv'
  <2>1. \A t \in Serials : requests'[t].up => t # s /\ requests'[t] = requests[t]
    BY <1>3 DEF ProcessSolicited, TypeOK, NoRequest
  <2>2. \A c \in known' : c \in known \/ (requests[s].up /\ c = requests[s].cid)
    BY <1>3 DEF ProcessSolicited, Told
  <2> QED
    BY <2>1, <2>2 DEF AnswerInv
<1>4. ASSUME NEW s \in Serials, NEW cid \in Cids, ModemAccepts(s, cid) \/ ModemErrs(s, cid)
      PROVE  AnswerInv'
  <2>1. \A t \in Serials :
           requests'[t] = IF t = s THEN Answered(requests[s].interfaceId, cid, TRUE)
                                   ELSE requests[t]
    BY <1>4 DEF ModemAccepts, ModemErrs, TypeOK
  <2>2. /\ cid \notin known /\ known' = known
        /\ \A t \in Serials : requests[t].up => requests[t].cid # cid
    BY <1>4 DEF ModemAccepts, ModemErrs, Fresh
  <2> QED
    BY <2>1, <2>2 DEF AnswerInv, Answered
<1>5. ASSUME NEW cid \in Cids, DeactivateDataCall(cid)
      PROVE  AnswerInv'
  BY <1>5 DEF DeactivateDataCall, AnswerInv
<1>6. ASSUME NEW cid \in Cids, ModemDeactivates(cid)
      PROVE  AnswerInv'
  BY <1>6 DEF ModemDeactivates, AnswerInv
<1>7. ASSUME NEW cid \in Cids, ModemDrops(cid)
      PROVE  AnswerInv'
  BY <1>7 DEF ModemDrops, AnswerInv
<1>8. CASE ModemResets
  BY <1>8 DEF ModemResets, AnswerInv, NoRequest
<1>9. CASE UNCHANGED vars
  BY <1>9 DEF vars, AnswerInv
<1> QED
  BY <1>1, <1>2, <1>3, <1>4, <1>5, <1>6, <1>7, <1>8, <1>9 DEF Next

-----------------------------------------------------------------------------
(***************************************************************************)
(* What leaks: an entry in use is one of a known call, of a lost one, or   *)
(* of a refusal.                                                           *)
(***************************************************************************)
\* The sets are finite.
LEMMA LeakFinite ==
    TypeOK => /\ IsFiniteSet(InUse) /\ IsFiniteSet(Held) /\ IsFiniteSet(known)
              /\ Cardinality(InUse) \in Nat /\ Cardinality(Held) \in Nat
              /\ Cardinality(known) \in Nat
              /\ Cardinality(Held) <= Cardinality(known)
<1> SUFFICES ASSUME TypeOK
             PROVE  /\ IsFiniteSet(InUse) /\ IsFiniteSet(Held) /\ IsFiniteSet(known)
                    /\ Cardinality(InUse) \in Nat /\ Cardinality(Held) \in Nat
                    /\ Cardinality(known) \in Nat
                    /\ Cardinality(Held) <= Cardinality(known)
  OBVIOUS
<1>1. IsFiniteSet(Slots)
  <2>1. 0 \in Int /\ 3 \in Int
    OBVIOUS
  <2> QED
    BY <2>1, FS_Interval DEF Slots
<1>2. IsFiniteSet(known)
  BY DataAssumption, FS_Subset DEF TypeOK
<1>3. InUse \in SUBSET Slots /\ Held \in SUBSET known
  BY DEF InUse, Held
<1> QED
  BY <1>1, <1>2, <1>3, FS_Subset, FS_CardinalityType

\* An entry that is taken is one of a call that becomes known, or is counted.
LEMMA ProcessSolicitedLeak ==
    ASSUME TypeOK, TypeOK', AnswerInv, EntriesAccountedFor,
           NEW s \in Serials, ProcessSolicited(s)
    PROVE  EntriesAccountedFor'
<1> DEFINE cid == requests[s].cid
           up == requests[s].up
<1>1. /\ dataCallCids' = Store(cid) /\ known' = known \cup {c \in Cids : up /\ cid = c}
      /\ lost' = lost /\ lost \in Nat /\ refused \in Nat
      /\ refused' = IF up \/ cid = Free THEN refused ELSE refused + 1
      /\ cid \in Cids \cup {Free} /\ up \in BOOLEAN
      /\ up => cid \notin known
  BY DataAssumption DEF ProcessSolicited, Told, TypeOK, AnswerInv
<1> HIDE DEF cid, up
<1>2. refused' \in Nat /\ refused <= refused'
  BY <1>1
<1>3. /\ IsFiniteSet(InUse) /\ IsFiniteSet(Held)
      /\ Cardinality(InUse) \in Nat /\ Cardinality(Held) \in Nat
  BY LeakFinite
<1>4. IsFiniteSet(Held') /\ Cardinality(Held') \in Nat
  <2>1. (TypeOK => IsFiniteSet(Held) /\ Cardinality(Held) \in Nat)'
    BY LeakFinite, PTL
  <2> QED
    BY <2>1
<1>5. CASE dataCallCids' = dataCallCids
  <2>1. InUse' = InUse /\ Held \in SUBSET Held'
    BY <1>1, <1>5 DEF InUse, Held
  <2>2. Cardinality(Held) <= Cardinality(Held')
    BY <1>4, <2>1, FS_Subset
  <2> QED
    BY <1>1, <1>2, <1>3, <1>4, <2>1, <2>2 DEF EntriesAccountedFor
<1>6. ASSUME NEW j \in Slots, dataCallCids[j] = Free, cid # Free,
             dataCallCids' = [dataCallCids EXCEPT ![j] = cid]
      PROVE  EntriesAccountedFor'
  <2>1. \A i \in Slots : dataCallCids'[i] = IF i = j THEN cid ELSE dataCallCids[i]
    BY <1>6 DEF TypeOK
  <2>2. InUse' = InUse \cup {j} /\ j \notin InUse
    BY <1>6, <2>1 DEF InUse
  <2>3. Cardinality(InUse') = Cardinality(InUse) + 1
    BY <1>3, <2>2, FS_AddElement
  <2>4. \A c \in known : c # Free
    BY DataAssumption DEF TypeOK, Free
  <2>5. Held \in SUBSET Held'
    BY <1>1, <1>6, <2>1, <2>4 DEF Held
  <2>6. CASE up
    <3>1. Held \cup {cid} \in SUBSET Held' /\ cid \notin Held
      <4>1. known' = known \cup {cid} /\ cid \notin known
        BY <1>1, <1>6, <2>6
      <4> QED
        BY <1>6, <2>1, <2>5, <4>1 DEF Held
    <3>2. Cardinality(Held \cup {cid}) = Cardinality(Held) + 1
      BY <1>3, <3>1, FS_AddElement
    <3>3. Cardinality(Held \cup {cid}) <= Cardinality(Held')
      BY <1>4, <3>1, FS_Subset
    <3> QED
      BY <1>1, <1>2, <1>3, <1>4, <2>3, <3>2, <3>3 DEF EntriesAccountedFor
  <2>7. CASE ~up
    <3>1. refused' = refused + 1
      BY <1>1, <1>6, <2>7
    <3>2. Cardinality(Held) <= Cardinality(Held')
      BY <1>4, <2>5, FS_Subset
    <3> QED
      BY <1>1, <1>3, <1>4, <2>3, <3>1, <3>2 DEF EntriesAccountedFor
  <2> QED
    BY <1>1, <2>6, <2>7
<1> QED
  BY <1>1, <1>5, <1>6, StoreFacts

\* A call that is deactivated gives back the entry it has, if it has one.
LEMMA DeactivateLeak ==
    ASSUME TypeOK, EntriesAccountedFor, NEW cid \in Cids, DeactivateDataCall(cid)
    PROVE  EntriesAccountedFor'
<1>1. /\ cid \in known /\ dataCallCids' = ReleaseSlot(cid) /\ known' = known \ {cid}
      /\ lost' = lost /\ lost \in Nat /\ refused' = refused /\ refused \in Nat
  BY DataAssumption DEF DeactivateDataCall, TypeOK
<1>2. /\ IsFiniteSet(InUse) /\ IsFiniteSet(Held)
      /\ Cardinality(InUse) \in Nat /\ Cardinality(Held) \in Nat
  BY LeakFinite
<1>3. cid # Free
  BY DataAssumption DEF Free
<1>4. CASE dataCallCids' = dataCallCids /\ \A j \in Slots : dataCallCids[j] # cid
  <2>1. InUse' = InUse /\ Held' = Held
    BY <1>1, <1>4 DEF InUse, Held
  <2> QED
    BY <1>1, <2>1 DEF EntriesAccountedFor
<1>5. ASSUME NEW j \in Slots, dataCallCids[j] = cid,
             dataCallCids' = [dataCallCids EXCEPT ![j] = Free]
      PROVE  EntriesAccountedFor'
  <2>1. \A i \in Slots : dataCallCids'[i] = IF i = j THEN Free ELSE dataCallCids[i]
    BY <1>5 DEF TypeOK
  <2>2. InUse' = InUse \ {j} /\ j \in InUse
    BY <1>3, <1>5, <2>1 DEF InUse
  <2>3. Held' = Held \ {cid} /\ cid \in Held
    <3>1. \A c \in known : c # Free
      BY DataAssumption DEF TypeOK, Free
    <3>2. \A c \in known \ {cid} : (\E i \in Slots : dataCallCids'[i] = c)
                                 <=> (\E i \in Slots : dataCallCids[i] = c)
      BY <1>5, <2>1, <3>1
    <3> QED
      BY <1>1, <1>5, <3>2 DEF Held
  <2>4. Cardinality(InUse') = Cardinality(InUse) - 1
    BY <1>2, <2>2, FS_RemoveElement
  <2>5. Cardinality(Held') = Cardinality(Held) - 1
    BY <1>2, <2>3, FS_RemoveElement
  <2> QED
    BY <1>1, <1>2, <2>4, <2>5 DEF EntriesAccountedFor
<1> QED
  BY <1>1, <1>4, <1>5, ReleaseFacts

\* A call that is dropped leaves one entry in use at most, and is counted.
LEMMA DropLeak ==
    ASSUME TypeOK, EntriesAccountedFor, NEW cid \in Cids, ModemDrops(cid)
    PROVE  EntriesAccountedFor'
<1>1. /\ dataCallCids' = dataCallCids /\ known' = known \ {cid}
      /\ lost' = lost + 1 /\ lost \in Nat /\ refused' = refused /\ refused \in Nat
  BY DataAssumption DEF ModemDrops, TypeOK
<1>2. IsFiniteSet(Held) /\ Cardinality(InUse) \in Nat /\ Cardinality(Held) \in Nat
  BY LeakFinite
<1>3. InUse' = InUse /\ Held' = Held \ {cid}
  BY <1>1 DEF InUse, Held
<1>4. Cardinality(Held') = IF cid \in Held THEN Cardinality(Held) - 1 ELSE Cardinality(Held)
  BY <1>2, <1>3, FS_RemoveElement
<1> QED
  BY <1>1, <1>2, <1>3, <1>4 DEF EntriesAccountedFor

\* After a reset every known call is a lost one.
LEMMA ResetLeak == TypeOK /\ EntriesAccountedFor /\ ModemResets => EntriesAccountedFor'
<1> SUFFICES ASSUME TypeOK, EntriesAccountedFor, ModemResets PROVE EntriesAccountedFor'
  OBVIOUS
<1>1. /\ dataCallCids' = dataCallCids /\ known' = {}
      /\ lost' = lost + Cardinality(known) /\ lost \in Nat
      /\ refused' = refused /\ refused \in Nat
  BY DataAssumption DEF ModemResets, TypeOK
<1>2. /\ Cardinality(InUse) \in Nat /\ Cardinality(Held) \in Nat
      /\ Cardinality(known) \in Nat /\ Cardinality(Held) <= Cardinality(known)
  BY LeakFinite
<1>3. InUse' = InUse /\ Held' = {}
  BY <1>1 DEF InUse, Held
<1>4. Cardinality(Held') = 0
  BY <1>3, FS_EmptySet
<1> QED
  BY <1>1, <1>2, <1>3, <1>4 DEF EntriesAccountedFor

LEMMA NextLeak == TypeOK /\ TypeOK' /\ AnswerInv /\ EntriesAccountedFor /\ [Next]_vars => EntriesAccountedFor'
<1> SUFFICES ASSUME TypeOK, TypeOK', AnswerInv, EntriesAccountedFor, [Next]_vars PROVE EntriesAccountedFor'
  OBVIOUS
<1>1. UNCHANGED <<dataCallCids, known, lost, refused>> => EntriesAccountedFor'
  BY DEF EntriesAccountedFor, InUse, Held
<1>2. ASSUME NEW s \in Serials,
             \/ SetupDataCall(s)
             \/ \E cid \in Cids : ModemAccepts(s, cid) \/ ModemErrs(s, cid)
             \/ \E cid \in Cids \cup {Free} : ModemRefuses(s, cid)
      PROVE  EntriesAccountedFor'
  BY <1>1, <1>2 DEF SetupDataCall, ModemRefuses, ModemErrs, ModemAccepts
<1>3. ASSUME NEW cid \in Cids, ModemDeactivates(cid)
      PROVE  EntriesAccountedFor'
  BY <1>1, <1>3 DEF ModemDeactivates
<1>4. UNCHANGED vars => EntriesAccountedFor'
  BY <1>1 DEF vars
<1> QED
  BY <1>2, <1>3, <1>4, ProcessSolicitedLeak, DeactivateLeak, DropLeak, ResetLeak DEF Next

\* However the requests overlap and whatever ids the modem uses again, every
\* entry that fetchCidFromDataCall has taken is of a known call, of its own, or of
\* a call that was dropped or a refusal that named an id: deactivateDataCall
\* gives back one entry for every known call that has one.
THEOREM EveryLeakCounted == Spec => []EntriesAccountedFor
<1>1. Init => AnswerInv /\ EntriesAccountedFor
  <2> SUFFICES ASSUME Init PROVE AnswerInv /\ EntriesAccountedFor
    OBVIOUS
  <2>1. AnswerInv
    BY DEF Init, AnswerInv, NoRequest
  <2>2. InUse = {} /\ Held = {} /\ lost = 0 /\ refused = 0
    BY DEF Init, InUse, Held
  <2> QED
    BY <2>1, <2>2, FS_EmptySet DEF EntriesAccountedFor
<1> QED
  BY <1>1, DataTypeCorrect, NextAnswerInv, NextLeak, PTL DEF Spec
=============================================================================
