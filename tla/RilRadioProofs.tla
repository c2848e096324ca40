--------------------------- MODULE RilRadioProofs ---------------------------
(***************************************************************************)
(* The variables of RilRadio keep their types, for any number of phones,   *)
(* disturbed or not: only requests the radio interface knows go to rild,   *)
(* and only what setRadioPower and processUnsolicited send.  And while the *)
(* user waits for each change to take effect, the property that the phones *)
(* share says, whenever nothing is under way, whether the modem is off.    *)
(***************************************************************************)
EXTENDS RilRadio, TLAPS

\* The state after boot is of the types.
LEMMA InitTypeOK == Init => TypeOK
<1> SUFFICES ASSUME Init PROVE TypeOK
  OBVIOUS
<1>1. /\ airplane \in BOOLEAN /\ persisted \in BOOLEAN /\ powered \in BOOLEAN
      /\ wants \in [Phones -> BOOLEAN] /\ radio \in [Phones -> BOOLEAN]
      /\ untold \in [Phones -> BOOLEAN]
  BY DEF Init
<1>2. calls \in [Phones -> Seq(BOOLEAN)] /\ queue \in [Phones -> Seq(Requests)]
  BY DEF Init
<1>3. inbox \in [Phones -> Seq(Indications)] /\ asked \in [Phones -> SUBSET Questions]
  BY DEF Init
<1>4. eboot \in {0, 1} /\ sending = NoRequest
  BY DEF Init
<1> QED
  BY <1>1, <1>2, <1>3, <1>4 DEF TypeOK

\* setRadioPower sends a power request for every setting and every call.
LEMMA RequestForFacts ==
    ASSUME TypeOK, NEW on \in BOOLEAN
    PROVE  RequestFor(on) \in PowerRequests
BY DEF TypeOK, RequestFor, PowerRequests

\* A call that becomes due is one for on or for off.
LEMMA CallsForFacts ==
    ASSUME TypeOK, NEW p \in Phones, Desired(p)' \in BOOLEAN
    PROVE  CallsFor(p) \in Seq(BOOLEAN)
<1> DEFINE d == Desired(p)'
<1>1. d \in BOOLEAN /\ calls[p] \in Seq(BOOLEAN)
  BY DEF TypeOK
<1>2. CallsFor(p) = IF radio[p] # d THEN Append(calls[p], d) ELSE calls[p]
  BY DEF CallsFor
<1> HIDE DEF d
<1>3. Append(calls[p], d) \in Seq(BOOLEAN)
  BY <1>1
<1> QED
  BY <1>1, <1>2, <1>3

\* What is sent back to the modem is an answer.
LEMMA RepliesFacts ==
    ASSUME NEW i \in Indications
    PROVE  Replies(i) \in Seq(Requests)
<1>1. CASE i \in Questions
  <2>1. Answer(i) \in Requests
    BY <1>1 DEF Requests, Answers
  <2>2. Replies(i) = <<Answer(i)>>
    BY <1>1 DEF Replies
  <2> QED
    BY <2>1, <2>2
<1>2. CASE i \notin Questions
  BY <1>2 DEF Replies
<1> QED
  BY <1>1, <1>2

\* Every step keeps the types.
LEMMA NextTypeOK == TypeOK /\ [Next]_vars => TypeOK'
<1> SUFFICES ASSUME TypeOK, [Next]_vars PROVE TypeOK'
  OBVIOUS
<1>0. /\ airplane \in BOOLEAN /\ persisted \in BOOLEAN /\ powered \in BOOLEAN
      /\ wants \in [Phones -> BOOLEAN] /\ radio \in [Phones -> BOOLEAN]
      /\ untold \in [Phones -> BOOLEAN]
  BY DEF TypeOK
<1>a. ASSUME airplane' \in BOOLEAN, persisted' \in BOOLEAN, powered' \in BOOLEAN,
             wants' \in [Phones -> BOOLEAN], radio' \in [Phones -> BOOLEAN],
             untold' \in [Phones -> BOOLEAN], eboot' \in {0, 1},
             calls' \in [Phones -> Seq(BOOLEAN)],
             sending' \in [phone : Phones, request : PowerRequests] \cup {NoRequest},
             queue' \in [Phones -> Seq(Requests)],
             asked' \in [Phones -> SUBSET Questions],
             inbox' \in [Phones -> Seq(Indications)]
      PROVE  TypeOK'
  BY <1>a DEF TypeOK
<1>1. CASE SetAirplane
  <2>1. ASSUME NEW p \in Phones
        PROVE  CallsFor(p) \in Seq(BOOLEAN)
    <3>1. Desired(p)' \in BOOLEAN
      BY DEF Desired
    <3> QED
      BY <3>1, CallsForFacts
  <2>2. calls' \in [Phones -> Seq(BOOLEAN)]
    BY <1>1, <2>1 DEF SetAirplane
  <2> QED
    BY <1>0, <1>1, <1>a, <2>2 DEF SetAirplane, TypeOK, talk
<1>2. ASSUME NEW p \in Phones, SetSim(p)
      PROVE  TypeOK'
  <2>1. wants' \in [Phones -> BOOLEAN]
    BY <1>0, <1>2 DEF SetSim
  <2>2. CallsFor(p) \in Seq(BOOLEAN)
    <3>1. Desired(p)' \in BOOLEAN
      BY DEF Desired
    <3> QED
      BY <3>1, CallsForFacts
  <2>3. calls' \in [Phones -> Seq(BOOLEAN)]
    BY <1>2, <2>2 DEF SetSim, TypeOK
  <2> QED
    BY <1>0, <1>2, <1>a, <2>1, <2>3 DEF SetSim, TypeOK, talk
<1>3. ASSUME NEW p \in Phones, CallAgain(p)
      PROVE  TypeOK'
  <2>1. <<Desired(p)>> \in Seq(BOOLEAN)
    BY <1>0 DEF Desired
  <2>2. calls' \in [Phones -> Seq(BOOLEAN)]
    BY <1>3, <2>1 DEF CallAgain, TypeOK
  <2> QED
    BY <1>0, <1>3, <1>a, <2>2 DEF CallAgain, TypeOK, talk
<1>4. ASSUME NEW p \in Phones, DecideRadioPower(p)
      PROVE  TypeOK'
  <2>1. Head(calls[p]) \in BOOLEAN /\ Tail(calls[p]) \in Seq(BOOLEAN)
    BY <1>4 DEF DecideRadioPower, TypeOK
  <2>2. sending' \in [phone : Phones, request : PowerRequests]
    BY <1>4, <2>1, RequestForFacts DEF DecideRadioPower
  <2>3. calls' \in [Phones -> Seq(BOOLEAN)]
    BY <1>4, <2>1 DEF DecideRadioPower, TypeOK
  <2> QED
    BY <1>0, <1>4, <1>a, <2>2, <2>3 DEF DecideRadioPower, TypeOK, talk
<1>5. CASE SendRadioPower
  <2>1. sending.phone \in Phones /\ sending.request \in Requests
    BY <1>5 DEF SendRadioPower, TypeOK, Requests
  <2>2. queue' \in [Phones -> Seq(Requests)]
    BY <1>5, <2>1 DEF SendRadioPower, TypeOK
  <2>3. eboot' \in {0, 1}
    BY <1>5 DEF SendRadioPower, Eboot, TypeOK
  <2> QED
    BY <1>0, <1>5, <1>a, <2>2, <2>3 DEF SendRadioPower, TypeOK, talk
<1>6. ASSUME NEW p \in Phones, ServePower(p)
      PROVE  TypeOK'
  <2>1. queue' \in [Phones -> Seq(Requests)]
    BY <1>6 DEF ServePower, TypeOK
  <2>2. powered' \in BOOLEAN
    BY <1>0, <1>6 DEF ServePower
  <2>3. radio' \in [Phones -> BOOLEAN]
    BY <1>0, <1>6 DEF ServePower, PowerRequests
  <2>4. asked' \in [Phones -> SUBSET Questions]
    BY <1>6 DEF ServePower, TypeOK
  <2> QED
    BY <1>0, <1>6, <1>a, <2>1, <2>2, <2>3, <2>4 DEF ServePower, TypeOK
<1>7. ASSUME NEW p \in Phones, ServeAnswer(p)
      PROVE  TypeOK'
  <2>1. queue' \in [Phones -> Seq(Requests)]
    BY <1>7 DEF ServeAnswer, TypeOK
  <2>2. asked' \in [Phones -> SUBSET Questions]
    BY <1>7 DEF ServeAnswer, TypeOK
  <2> QED
    BY <1>0, <1>7, <1>a, <2>1, <2>2 DEF ServeAnswer, TypeOK, power
<1>8. ASSUME NEW p \in Phones, NEW i \in Indications, Indicate(p, i)
      PROVE  inbox' \in [Phones -> Seq(Indications)] /\ UNCHANGED <<power, queue>>
  BY <1>8 DEF Indicate, TypeOK
<1>9. ASSUME NEW p \in Phones, NEW q \in Questions, Ask(p, q)
      PROVE  TypeOK'
  <2>1. inbox' \in [Phones -> Seq(Indications)] /\ UNCHANGED <<power, queue>>
    BY <1>8, <1>9 DEF Ask, Indications
  <2>2. asked' \in [Phones -> SUBSET Questions]
    BY <1>9 DEF Ask, TypeOK
  <2>3. untold' \in [Phones -> BOOLEAN]
    BY <1>0, <1>9 DEF Ask
  <2> QED
    BY <1>0, <1>a, <2>1, <2>2, <2>3 DEF TypeOK, power
<1>10. ASSUME NEW p \in Phones, NEW ended \in BOOLEAN, CallInfo(p, ended)
       PROVE  TypeOK'
  <2>1. inbox' \in [Phones -> Seq(Indications)] /\ UNCHANGED <<power, queue>>
    BY <1>8, <1>10 DEF CallInfo, Indications
  <2>2. untold' \in [Phones -> BOOLEAN] /\ UNCHANGED asked
    BY <1>0, <1>10 DEF CallInfo
  <2> QED
    BY <1>0, <1>a, <2>1, <2>2 DEF TypeOK, power
<1>11. ASSUME NEW p \in Phones, processUnsolicited(p)
       PROVE  TypeOK'
  <2>1. Head(inbox[p]) \in Indications /\ Tail(inbox[p]) \in Seq(Indications)
    BY <1>11 DEF processUnsolicited, TypeOK
  <2>2. queue[p] \o Replies(Head(inbox[p])) \in Seq(Requests)
    BY <2>1, RepliesFacts DEF TypeOK
  <2>3. /\ queue' \in [Phones -> Seq(Requests)]
        /\ inbox' \in [Phones -> Seq(Indications)]
    BY <1>11, <2>1, <2>2 DEF processUnsolicited, TypeOK
  <2>4. untold' \in [Phones -> BOOLEAN]
    BY <1>0, <1>11 DEF processUnsolicited
  <2> QED
    BY <1>0, <1>11, <1>a, <2>3, <2>4 DEF processUnsolicited, TypeOK, power
<1>12. CASE PhoneDies
  BY <1>0, <1>12, <1>a DEF PhoneDies, TypeOK
<1>13. CASE Reboot
  BY <1>0, <1>13, <1>a DEF Reboot, TypeOK
<1>14. CASE UNCHANGED vars
  BY <1>0, <1>14, <1>a DEF vars, power, talk, TypeOK
<1> QED
  BY <1>1, <1>2, <1>3, <1>4, <1>5, <1>6, <1>7, <1>9, <1>10, <1>11, <1>12, <1>13, <1>14
     DEF Next, Proceeds

-----------------------------------------------------------------------------
\* Every variable keeps its type: what goes to rild is a power request of
\* setRadioPower or an answer of processUnsolicited.
THEOREM RadioTypeCorrect == Spec => []TypeOK
BY InitTypeOK, NextTypeOK, PTL DEF Spec

-----------------------------------------------------------------------------
(***************************************************************************)
(* What is on its way to rild.                                             *)
(***************************************************************************)

\* setRadioPower has chosen request r, and rild has not served it.
Decided(r) == sending.request = r \/ \E p \in Phones : Contains(queue[p], r)

Calm == \A r \in PowerRequests : ~Decided(r)

\* Appending to a queue adds the one request.
LEMMA ContainsAppend ==
    ASSUME NEW S, NEW s \in Seq(S), NEW x \in S, NEW e
    PROVE  Contains(Append(s, x), e) <=> Contains(s, e) \/ x = e
<1>1. /\ Len(Append(s, x)) = Len(s) + 1 /\ Len(s) \in Nat
      /\ \A i \in 1..Len(s) : Append(s, x)[i] = s[i]
      /\ Append(s, x)[Len(s) + 1] = x
  OBVIOUS
<1> QED
  BY <1>1 DEF Contains

\* Serving the head of a queue removes at most that request.
LEMMA ContainsTail ==
    ASSUME NEW S, NEW s \in Seq(S), s # << >>, NEW e
    PROVE  Contains(s, e) <=> Contains(Tail(s), e) \/ Head(s) = e
<1>1. /\ Len(Tail(s)) = Len(s) - 1 /\ Len(s) \in Nat /\ Len(s) > 0
      /\ \A i \in 1..(Len(s) - 1) : Tail(s)[i] = s[i + 1]
      /\ Head(s) = s[1]
  OBVIOUS
<1>2. ASSUME Contains(s, e), Head(s) # e
      PROVE  Contains(Tail(s), e)
  <2>1. PICK i \in 1..Len(s) : s[i] = e
    BY <1>2 DEF Contains
  <2>2. i - 1 \in 1..(Len(s) - 1) /\ Tail(s)[i - 1] = s[i]
    BY <1>1, <1>2, <2>1
  <2> QED
    BY <1>1, <2>1, <2>2 DEF Contains
<1>3. ASSUME Contains(Tail(s), e)
      PROVE  Contains(s, e)
  <2>1. PICK i \in 1..(Len(s) - 1) : Tail(s)[i] = e
    BY <1>1, <1>3 DEF Contains
  <2>2. i + 1 \in 1..Len(s) /\ s[i + 1] = e
    BY <1>1, <2>1
  <2> QED
    BY <2>2 DEF Contains
<1>4. Head(s) = e => Contains(s, e)
  BY <1>1 DEF Contains
<1> QED
  BY <1>2, <1>3, <1>4

\* What the receiver thread sends back is no power request.
LEMMA ContainsReplies ==
    ASSUME NEW s \in Seq(Requests), NEW i \in Indications, NEW r \in PowerRequests
    PROVE  Contains(s \o Replies(i), r) <=> Contains(s, r)
<1>1. CASE i \in Questions
  <2>1. Answer(i) \in Answers /\ Answer(i) # r
    BY <1>1 DEF Answers, Answer, Questions, PowerRequests
  <2>2. Answer(i) \in Requests
    BY <2>1 DEF Requests
  <2>3. s \o Replies(i) = Append(s, Answer(i))
    BY <1>1, <2>2 DEF Replies
  <2> QED
    BY <2>1, <2>2, <2>3, ContainsAppend
<1>2. CASE i \notin Questions
  <2>1. s \o Replies(i) = s
    BY <1>2 DEF Replies
  <2> QED
    BY <2>1
<1> QED
  BY <1>1, <1>2

\* No request of one kind is one of the other.
LEMMA NoRequestFacts ==
    /\ \A r \in PowerRequests : NoRequest.request # r
    /\ \A a \in Answers : a \notin PowerRequests
BY DEF NoRequest, PowerRequests, Answers, Answer, Questions

\* What setRadioPower decides is what was called for, and what was decided
\* before is still decided.
LEMMA DecideDecides ==
    ASSUME TypeOK, NEW p \in Phones, DecideRadioPower(p), NEW r \in PowerRequests
    PROVE  Decided(r)' <=> Decided(r) \/ r = RequestFor(Head(calls[p]))
<1>1. sending.request # r /\ sending'.request = RequestFor(Head(calls[p]))
  BY NoRequestFacts DEF DecideRadioPower
<1>2. UNCHANGED queue
  BY DEF DecideRadioPower
<1> QED
  BY <1>1, <1>2 DEF Decided

\* Sending is no decision, and forgets none.
LEMMA SendKeepsDecided ==
    ASSUME TypeOK, SendRadioPower, NEW r \in PowerRequests
    PROVE  Decided(r)' <=> Decided(r)
<1>1. sending.phone \in Phones /\ sending.request \in Requests
  BY DEF SendRadioPower, TypeOK, Requests
<1>2. /\ sending'.request # r
      /\ \A p \in Phones : queue'[p] = IF p = sending.phone
                                       THEN Append(queue[p], sending.request)
                                       ELSE queue[p]
  BY NoRequestFacts DEF SendRadioPower, TypeOK
<1>3. \A p \in Phones : queue[p] \in Seq(Requests)
  BY DEF TypeOK
<1>4. \A p \in Phones : Contains(queue'[p], r)
        <=> Contains(queue[p], r) \/ (p = sending.phone /\ sending.request = r)
  BY <1>1, <1>2, <1>3, ContainsAppend
<1> QED
  BY <1>1, <1>2, <1>4 DEF Decided

\* rild serves what was decided, and nothing else is dropped.
LEMMA ServeDecided ==
    ASSUME TypeOK, NEW p \in Phones, ServePower(p), NEW r \in PowerRequests
    PROVE  /\ Decided(r)' => Decided(r)
           /\ Decided(r) => Decided(r)' \/ r = Head(queue[p])
           /\ Decided(Head(queue[p]))
<1>1. queue[p] \in Seq(Requests) /\ queue[p] # << >>
  BY DEF ServePower, TypeOK
<1>2. \A s \in Phones : queue'[s] = IF s = p THEN Tail(queue[p]) ELSE queue[s]
  BY DEF ServePower, TypeOK
<1>3. UNCHANGED sending
  BY DEF ServePower
<1>4. \A e : Contains(queue[p], e) <=> Contains(Tail(queue[p]), e) \/ Head(queue[p]) = e
  BY <1>1, ContainsTail
<1> QED
  BY <1>2, <1>3, <1>4 DEF Decided

\* The modem's questions and their answers decide nothing.
LEMMA TalkKeepsDecided ==
    ASSUME TypeOK, NEW p \in Phones, NEW r \in PowerRequests,
           ServeAnswer(p) \/ processUnsolicited(p)
    PROVE  Decided(r)' <=> Decided(r)
<1>1. CASE ServeAnswer(p)
  <2>1. queue[p] \in Seq(Requests) /\ queue[p] # << >> /\ Head(queue[p]) # r
    BY <1>1, NoRequestFacts DEF ServeAnswer, TypeOK
  <2>2. \A s \in Phones : queue'[s] = IF s = p THEN Tail(queue[p]) ELSE queue[s]
    BY <1>1 DEF ServeAnswer, TypeOK
  <2>3. Contains(queue[p], r) <=> Contains(Tail(queue[p]), r)
    BY <2>1, ContainsTail
  <2>4. UNCHANGED sending
    BY <1>1 DEF ServeAnswer, power
  <2> QED
    BY <2>2, <2>3, <2>4 DEF Decided
<1>2. CASE processUnsolicited(p)
  <2>1. queue[p] \in Seq(Requests) /\ Head(inbox[p]) \in Indications
    BY <1>2 DEF processUnsolicited, TypeOK
  <2>2. \A s \in Phones : queue'[s] = IF s = p THEN queue[p] \o Replies(Head(inbox[p]))
                                                ELSE queue[s]
    BY <1>2 DEF processUnsolicited, TypeOK
  <2>3. Contains(queue[p] \o Replies(Head(inbox[p])), r) <=> Contains(queue[p], r)
    BY <2>1, ContainsReplies
  <2>4. UNCHANGED sending
    BY <1>2 DEF processUnsolicited, power
  <2> QED
    BY <2>2, <2>3, <2>4 DEF Decided
<1> QED
  BY <1>1, <1>2

-----------------------------------------------------------------------------
(***************************************************************************)
(* The invariant behind PowerAsPersisted: what is under way makes up for   *)
(* what the shared property and gsm.ril.eboot do not say yet.              *)
(***************************************************************************)

\* What is due for a phone is what the user wants, and only what airplane mode
\* calls for is on its way to rild.
RequestsFit ==
    /\ \A p \in Phones : calls[p] \in {<< >>, <<Desired(p)>>}
    /\ \A r \in PowerRequests : Decided(r) => (airplane <=> r = "MODEM_POWEROFF")
    /\ ~powered => \A p \in Phones : ~radio[p]

\* In airplane mode the property is set with the first call, and the modem goes
\* off with it unless the process dies; a radio that is still on then asks again.
OffInAirplane ==
    airplane =>
      /\ powered => /\ \A p \in Phones : calls[p] # << >> => radio[p]
                    /\ persisted => \E p \in Phones : radio[p]
      /\ ~persisted => powered /\ eboot = 0 /\ Calm

\* Out of it the first call is one to turn a radio on, and turns the modem on.
OnAgain ==
    ~airplane =>
      /\ persisted => /\ ~powered /\ Calm
                      /\ \A p \in Phones : calls[p] # << >> => wants[p]
      /\ ~persisted => /\ powered \/ Decided("MODEM_POWERON")
                       /\ eboot = 0 \/ sending.request = "MODEM_POWERON"

PowerInv == RequestsFit /\ OffInAirplane /\ OnAgain

\* Nothing is on its way to rild when the last change has taken effect.
LEMMA SettledIsCalm == TypeOK /\ Settled => Calm
<1> SUFFICES ASSUME TypeOK, Settled, NEW r \in PowerRequests PROVE ~Decided(r)
  BY DEF Calm
<1>1. \A p \in Phones : ~Contains(queue[p], r) /\ sending.phone # p
  BY DEF Settled, Idle
<1>2. sending.request # r
  BY <1>1, NoRequestFacts DEF TypeOK
<1> QED
  BY <1>1, <1>2 DEF Decided

\* So the property and the modem agree then.
LEMMA SettledAgrees ==
    ASSUME TypeOK, PowerInv, Settled
    PROVE  /\ powered <=> ~persisted
           /\ powered => eboot = 0
<1>1. Calm /\ sending.request # "MODEM_POWERON" /\ ~Decided("MODEM_POWERON")
  BY SettledIsCalm DEF Calm, Decided, PowerRequests
<1>2. \A p \in Phones : radio[p] = Desired(p)
  BY DEF Settled
<1>3. CASE airplane
  <2>1. \A p \in Phones : ~radio[p]
    BY <1>2, <1>3 DEF Desired
  <2> QED
    BY <1>3, <2>1 DEF PowerInv, OffInAirplane
<1>4. CASE ~airplane
  BY <1>1, <1>4 DEF PowerInv, OnAgain
<1> QED
  BY <1>3, <1>4

\* It holds after boot.
LEMMA InitPowerInv == Init => PowerInv
<1> SUFFICES ASSUME Init PROVE PowerInv
  OBVIOUS
<1>1. Calm
  <2> SUFFICES ASSUME NEW r \in PowerRequests PROVE ~Decided(r)
    BY DEF Calm
  <2>1. \A p \in Phones : ~Contains(queue[p], r)
    BY DEF Init, Contains
  <2> QED
    BY <2>1, NoRequestFacts DEF Decided, Init
<1>2. RequestsFit
  BY <1>1 DEF RequestsFit, Calm, Init
<1>3. OffInAirplane
  BY DEF OffInAirplane, Init
<1>4. OnAgain
  BY DEF OnAgain, Init
<1> QED
  BY <1>2, <1>3, <1>4 DEF PowerInv

\* A change of the user's, who waited for the last one to take effect: what was
\* due for nobody is due now for those phones whose radio is not as it should be.
LEMMA ChangeKeepsPowerInv ==
    ASSUME TypeOK, TypeOK', PowerInv, Settled,
           UNCHANGED <<persisted, eboot, sending, powered, radio, queue>>,
           \A p \in Phones : \/ calls'[p] = << >>
                             \/ calls'[p] = <<Desired(p)'>> /\ radio[p] # Desired(p)'
    PROVE  PowerInv'
<1>1. Calm'
  BY SettledIsCalm DEF Calm, Decided
<1>2. /\ powered <=> ~persisted
      /\ powered => eboot = 0
  BY SettledAgrees
<1>3. \A p \in Phones : /\ radio[p] \in BOOLEAN
                        /\ Desired(p)' <=> wants'[p] /\ ~airplane'
  BY DEF TypeOK, Desired
<1>4. \A p \in Phones : radio[p] = Desired(p)
  BY DEF Settled
<1>5. RequestsFit'
  BY <1>1 DEF RequestsFit, Calm, PowerInv
<1>6. ~powered => \A p \in Phones : ~radio[p]
  BY DEF PowerInv, RequestsFit
<1>a. \A p \in Phones : calls'[p] # << >> => (radio[p] <=> ~(wants'[p] /\ ~airplane'))
  <2> TAKE p \in Phones
  <2> HAVE calls'[p] # << >>
  <2>1. radio[p] # Desired(p)'
    OBVIOUS
  <2>2. radio[p] \in BOOLEAN /\ Desired(p)' \in BOOLEAN
    BY DEF TypeOK, Desired
  <2>3. radio[p] <=> ~(Desired(p)')
    BY <2>1, <2>2
  <2> QED
    BY <1>3, <2>3
<1>7. OffInAirplane'
  <2> SUFFICES ASSUME airplane' PROVE OffInAirplane'
    BY DEF OffInAirplane
  <2>1. \A p \in Phones : calls'[p] # << >> => radio[p]
    BY <1>a
  <2> QED
    BY <1>1, <1>2, <2>1 DEF OffInAirplane
<1>8. OnAgain'
  <2> SUFFICES ASSUME ~airplane' PROVE OnAgain'
    BY DEF OnAgain
  <2>1. ~powered => \A p \in Phones : calls'[p] # << >> => wants'[p]
    BY <1>6, <1>a
  <2> QED
    BY <1>1, <1>2, <2>1 DEF OnAgain
<1> QED
  BY <1>5, <1>7, <1>8 DEF PowerInv

\* The call that a change makes due.
LEMMA CallsForIdle ==
    ASSUME NEW p \in Phones, calls[p] = << >>
    PROVE  CallsFor(p) = IF radio[p] # Desired(p)' THEN <<Desired(p)'>> ELSE << >>
<1> DEFINE d == Desired(p)'
<1>1. CallsFor(p) = IF radio[p] # d THEN Append(<< >>, d) ELSE << >>
  BY DEF CallsFor
<1>2. Append(<< >>, d) = <<d>>
  OBVIOUS
<1> QED
  BY <1>1, <1>2

\* A step that leaves the power alone.
LEMMA TalkKeepsPowerInv ==
    ASSUME PowerInv, UNCHANGED power, \A r \in PowerRequests : Decided(r)' <=> Decided(r)
    PROVE  PowerInv'
<1>1. "MODEM_POWERON" \in PowerRequests
  BY DEF PowerRequests
<1>2. Calm' <=> Calm
  BY DEF Calm
<1>3. \A p \in Phones : Desired(p)' = Desired(p)
  BY DEF Desired, power
<1> QED
  BY <1>1, <1>2, <1>3 DEF PowerInv, RequestsFit, OffInAirplane, OnAgain, power

\* setRadioPower keeps it: the first call after airplane mode was left is for a
\* radio to be on, and so sends MODEM_POWERON.
LEMMA DecideKeepsPowerInv ==
    ASSUME TypeOK, PowerInv, NEW p \in Phones, DecideRadioPower(p)
    PROVE  PowerInv'
<1> DEFINE on == Head(calls[p])
           r == RequestFor(on)
<1>1. /\ calls[p] # << >> /\ sending = NoRequest
      /\ sending'.request = r /\ persisted' = airplane
      /\ UNCHANGED <<airplane, eboot, wants, powered, radio, queue>>
      /\ \A s \in Phones : calls'[s] = IF s = p THEN Tail(calls[p]) ELSE calls[s]
  BY DEF DecideRadioPower, TypeOK
<1>2. calls[p] = <<Desired(p)>> /\ on = Desired(p) /\ Tail(calls[p]) = << >>
  <2>1. calls[p] = <<Desired(p)>>
    BY <1>1 DEF PowerInv, RequestsFit
  <2> DEFINE d == Desired(p)
  <2>2. Head(<<d>>) = d /\ Tail(<<d>>) = << >>
    OBVIOUS
  <2> QED
    BY <2>1, <2>2
<1>3. on \in BOOLEAN /\ airplane \in BOOLEAN /\ persisted \in BOOLEAN /\ powered \in BOOLEAN
  BY <1>2 DEF TypeOK, Desired
<1>4. (on <=> wants[p] /\ ~airplane) /\ r \in PowerRequests
  BY <1>2, <1>3, RequestForFacts DEF Desired
<1>5. /\ airplane => r = "MODEM_POWEROFF"
      /\ ~airplane => r # "MODEM_POWEROFF"
      /\ on /\ persisted => r = "MODEM_POWERON"
  BY <1>3, <1>4 DEF RequestFor
<1>6. \A x \in PowerRequests : Decided(x)' <=> Decided(x) \/ x = r
  BY DecideDecides
<1> HIDE DEF on, r
<1>7. \A s \in Phones : Desired(s)' = Desired(s)
  BY <1>1 DEF Desired
<1>8. RequestsFit'
  BY <1>1, <1>2, <1>5, <1>6, <1>7 DEF RequestsFit, PowerInv
<1>9. OffInAirplane'
  <2> SUFFICES ASSUME airplane PROVE OffInAirplane'
    BY <1>1 DEF OffInAirplane
  <2>1. powered => radio[p]
    BY <1>1 DEF PowerInv, OffInAirplane
  <2>2. powered => \A s \in Phones : calls'[s] # << >> => radio[s]
    BY <1>1, <1>2 DEF PowerInv, OffInAirplane
  <2> QED
    BY <1>1, <2>1, <2>2 DEF OffInAirplane
<1>10. OnAgain'
  <2> SUFFICES ASSUME ~airplane PROVE OnAgain'
    BY <1>1 DEF OnAgain
  <2>1. CASE persisted
    <3>1. on /\ r = "MODEM_POWERON"
      BY <1>1, <1>4, <1>5, <2>1 DEF PowerInv, OnAgain
    <3> QED
      BY <1>1, <1>4, <1>6, <3>1 DEF OnAgain
  <2>2. CASE ~persisted
    <3>1. (powered \/ Decided("MODEM_POWERON")) /\ (eboot = 0 \/ sending.request = "MODEM_POWERON")
      BY <2>2 DEF PowerInv, OnAgain
    <3>2. sending.request # "MODEM_POWERON" /\ "MODEM_POWERON" \in PowerRequests
      BY <1>1, NoRequestFacts DEF PowerRequests
    <3> QED
      BY <1>1, <1>6, <3>1, <3>2 DEF OnAgain
  <2> QED
    BY <2>1, <2>2
<1> QED
  BY <1>8, <1>9, <1>10 DEF PowerInv

\* Sending keeps it: gsm.ril.eboot is cleared with the request that turns the
\* modem on.
LEMMA SendKeepsPowerInv ==
    ASSUME TypeOK, PowerInv, SendRadioPower
    PROVE  PowerInv'
<1>1. /\ UNCHANGED <<airplane, persisted, wants, calls, powered, radio>>
      /\ sending # NoRequest /\ sending' = NoRequest
      /\ eboot' = Eboot
  BY DEF SendRadioPower
<1>2. \A x \in PowerRequests : Decided(x)' <=> Decided(x)
  BY SendKeepsDecided
<1>3. sending.request \in PowerRequests /\ Decided(sending.request)
  BY <1>1 DEF TypeOK, Decided
<1>4. airplane <=> sending.request = "MODEM_POWEROFF"
  BY <1>3 DEF PowerInv, RequestsFit
<1>5. (Calm' <=> Calm) /\ ~Calm
  BY <1>2, <1>3 DEF Calm
<1>6. \A s \in Phones : Desired(s)' = Desired(s)
  BY <1>1 DEF Desired
<1>7. RequestsFit'
  BY <1>1, <1>2, <1>6 DEF RequestsFit, PowerInv
<1>8. OffInAirplane'
  BY <1>1, <1>5 DEF OffInAirplane, PowerInv
<1>9. OnAgain'
  <2> SUFFICES ASSUME ~airplane PROVE OnAgain'
    BY <1>1 DEF OnAgain
  <2>1. ~persisted /\ (powered \/ Decided("MODEM_POWERON"))
    BY <1>5 DEF PowerInv, OnAgain
  <2>2. eboot' = 0
    <3>1. eboot = 0 \/ sending.request = "MODEM_POWERON"
      BY <2>1 DEF PowerInv, OnAgain
    <3> QED
      BY <1>1, <1>4, <3>1 DEF Eboot
  <2>3. "MODEM_POWERON" \in PowerRequests
    BY DEF PowerRequests
  <2> QED
    BY <1>1, <1>2, <2>1, <2>2, <2>3 DEF OnAgain
<1> QED
  BY <1>7, <1>8, <1>9 DEF PowerInv

\* rild keeps it: only MODEM_POWEROFF turns the modem off, and only airplane mode
\* sends that.
LEMMA ServeKeepsPowerInv ==
    ASSUME TypeOK, PowerInv, NEW p \in Phones, ServePower(p)
    PROVE  PowerInv'
<1> DEFINE r == Head(queue[p])
<1>1. /\ r \in PowerRequests
      /\ powered' = IF r = "MODEM_POWERON" THEN TRUE
                    ELSE IF r = "MODEM_POWEROFF" THEN FALSE ELSE powered
      /\ UNCHANGED <<airplane, persisted, eboot, wants, calls, sending>>
  BY DEF ServePower
<1>2. ~powered' => radio' = [s \in Phones |-> FALSE]
  BY DEF ServePower
<1>3. \A x \in PowerRequests : /\ Decided(x)' => Decided(x)
                               /\ Decided(x) => Decided(x)' \/ x = r
  BY ServeDecided
<1>4. Decided(r) /\ (airplane <=> r = "MODEM_POWEROFF") /\ ~Calm
  BY <1>1, ServeDecided DEF PowerInv, RequestsFit, Calm
<1> HIDE DEF r
<1>5. \A s \in Phones : Desired(s)' = Desired(s)
  BY <1>1 DEF Desired
<1>6. powered' \in BOOLEAN
  BY <1>1 DEF TypeOK
<1>7. ~powered' => \A s \in Phones : ~radio'[s]
  BY <1>2
<1>8. RequestsFit'
  BY <1>1, <1>3, <1>5, <1>7 DEF RequestsFit, PowerInv
<1>9. OffInAirplane'
  BY <1>1, <1>4 DEF OffInAirplane, PowerInv
<1>10. OnAgain'
  <2> SUFFICES ASSUME ~airplane PROVE OnAgain'
    BY <1>1 DEF OnAgain
  <2>1. ~persisted /\ (powered \/ Decided("MODEM_POWERON"))
    BY <1>4 DEF PowerInv, OnAgain
  <2>2. powered' \/ Decided("MODEM_POWERON")'
    BY <1>1, <1>3, <1>4, <2>1 DEF PowerRequests
  <2>3. eboot = 0 \/ sending.request = "MODEM_POWERON"
    BY <2>1 DEF PowerInv, OnAgain
  <2> QED
    BY <1>1, <2>1, <2>2, <2>3 DEF OnAgain
<1> QED
  BY <1>8, <1>9, <1>10 DEF PowerInv

\* A call that the framework makes again is for what the user wants.
LEMMA CallAgainKeepsPowerInv ==
    ASSUME TypeOK, PowerInv, NEW p \in Phones, CallAgain(p)
    PROVE  PowerInv'
<1>1. /\ radio[p] # Desired(p)
      /\ \A s \in Phones : calls'[s] = IF s = p THEN <<Desired(p)>> ELSE calls[s]
      /\ UNCHANGED <<airplane, persisted, eboot, wants, sending, powered, radio, queue>>
  BY DEF CallAgain, TypeOK
<1>2. \A x : Decided(x)' <=> Decided(x)
  BY <1>1 DEF Decided
<1>3. \A s \in Phones : Desired(s)' = Desired(s)
  BY <1>1 DEF Desired
<1>4. Calm' <=> Calm
  BY <1>2 DEF Calm
<1>5. radio[p] <=> ~(wants[p] /\ ~airplane)
  <2>1. radio[p] \in BOOLEAN /\ Desired(p) \in BOOLEAN
    BY DEF TypeOK, Desired
  <2>2. radio[p] <=> ~Desired(p)
    BY <1>1, <2>1
  <2> QED
    BY <2>2 DEF Desired
<1>6. RequestsFit'
  BY <1>1, <1>2, <1>3 DEF RequestsFit, PowerInv
<1>7. OffInAirplane'
  BY <1>1, <1>4, <1>5 DEF OffInAirplane, PowerInv
<1>8. OnAgain'
  <2> SUFFICES ASSUME ~airplane PROVE OnAgain'
    BY <1>1 DEF OnAgain
  <2>1. ~powered => wants[p]
    BY <1>5 DEF PowerInv, RequestsFit
  <2> QED
    BY <1>1, <1>2, <1>4, <2>1 DEF OnAgain, PowerInv
<1> QED
  BY <1>6, <1>7, <1>8 DEF PowerInv

\* The process dies: a call to turn the modem off that was decided and not sent
\* is made again, as the radio that it was for is still on.
LEMMA DeathKeepsPowerInv ==
    ASSUME TypeOK, PowerInv, PhoneDies, Undisturbed
    PROVE  PowerInv'
<1>1. /\ sending.request # "MODEM_POWERON" /\ sending' = NoRequest
      /\ \A p \in Phones : calls'[p] = << >>
      /\ UNCHANGED <<airplane, persisted, eboot, wants, powered, radio, queue>>
  BY DEF PhoneDies
<1>2. \A x \in PowerRequests : Decided(x)' => Decided(x)
  BY <1>1, NoRequestFacts DEF Decided
<1>3. Decided("MODEM_POWERON")' <=> Decided("MODEM_POWERON")
  BY <1>1, NoRequestFacts DEF Decided, PowerRequests
<1>4. Calm => Calm'
  BY <1>2 DEF Calm
<1>5. RequestsFit'
  BY <1>1, <1>2 DEF RequestsFit, PowerInv
<1>6. OffInAirplane'
  BY <1>1, <1>4 DEF OffInAirplane, PowerInv
<1>7. OnAgain'
  BY <1>1, <1>3, <1>4 DEF OnAgain, PowerInv
<1> QED
  BY <1>5, <1>6, <1>7 DEF PowerInv

\* At boot rild does with the modem what the property says.
LEMMA RebootKeepsPowerInv ==
    ASSUME TypeOK, PowerInv, Reboot
    PROVE  PowerInv'
<1>1. /\ \A p \in Phones : calls'[p] = << >> /\ queue'[p] = << >> /\ radio'[p] = FALSE
      /\ sending' = NoRequest /\ powered' = ~persisted /\ eboot' = 0
      /\ UNCHANGED <<airplane, persisted, wants>>
  BY DEF Reboot
<1>2. \A x \in PowerRequests : ~(Decided(x)')
  BY <1>1, NoRequestFacts DEF Decided, Contains
<1>3. Calm'
  BY <1>2 DEF Calm
<1>4. RequestsFit'
  BY <1>1, <1>2 DEF RequestsFit
<1>5. OffInAirplane'
  BY <1>1, <1>3 DEF OffInAirplane
<1>6. OnAgain'
  BY <1>1, <1>3 DEF OnAgain
<1> QED
  BY <1>4, <1>5, <1>6 DEF PowerInv

\* Every step keeps it.
LEMMA NextPowerInv ==
    ASSUME Undisturbed, TypeOK, TypeOK', PowerInv, [Next]_vars
    PROVE  PowerInv'
<1>1. CASE SetAirplane
  <2>1. /\ Settled /\ UNCHANGED <<persisted, eboot, sending, powered, radio, queue>>
        /\ \A p \in Phones : calls'[p] = CallsFor(p) /\ calls[p] = << >>
    BY <1>1 DEF SetAirplane, Settled, Idle
  <2>2. \A p \in Phones : \/ calls'[p] = << >>
                          \/ calls'[p] = <<Desired(p)'>> /\ radio[p] # Desired(p)'
    BY <2>1, CallsForIdle
  <2> QED
    BY <2>1, <2>2, ChangeKeepsPowerInv
<1>2. ASSUME NEW p \in Phones, SetSim(p)
      PROVE  PowerInv'
  <2>1. /\ Settled /\ UNCHANGED <<persisted, eboot, sending, powered, radio, queue>>
        /\ \A s \in Phones : /\ calls[s] = << >>
                             /\ calls'[s] = IF s = p THEN CallsFor(p) ELSE calls[s]
    BY <1>2 DEF SetSim, Settled, Idle, TypeOK
  <2>2. \A s \in Phones : \/ calls'[s] = << >>
                          \/ calls'[s] = <<Desired(s)'>> /\ radio[s] # Desired(s)'
    BY <2>1, CallsForIdle
  <2> QED
    BY <2>1, <2>2, ChangeKeepsPowerInv
<1>3. ASSUME NEW p \in Phones, Proceeds(p)
      PROVE  PowerInv'
  <2>1. CASE CallAgain(p)
    BY <2>1, CallAgainKeepsPowerInv
  <2>2. CASE DecideRadioPower(p)
    BY <2>2, DecideKeepsPowerInv
  <2>3. CASE ServePower(p)
    BY <2>3, ServeKeepsPowerInv
  <2>4. CASE ServeAnswer(p)
    BY <2>4, TalkKeepsDecided, TalkKeepsPowerInv DEF ServeAnswer
  <2> QED
    BY <1>3, <2>1, <2>2, <2>3, <2>4 DEF Proceeds
<1>4. CASE SendRadioPower
  BY <1>4, SendKeepsPowerInv
<1>5. ASSUME NEW p \in Phones, processUnsolicited(p)
      PROVE  PowerInv'
  BY <1>5, TalkKeepsDecided, TalkKeepsPowerInv DEF processUnsolicited
<1>6. ASSUME NEW p \in Phones, NEW i, Indicate(p, i)
      PROVE  PowerInv'
  <2>1. UNCHANGED power /\ UNCHANGED queue /\ UNCHANGED sending
    BY <1>6 DEF Indicate, power
  <2>2. \A r \in PowerRequests : Decided(r)' <=> Decided(r)
    BY <2>1 DEF Decided
  <2> QED
    BY <2>1, <2>2, TalkKeepsPowerInv
<1>7. CASE PhoneDies
  BY <1>7, DeathKeepsPowerInv
<1>8. CASE Reboot
  BY <1>8, RebootKeepsPowerInv
<1>9. CASE UNCHANGED vars
  <2>1. UNCHANGED power /\ UNCHANGED queue /\ UNCHANGED sending
    BY <1>9 DEF vars, power
  <2>2. \A r \in PowerRequests : Decided(r)' <=> Decided(r)
    BY <2>1 DEF Decided
  <2> QED
    BY <2>1, <2>2, TalkKeepsPowerInv
<1> QED
  BY <1>1, <1>2, <1>3, <1>4, <1>5, <1>6, <1>7, <1>8, <1>9 DEF Next, Ask, CallInfo

\* While the user waits for each change to take effect, and the process does not
\* die between the two halves of a call that turns the modem on, the property
\* that the phones share says, when nothing is under way, just what state the
\* modem is in; so the next call with airplane mode off turns it on again
\* (MT6735.java:351), however often the phone dies otherwise or reboots.
THEOREM RadioPowerAsPersisted ==
    ASSUME Undisturbed PROVE Spec => []PowerAsPersisted
<1>1. TypeOK /\ PowerInv => PowerAsPersisted
  <2> SUFFICES ASSUME TypeOK, PowerInv, Settled
               PROVE  (powered = ~persisted) /\ (powered => eboot = 0)
    BY DEF PowerAsPersisted
  <2>1. powered \in BOOLEAN /\ persisted \in BOOLEAN
    BY DEF TypeOK
  <2> QED
    BY <2>1, SettledAgrees
<1>2. TypeOK /\ TypeOK' /\ PowerInv /\ [Next]_vars => PowerInv'
  BY NextPowerInv
<1> QED
  BY <1>1, <1>2, InitPowerInv, RadioTypeCorrect, PTL DEF Spec
=============================================================================
