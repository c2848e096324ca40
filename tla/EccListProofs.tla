---------------------------- MODULE EccListProofs ----------------------------
(***************************************************************************)
(* Proofs about EccList, for any configured numbers and any SIMs, and with *)
(* rild and the two phones writing a property whenever they like.          *)
(***************************************************************************)
EXTENDS EccList, TLAPS

\* The configured numbers are numbers; a later update adds nothing.
LEMMA MergedType ==
    ASSUME TypeOK, NEW numbers \in SUBSET Numbers
    PROVE  Merged(numbers) \in SUBSET Numbers
BY EccAssumption DEF Merged, Fixed, TypeOK

LEMMA MergedTwice ==
    ASSUME NEW numbers
    PROVE  Merged(Merged(numbers)) = Merged(numbers)
<1>1. CASE Merged(numbers) = {}
  BY <1>1 DEF Merged
<1>2. CASE Merged(numbers) # {}
  <2>1. Merged(Merged(numbers)) = Merged(numbers) \cup Fixed
    BY <1>2 DEF Merged
  <2> QED
    BY <2>1 DEF Merged
<1> QED
  BY <1>1, <1>2

LEMMA WrittenMerged ==
    ASSUME NEW s, NEW numbers \in Written(s)
    PROVE  Merged(numbers) \in Written(s)
BY MergedTwice DEF Written

\* What a property may hold depends on the configuration and the SIM only.
LEMMA WrittenSame ==
    ASSUME NEW s, customized' = customized, sim'[s] = sim[s]
    PROVE  Written(s)' = Written(s)
BY DEF Written, Merged, Fixed

LEMMA InitInv == Init => IInv
<1> SUFFICES ASSUME Init PROVE IInv
  OBVIOUS
<1>1. TypeOK
  <2>1. customized \in [noSim : SUBSET NoSimNumbers,
                        always : SUBSET AlwaysNumbers,
                        forMmi : SUBSET (ForMmiNumbers \cup CtaNumbers)]
    BY DEF Init, Parsed, CutShort
  <2>2. customized.noSim \cap Fixed = {}
    BY EccAssumption DEF Init, Parsed, CutShort, Fixed
  <2> QED
    BY <2>1, <2>2 DEF Init, TypeOK, Idle, Slots
<1>2. ListInv
  BY DEF Init, ListInv, Written, Settled
<1>3. UpdateInv
  BY DEF Init, UpdateInv, Idle
<1> QED
  BY <1>1, <1>2, <1>3 DEF IInv

LEMMA ChangeSimInv ==
    ASSUME IInv, NEW s \in Slots, ChangeSim(s)
    PROVE  IInv'
<1> USE DEF IInv, ChangeSim
<1>1. TypeOK'
  BY DEF TypeOK, Fixed
<1>2. \A t \in Slots : Settled(t)' => Settled(t) /\ sim'[t] = sim[t] /\ Written(t)' = Written(t)
  <2> SUFFICES ASSUME NEW t \in Slots, Settled(t)'
               PROVE  Settled(t) /\ sim'[t] = sim[t] /\ Written(t)' = Written(t)
    OBVIOUS
  <2>1. t # s
    BY DEF Settled, TypeOK
  <2>2. sim'[t] = sim[t] /\ changed'[t] = changed[t]
    BY <2>1 DEF TypeOK
  <2> QED
    BY <2>2, WrittenSame DEF Settled
<1>3. ListInv'
  BY <1>2 DEF ListInv
<1>4. UpdateInv'
  BY <1>2 DEF UpdateInv, TypeOK
<1> QED
  BY <1>1, <1>3, <1>4

\* rild's write settles the slot; an update that has read something else, that
\* is not yet set, becomes stale.
LEMMA VendorAnswersInv ==
    ASSUME IInv, NEW s \in Slots, VendorAnswers(s)
    PROVE  IInv'
<1>1. /\ ecclist' = [ecclist EXCEPT ![s] = sim[s]]
      /\ changed' = [changed EXCEPT ![s] = FALSE]
      /\ reverted' = [reverted EXCEPT ![s] = FALSE]
      /\ answers' = [answers EXCEPT ![s] = TRUE]
      /\ UNCHANGED <<customized, network, sim>>
  BY DEF VendorAnswers
<1>2. \A p \in Slots :
         /\ updates'[p].stage = updates[p].stage /\ updates'[p].slot = updates[p].slot
         /\ updates'[p].numbers = updates[p].numbers /\ updates'[p].stale \in BOOLEAN
         /\ ~updates'[p].stale =>
               /\ ~updates[p].stale
               /\ updates[p].stage = "set" /\ updates[p].slot = s
                    => updates[p].numbers \in Written(s)
  <2> SUFFICES ASSUME NEW p \in Slots
               PROVE  /\ updates'[p].stage = updates[p].stage
                      /\ updates'[p].slot = updates[p].slot
                      /\ updates'[p].numbers = updates[p].numbers
                      /\ updates'[p].stale \in BOOLEAN
                      /\ ~updates'[p].stale =>
                            /\ ~updates[p].stale
                            /\ updates[p].stage = "set" /\ updates[p].slot = s
                                 => updates[p].numbers \in Written(s)
    OBVIOUS
  <2> DEFINE u == updates[p]
             b == u.stale \/ /\ u.stage = "set" /\ u.slot = s
                             /\ u.numbers \notin Written(s)
  <2>1. updates'[p] = [u EXCEPT !.stale = b]
    BY Zenon DEF VendorAnswers
  <2>2. u \in [stage : {"idle", "get", "set"}, slot : Slots,
               numbers : SUBSET Numbers, stale : BOOLEAN]
    BY DEF IInv, TypeOK
  <2>3. b \in BOOLEAN
    BY <2>2
  <2>4. ~b => ~u.stale /\ (u.stage = "set" /\ u.slot = s => u.numbers \in Written(s))
    OBVIOUS
  <2> HIDE DEF b, u
  <2>5. /\ updates'[p].stage = u.stage /\ updates'[p].slot = u.slot
        /\ updates'[p].numbers = u.numbers /\ updates'[p].stale = b
    BY <2>1, <2>2, <2>3
  <2> QED
    BY <2>3, <2>4, <2>5, Zenon DEF u
<1>3. updates' \in [Slots -> [stage : {"idle", "get", "set"}, slot : Slots,
                              numbers : SUBSET Numbers, stale : BOOLEAN]]
  <2> DEFINE b(p) == updates[p].stale \/
                       /\ updates[p].stage = "set" /\ updates[p].slot = s
                       /\ updates[p].numbers \notin Written(s)
  <2>1. updates' = [p \in Slots |-> [updates[p] EXCEPT !.stale = b(p)]]
    BY Zenon DEF VendorAnswers
  <2>2. \A p \in Slots : b(p) \in BOOLEAN
    BY DEF IInv, TypeOK
  <2>3. \A p \in Slots : updates[p] \in [stage : {"idle", "get", "set"}, slot : Slots,
                                        numbers : SUBSET Numbers, stale : BOOLEAN]
    BY DEF IInv, TypeOK
  <2> HIDE DEF b
  <2>4. \A p \in Slots : [updates[p] EXCEPT !.stale = b(p)] \in
                            [stage : {"idle", "get", "set"}, slot : Slots,
                             numbers : SUBSET Numbers, stale : BOOLEAN]
    BY <2>2, <2>3
  <2> QED
    BY <2>1, <2>4
<1>4. TypeOK'
  <2>1. sim[s] \in SUBSET Numbers
    BY EccAssumption DEF IInv, TypeOK
  <2>2. ecclist' \in [Slots -> SUBSET Numbers]
    BY <1>1, <2>1 DEF IInv, TypeOK
  <2> QED
    BY <1>1, <1>3, <2>2 DEF IInv, TypeOK, Fixed
<1>5. \A t \in Slots : Written(t)' = Written(t)
  BY <1>1, WrittenSame
<1>6. \A t \in Slots \ {s} : Settled(t)' => Settled(t)
  BY <1>1 DEF Settled, IInv, TypeOK
<1>7. ListInv'
  <2> SUFFICES ASSUME NEW t \in Slots, Settled(t)'
               PROVE  ecclist'[t] \in Written(t)
    BY <1>5 DEF ListInv
  <2>1. CASE t = s
    BY <1>1, <2>1 DEF Written, IInv, TypeOK
  <2>2. CASE t # s
    BY <1>1, <1>6, <2>2 DEF IInv, ListInv, TypeOK
  <2> QED
    BY <2>1, <2>2
<1>8. UpdateInv'
  <2> SUFFICES ASSUME NEW p \in Slots, updates'[p].stage = "set", ~updates'[p].stale,
                      Settled(updates[p].slot)'
               PROVE  updates'[p].numbers \in Written(updates[p].slot)'
    BY DEF UpdateInv
  <2> DEFINE t == updates[p].slot
  <2>1. t \in Slots
    BY DEF IInv, TypeOK
  <2>2. updates[p].numbers \in Written(t)
    <3>1. CASE t = s
      BY <1>2, <3>1
    <3>2. CASE t # s
      <4>1. updates'[p].slot = t
        BY <1>2
      <4>2. Settled(t)
        BY <1>1, <2>1, <3>2, <4>1 DEF Settled, IInv, TypeOK
      <4> QED
        BY <1>2, <4>2 DEF IInv, UpdateInv
    <3> QED
      BY <3>1, <3>2
  <2>3. updates'[p].slot = t /\ updates'[p].numbers = updates[p].numbers
    BY <1>2
  <2> QED
    BY <1>5, <2>1, <2>2, <2>3 DEF Written, Merged, Fixed
<1> QED
  BY <1>4, <1>7, <1>8 DEF IInv

LEMMA NetworkUpdatesInv ==
    ASSUME IInv, NEW numbers \in NetworkLists \cup {{}}, NetworkUpdates(numbers)
    PROVE  IInv'
<1> USE DEF IInv, NetworkUpdates
<1>1. TypeOK'
  BY EccAssumption DEF TypeOK, Fixed
<1>2. ListInv'
  BY DEF ListInv, Settled, Written, Merged, Fixed
<1>3. UpdateInv'
  BY DEF UpdateInv, Settled, Written, Merged, Fixed
<1> QED
  BY <1>1, <1>2, <1>3

LEMMA ProcessSolicitedInv ==
    ASSUME IInv, NEW p \in Slots, ProcessSolicited(p)
    PROVE  IInv'
<1> USE DEF IInv, ProcessSolicited
<1>1. TypeOK'
  <2>1. [updates EXCEPT ![p] = Getting(1)]
           \in [Slots -> [stage : {"idle", "get", "set"}, slot : Slots,
                         numbers : SUBSET Numbers, stale : BOOLEAN]]
    BY DEF TypeOK, Getting, Slots
  <2> QED
    BY <2>1 DEF TypeOK, Fixed
<1>2. ListInv'
  BY DEF ListInv, Settled, Written, Merged, Fixed
<1>3. UpdateInv'
  BY DEF UpdateInv, Settled, Written, Merged, Fixed, Getting, TypeOK
<1> QED
  BY <1>1, <1>2, <1>3

\* What an update reads of a settled slot is what ListInv says it holds.
LEMMA GetListInv ==
    ASSUME IInv, NEW p \in Slots, GetList(p)
    PROVE  IInv'
<1> USE DEF IInv, GetList
<1>1. TypeOK'
  BY DEF TypeOK, Setting, Fixed
<1>2. ListInv'
  BY DEF ListInv, Settled, Written, Merged, Fixed
<1>3. UpdateInv'
  <2> SUFFICES ASSUME NEW q \in Slots, updates'[q].stage = "set", ~updates'[q].stale,
                      Settled(updates'[q].slot)
               PROVE  updates'[q].numbers \in Written(updates'[q].slot)
    BY DEF UpdateInv, Settled, Written, Merged, Fixed
  <2>1. CASE q = p
    BY <2>1 DEF Setting, ListInv, TypeOK
  <2>2. CASE q # p
    BY <2>2 DEF UpdateInv, TypeOK
  <2> QED
    BY <2>1, <2>2
<1> QED
  BY <1>1, <1>2, <1>3

LEMMA SetListInv ==
    ASSUME IInv, NEW p \in Slots, SetList(p)
    PROVE  IInv'
<1> USE DEF IInv, SetList
<1> DEFINE slot == updates[p].slot
<1>0. slot \in Slots /\ updates[p].numbers \in SUBSET Numbers
  BY DEF TypeOK
<1>1. TypeOK'
  <2>1. Merged(updates[p].numbers) \in SUBSET Numbers
    BY <1>0, MergedType
  <2>2. ecclist' \in [Slots -> SUBSET Numbers]
    BY <2>1 DEF TypeOK
  <2>3. updates' \in [Slots -> [stage : {"idle", "get", "set"}, slot : Slots,
                                numbers : SUBSET Numbers, stale : BOOLEAN]]
    BY <1>0 DEF TypeOK, Getting, Idle, Slots
  <2>4. reverted' \in [Slots -> BOOLEAN]
    BY DEF TypeOK
  <2> QED
    BY <2>2, <2>3, <2>4 DEF TypeOK, Fixed
<1>2. \A t \in Slots : Written(t)' = Written(t)
  BY WrittenSame
<1>3. \A t \in Slots : Settled(t)' => Settled(t) /\ (t = slot => ~updates[p].stale)
  BY DEF Settled, TypeOK
<1>4. ListInv'
  <2> SUFFICES ASSUME NEW t \in Slots, Settled(t)'
               PROVE  ecclist'[t] \in Written(t)
    BY <1>2 DEF ListInv
  <2>1. CASE t = slot
    <3>1. updates[p].numbers \in Written(t)
      BY <1>3, <2>1 DEF UpdateInv
    <3>2. ecclist'[t] = Merged(updates[p].numbers)
      BY <2>1 DEF TypeOK
    <3> QED
      BY <3>1, <3>2, WrittenMerged
  <2>2. CASE t # slot
    BY <1>3, <2>2 DEF ListInv, TypeOK
  <2> QED
    BY <2>1, <2>2
<1>5. UpdateInv'
  <2> SUFFICES ASSUME NEW q \in Slots, updates'[q].stage = "set", ~updates'[q].stale,
                      Settled(updates[q].slot)'
               PROVE  updates'[q].numbers \in Written(updates[q].slot)'
    BY DEF UpdateInv
  <2>1. q # p /\ updates'[q] = updates[q]
    BY DEF TypeOK, Getting, Idle
  <2>2. updates[q].slot \in Slots
    BY DEF TypeOK
  <2>3. updates[q].numbers \in Written(updates[q].slot)
    BY <1>3, <2>1, <2>2 DEF UpdateInv
  <2> QED
    BY <1>2, <2>1, <2>2, <2>3
<1> QED
  BY <1>1, <1>4, <1>5

LEMMA StepInv == IInv /\ [Next]_vars => IInv'
<1> SUFFICES ASSUME IInv, [Next]_vars PROVE IInv'
  OBVIOUS
<1>1. CASE Next
  BY <1>1, ChangeSimInv, VendorAnswersInv, NetworkUpdatesInv, ProcessSolicitedInv,
     GetListInv, SetListInv DEF Next
<1>2. CASE UNCHANGED vars
  BY <1>2 DEF vars, IInv, TypeOK, ListInv, UpdateInv, Settled, Written, Merged, Fixed
<1> QED
  BY <1>1, <1>2

\* IInv holds in every state, for any configured numbers and any SIMs.
THEOREM EccInvariance == Spec => []IInv
<1>1. Init => IInv
  BY InitInv
<1>2. IInv /\ [Next]_vars => IInv'
  BY StepInv
<1> QED
  BY <1>1, <1>2, PTL DEF Spec

\* Every variable keeps its type (EccList's whole state).
THEOREM EccTypeCorrect == Spec => []TypeOK
<1>1. IInv => TypeOK
  BY DEF IInv
<1> QED
  BY <1>1, EccInvariance, PTL

\* The numbers of a SIM that rild has told of stay emergency numbers, whatever
\* updateEmergencyNumbersProperty (MtkEccList.java:335-382) of the two phones and
\* rild do in between, but for a set of what was read before rild's last write
\* and for another SIM; and rild's next answer makes them such again.
THEOREM SimNumbersKept == Spec => []SimNumbersHonoured
<1>1. IInv => SimNumbersHonoured
  <2> SUFFICES ASSUME IInv, NEW s \in Slots, Settled(s), NEW n \in sim[s]
               PROVE  isEmergencyNumberExt(n)
    BY DEF SimNumbersHonoured
  <2>1. ecclist[s] \in {sim[s], Merged(sim[s])}
    BY DEF IInv, ListInv, Written
  <2>2. n \in ecclist[s]
    BY <2>1 DEF Merged
  <2> QED
    BY <2>2 DEF isEmergencyNumberExt
<1> QED
  BY <1>1, EccInvariance, PTL

\* isEmergencyNumberExt says what the network, the SIMs and the conditions 0 and
\* 1 of ecc_list.xml say, before, during and after an update, with SIMs in both
\* slots or in none.
THEOREM ConfigurationKept == Spec => []EmergencyAsConfigured
<1>1. IInv => EmergencyAsConfigured
  <2> SUFFICES ASSUME IInv, \A s \in Slots : Settled(s),
                      \A s \in Slots : NoSimIn(s) = NoSimIn(1),
                      NEW n \in Numbers \ customized.forMmi
               PROVE  isEmergencyNumberExt(n) <=>
                        \/ n \in network
                        \/ \E s \in Slots : n \in sim[s]
                        \/ n \in customized.always
                        \/ n \in customized.noSim /\ NoSimIn(1)
    BY DEF EmergencyAsConfigured
  <2>1. \A s \in Slots : ecclist[s] = sim[s] \/ ecclist[s] = Merged(sim[s])
    BY DEF IInv, ListInv, Written
  <2>2. 1 \in Slots /\ (n \in Fixed <=> n \in customized.always)
    BY DEF Slots, Fixed
  <2>3. CASE NoSimIn(1)
    <3>1. \A s \in Slots : sim[s] = {}
      BY <2>3 DEF NoSimIn
    <3>2. \A s \in Slots : ecclist[s] = {} \/ ecclist[s] = Fixed \cup customized.noSim
      BY <2>1, <3>1 DEF Merged
    <3> QED
      BY <2>2, <2>3, <3>1, <3>2 DEF isEmergencyNumberExt, bSIMInserted
  <2>4. CASE ~NoSimIn(1)
    <3>1. \A s \in Slots : sim[s] # {}
      BY <2>4 DEF NoSimIn
    <3>2. \A s \in Slots : ecclist[s] = sim[s] \/ ecclist[s] = sim[s] \cup Fixed
      BY <2>1, <3>1 DEF Merged
    <3>3. bSIMInserted
      BY <2>2, <3>1, <3>2 DEF bSIMInserted
    <3> QED
      BY <2>2, <2>4, <3>2, <3>3 DEF isEmergencyNumberExt
  <2> QED
    BY <2>3, <2>4
<1> QED
  BY <1>1, EccInvariance, PTL
=============================================================================
