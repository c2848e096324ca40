------------------------------- MODULE EccList -------------------------------
(***************************************************************************)
(* Which numbers MT6735.dial treats as emergency numbers.  The list comes  *)
(* from ecc_list.xml, and from two system properties, one for each SIM     *)
(* slot: the vendor's rild writes the numbers of the SIM into a property   *)
(* while it answers GET_SIM_STATUS, and the receiver thread of the phone   *)
(* that gets the answer then adds its own numbers to the properties of     *)
(* BOTH slots (updateEmergencyNumbersProperty).  An empty property is how  *)
(* the code knows that a slot has no SIM.                                  *)
(*                                                                         *)
(* Each phone (slot) has an MT6735 object with a receiver thread of its    *)
(* own; the properties are read and written without a lock, so a get and   *)
(* the set that depends on it are two steps, and rild or the other phone   *)
(* may write between them.  The SIM slots, the vendor's rild and the       *)
(* network are external.                                                   *)
(***************************************************************************)
EXTENDS Naturals

CONSTANTS
    AlwaysNumbers,  \* ecc_list.xml: condition 1
    NoSimNumbers,   \* ecc_list.xml: condition 0
    ForMmiNumbers,  \* ecc_list.xml: condition 2
    CtaNumbers,     \* the numbers added when ro.mtk_cta_set is 1, else none
    SimLists,       \* the emergency numbers a SIM may bring
    NetworkLists,   \* the emergency numbers the network may send
    Numbers         \* all numbers that are dialled

ASSUME EccAssumption ==
    /\ AlwaysNumbers \cup NoSimNumbers \cup ForMmiNumbers \cup CtaNumbers \subseteq Numbers
    /\ AlwaysNumbers \cap NoSimNumbers = {} /\ ForMmiNumbers \cap NoSimNumbers = {}
    /\ SimLists \cup NetworkLists \subseteq SUBSET Numbers /\ {} \notin SimLists

VARIABLES
    customized,    \* mCustomizedEccList: the numbers of each condition
    network,       \* ril.ecc.service.category.list
    ecclist,       \* ril.ecclist and ril.ecclist1
    sim,           \* the numbers on the SIM of a slot, {} without a SIM
    changed,       \* a SIM was put in or taken out and rild has not answered since
    answers,       \* an answer to GET_SIM_STATUS waits for the phone
    updates,       \* where each receiver thread is in its update
    reverted       \* a set has undone rild's last write of a slot's property

vars == <<customized, network, ecclist, sim, changed, answers, updates, reverted>>

Slots == 1..2

\* What parseEccList makes of the whole file: the numbers of the CTA list
\* replace entries of theirs, whatever their condition was.
Parsed ==
    [noSim |-> NoSimNumbers \ CtaNumbers,
     always |-> AlwaysNumbers \ CtaNumbers,
     forMmi |-> ForMmiNumbers \cup CtaNumbers]

\* An exception ends it with the entries read so far and without the CTA list.
CutShort ==
    [noSim : SUBSET NoSimNumbers, always : SUBSET AlwaysNumbers, forMmi : SUBSET ForMmiNumbers]

\* The code makes no difference between the conditions 1 and 2.
Fixed == customized.always \cup customized.forMmi

\* stale: rild has since written something else than what the update has read.
Idle == [stage |-> "idle", slot |-> 1, numbers |-> {}, stale |-> FALSE]

Getting(s) == [stage |-> "get", slot |-> s, numbers |-> {}, stale |-> FALSE]

Setting(s, numbers) == [stage |-> "set", slot |-> s, numbers |-> numbers, stale |-> FALSE]

-----------------------------------------------------------------------------
Init ==
    /\ customized \in {Parsed} \cup CutShort
    /\ network = {}
    /\ ecclist = [s \in Slots |-> {}]
    /\ sim = [s \in Slots |-> {}]
    /\ changed = [s \in Slots |-> FALSE]
    /\ answers = [s \in Slots |-> FALSE]
    /\ updates = [s \in Slots |-> Idle]
    /\ reverted = [s \in Slots |-> FALSE]

\* A SIM is put in or taken out (external).
ChangeSim(s) ==
    /\ \E l \in SimLists \cup {{}} :
          /\ (l = {}) # (sim[s] = {})
          /\ sim' = [sim EXCEPT ![s] = l]
    /\ changed' = [changed EXCEPT ![s] = TRUE]
    /\ UNCHANGED <<customized, network, ecclist, answers, updates, reverted>>

\* The condition forgotten: the numbers for no SIM always go in (a mutant).
MergedAlways(numbers) ==
    numbers \cup Fixed \cup customized.noSim

\* The numbers of the SIM forgotten (a mutant).
MergedAnew(numbers) ==
    Fixed \cup (IF numbers = {} THEN customized.noSim ELSE {})

\* What updateEmergencyNumbersProperty makes of the numbers it read.
Merged(numbers) ==
    numbers \cup Fixed \cup (IF numbers = {} THEN customized.noSim ELSE {})

\* What a slot's property may hold while its SIM is this one: what rild has
\* written, or that with the phone's own numbers.
Written(s) == {sim[s], Merged(sim[s])}

\* rild writes the property of the slot and answers GET_SIM_STATUS (external).
VendorAnswers(s) ==
    /\ ~answers[s]
    /\ ecclist' = [ecclist EXCEPT ![s] = sim[s]]
    /\ changed' = [changed EXCEPT ![s] = FALSE]
    /\ answers' = [answers EXCEPT ![s] = TRUE]
    /\ updates' = [p \in Slots |->
          [updates[p] EXCEPT !.stale =
              @ \/ /\ updates[p].stage = "set" /\ updates[p].slot = s
                   /\ updates[p].numbers \notin Written(s)]]
    /\ reverted' = [reverted EXCEPT ![s] = FALSE]
    /\ UNCHANGED <<customized, network, sim>>

\* The network sends its own list, or takes it back (external).
NetworkUpdates(numbers) ==
    /\ network # numbers
    /\ network' = numbers
    /\ UNCHANGED <<customized, ecclist, sim, changed, answers, updates, reverted>>

\* processSolicited: an answer that is not empty starts an update, any other
\* only leaves the queue.
ProcessSolicited(p) ==
    /\ answers[p] /\ updates[p] = Idle
    /\ answers' = [answers EXCEPT ![p] = FALSE]
    /\ updates' \in {updates, [updates EXCEPT ![p] = Getting(1)]}
    /\ UNCHANGED <<customized, network, ecclist, sim, changed, reverted>>

GetList(p) ==
    /\ updates[p].stage = "get"
    /\ updates' = [updates EXCEPT ![p] = Setting(@.slot, ecclist[@.slot])]
    /\ UNCHANGED <<customized, network, ecclist, sim, changed, answers, reverted>>

SetList(p) ==
    /\ updates[p].stage = "set"
    /\ ecclist' = [ecclist EXCEPT ![updates[p].slot] = Merged(updates[p].numbers)]
    /\ reverted' = [reverted EXCEPT ![updates[p].slot] = @ \/ updates[p].stale]
    /\ updates' = [updates EXCEPT ![p] = IF @.slot < 2 THEN Getting(@.slot + 1) ELSE Idle]
    /\ UNCHANGED <<customized, network, sim, changed, answers>>

Next ==
    \/ \E s \in Slots :
          \/ ChangeSim(s)
          \/ VendorAnswers(s)
          \/ ProcessSolicited(s)
          \/ GetList(s)
          \/ SetList(s)
    \/ \E numbers \in NetworkLists \cup {{}} : NetworkUpdates(numbers)

Spec == Init /\ [][Next]_vars

-----------------------------------------------------------------------------
\* The code takes a slot for one with a SIM when its property is not empty.
bSIMInserted == \E s \in Slots : ecclist[s] # {}

\* isEmergencyNumberExt, which decides how dial sends a number.
isEmergencyNumberExt(number) ==
    \/ number \in network
    \/ \E s \in Slots : number \in ecclist[s]
    \/ number \in Fixed
    \/ ~bSIMInserted /\ number \in customized.noSim

-----------------------------------------------------------------------------
(***************************************************************************)
(* Properties.                                                             *)
(***************************************************************************)

\* Every variable has its type, and the entries of the file are kept apart.
TypeOK ==
    /\ customized \in [noSim : SUBSET NoSimNumbers,
                       always : SUBSET AlwaysNumbers,
                       forMmi : SUBSET (ForMmiNumbers \cup CtaNumbers)]
    /\ customized.noSim \cap Fixed = {}
    /\ network \in SUBSET Numbers
    /\ ecclist \in [Slots -> SUBSET Numbers]
    /\ sim \in [Slots -> SimLists \cup {{}}]
    /\ changed \in [Slots -> BOOLEAN]
    /\ answers \in [Slots -> BOOLEAN]
    /\ updates \in [Slots -> [stage : {"idle", "get", "set"}, slot : Slots,
                              numbers : SUBSET Numbers, stale : BOOLEAN]]
    /\ reverted \in [Slots -> BOOLEAN]

\* rild has answered since the SIM of the slot was changed, and no update has
\* undone what it wrote ("vendor ril refreshes the properties while generating
\* this answer. Do our own updates afterwards", MT6735.java:401: the updates of
\* the other phone need not be afterwards).
Settled(s) == ~changed[s] /\ ~reverted[s]

NoSimIn(s) == sim[s] = {}

\* The emergency numbers of a SIM are emergency numbers once rild has told of
\* it, through any updates of the two phones and any answers meanwhile.  They
\* are lost in one way only: an update has read the slot's property for another
\* SIM, or for none, and sets it after rild's write; the next answer repairs it.
SimNumbersHonoured ==
    \A s \in Slots : Settled(s) => \A n \in sim[s] : isEmergencyNumberExt(n)

\* With a SIM in both slots or in none, a number is an emergency number just
\* when the network, a SIM or ecc_list.xml says so, in the middle of an update
\* too; without a SIM the numbers of condition 0 are, with SIMs they are not.
\* Numbers of condition 2, for which ecc_list.xml:10 wants a normal call, are
\* left out: dial makes emergency calls of them.
EmergencyAsConfigured ==
    (/\ \A s \in Slots : Settled(s)
     /\ \A s \in Slots : NoSimIn(s) = NoSimIn(1))
    => \A n \in Numbers \ customized.forMmi :
          isEmergencyNumberExt(n) <=>
            \/ n \in network
            \/ \E s \in Slots : n \in sim[s]
            \/ n \in customized.always
            \/ n \in customized.noSim /\ NoSimIn(1)

-----------------------------------------------------------------------------
(***************************************************************************)
(* The inductive invariant behind the two properties: what a settled       *)
(* slot's property holds, and what an update that is not stale has read of *)
(* it, is what rild wrote or that with the phone's own numbers.            *)
(***************************************************************************)
ListInv == \A s \in Slots : Settled(s) => ecclist[s] \in Written(s)

UpdateInv ==
    \A p \in Slots :
        updates[p].stage = "set" /\ ~updates[p].stale /\ Settled(updates[p].slot)
          => updates[p].numbers \in Written(updates[p].slot)

IInv == TypeOK /\ ListInv /\ UpdateInv
=============================================================================
