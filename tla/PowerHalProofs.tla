--------------------------- MODULE PowerHalProofs ----------------------------
(***************************************************************************)
(* The driver follows the persisted setting and the profile property the   *)
(* remembered profile, after any number of failures, deaths and reboots.   *)
(* The argument: a setting that is not persisted yet is in the driver and  *)
(* is marked as such, so persisting it makes the two agree.                *)
(***************************************************************************)
EXTENDS PowerHal, TLAPS

\* The state the device is delivered in satisfies the invariant.
LEMMA InitIInv == Init => IInv
<1> SUFFICES ASSUME Init PROVE IInv
  OBVIOUS
<1>1. TypeOK
  <2>1. failures \in 0..MaxFailures
    BY PowerAssumption DEF PowerAssumption, Init
  <2>2. /\ up \in BOOLEAN
        /\ unpersisted \in BOOLEAN
        /\ stale \in BOOLEAN
    BY DEF Init
  <2>3. /\ control \in {0, 1}
        /\ preference \in {0, 1}
        /\ writing \in {0, 1, Nothing}
        /\ current_power_profile \in Profiles
        /\ profile \in Profiles \cup {Unset}
    BY DEF Init, Profiles
  <2> QED
    BY <2>1, <2>2, <2>3 DEF TypeOK
<1>2. WritingInv /\ DownInv /\ DriverFollowsPreference /\ ProfileIsSet
  BY DEF Init, WritingInv, DownInv, DriverFollowsPreference, ProfileIsSet
<1> QED
  BY <1>1, <1>2 DEF IInv

\* Counting a failure keeps the count in its type.
LEMMA FailFacts == ASSUME IInv, Fail PROVE failures' \in 0..MaxFailures
BY PowerAssumption DEF PowerAssumption, IInv, TypeOK, Fail

\* Every step keeps the invariant.
LEMMA NextIInv == IInv /\ [Next]_vars => IInv'
<1> SUFFICES ASSUME IInv, [Next]_vars PROVE IInv'
  OBVIOUS
<1> USE DEF IInv, TypeOK, WritingInv, DownInv, DriverFollowsPreference, ProfileIsSet,
            Profiles, Nothing, Unset
<1>1. CASE Load
  BY <1>1 DEF Load
<1>2. CASE LoadFails
  BY <1>2, FailFacts DEF LoadFails
<1>3. ASSUME NEW state \in {0, 1}, WriteControl(state) PROVE IInv'
  BY <1>3 DEF WriteControl
<1>4. ASSUME NEW state \in {0, 1}, WriteControlFails(state) PROVE IInv'
  BY <1>4, FailFacts DEF WriteControlFails
<1>5. CASE WritePreference
  BY <1>5 DEF WritePreference
<1>6. CASE WritePreferenceFails
  BY <1>6, FailFacts DEF WritePreferenceFails
<1>7. ASSUME NEW p \in Profiles, set_power_profile(p) PROVE IInv'
  BY <1>7 DEF set_power_profile
<1>8. ASSUME NEW p \in Profiles, SetProfileFails(p) PROVE IInv'
  BY <1>8, FailFacts DEF SetProfileFails
<1>9. CASE Die
  BY <1>9, FailFacts DEF Die
<1>10. CASE Reboot
  BY <1>10, FailFacts DEF Reboot
<1>11. CASE UNCHANGED vars
  BY <1>11 DEF vars
<1> QED
  BY <1>1, <1>2, <1>3, <1>4, <1>5, <1>6, <1>7, <1>8, <1>9, <1>10, <1>11 DEF Next

\* For any number of failures IInv holds at all times.
THEOREM PowerInvariance == Spec => []IInv
<1> QED
  BY InitIInv, NextIInv, PTL DEF Spec

\* Every variable of the power HAL keeps its type.
THEOREM PowerTypeCorrect == Spec => []TypeOK
<1>1. IInv => TypeOK
  BY DEF IInv
<1> QED
  BY <1>1, PowerInvariance, PTL

\* The driver does what the persisted setting says, unless the last setting was
\* not persisted or not restored.
THEOREM DriverFollows == Spec => []DriverFollowsPreference
<1>1. IInv => DriverFollowsPreference
  BY DEF IInv
<1> QED
  BY <1>1, PowerInvariance, PTL

\* sys.perf.profile holds the profile set_power_profile remembers, unless it is
\* stale.
THEOREM ProfileFollows == Spec => []ProfileIsSet
<1>1. IInv => ProfileIsSet
  BY DEF IInv
<1> QED
  BY <1>1, PowerInvariance, PTL

\* _taptowake_set_state never persists a setting the driver has not taken.
THEOREM PersistedAccepted == Spec => PersistedWasAccepted
<1>1. IInv /\ [Next]_vars => [preference' # preference => control = preference']_vars
  <2> SUFFICES ASSUME IInv, Next, preference' # preference PROVE control = preference'
    BY DEF vars
  <2>1. WritePreference
    BY DEF Next, Load, LoadFails, WriteControl, WriteControlFails,
           WritePreferenceFails, set_power_profile, SetProfileFails, Die, Reboot
  <2> QED
    BY <2>1 DEF WritePreference, IInv, WritingInv
<1> QED
  BY <1>1, PowerInvariance, PTL DEF Spec, PersistedWasAccepted
=============================================================================
