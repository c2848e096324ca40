------------------------------ MODULE PowerHal -------------------------------
(***************************************************************************)
(* The power HAL: the double-tap-to-wake setting of power-feature.c and    *)
(* the power profile of power.c.  The HAL is a library of system_server:   *)
(* its statics die with that process, the control file and the properties  *)
(* outlive it, and only the persistent property outlives a reboot.         *)
(*                                                                         *)
(* The framework sets the feature under a lock of its own, and the         *)
(* profile under another, so neither function runs twice at once; they     *)
(* share no state.  A set_feature is two writes, either of which may fail, *)
(* and the process may die between them.                                   *)
(***************************************************************************)
EXTENDS Naturals

CONSTANT MaxFailures    \* failed writes, crashes and reboots (a bound for TLC)

ASSUME PowerAssumption == MaxFailures \in Nat

VARIABLES
    control,                  \* the control file, /sys/class/droi_gesture/astp
    preference,               \* persist.cmhw.mt675x_taptowake
    writing,                  \* the state _taptowake_set_state has yet to persist
    current_power_profile,    \* the static of power.c
    profile,                  \* sys.perf.profile
    up,                       \* the library is loaded
    unpersisted,              \* control was set and preference was not
    stale,                    \* profile is a dead process's, or the last set failed
    failures                  \* how much has failed so far

vars == <<control, preference, writing, current_power_profile, profile, up,
          unpersisted, stale, failures>>

Profiles == {"save", "balanced", "performance", "bias"}

Nothing == 2
Unset == "unset"

Init ==
    /\ control = 0
    /\ preference = 0
    /\ writing = Nothing
    /\ current_power_profile = "balanced"
    /\ profile = Unset
    /\ up = FALSE
    /\ unpersisted = FALSE
    /\ stale = FALSE
    /\ failures = 0

Fail == failures < MaxFailures /\ failures' = failures + 1

-----------------------------------------------------------------------------
\* The library does not look at the preference when it is loaded (a mutant).
LoadBlindly ==
    /\ ~up
    /\ up' = TRUE
    /\ current_power_profile' = "balanced"
    /\ unpersisted' = FALSE
    /\ UNCHANGED <<control, preference, writing, profile, stale, failures>>

\* _taptowake_onload, which runs when the library is loaded.
Load ==
    /\ ~up
    /\ up' = TRUE
    /\ current_power_profile' = "balanced"
    /\ control' = preference
    /\ unpersisted' = FALSE
    /\ UNCHANGED <<preference, writing, profile, stale, failures>>

\* The same, with a control file that cannot be written.
LoadFails ==
    /\ ~up /\ Fail
    /\ up' = TRUE
    /\ current_power_profile' = "balanced"
    /\ unpersisted' = TRUE
    /\ UNCHANGED <<control, preference, writing, profile, stale>>

\* _taptowake_set_state: the control file is written first.
WriteControl(state) ==
    /\ up /\ writing = Nothing
    /\ control' = state
    /\ writing' = state
    /\ unpersisted' = TRUE
    /\ UNCHANGED <<preference, current_power_profile, profile, up, stale, failures>>

\* A control file that cannot be written leaves the preference alone.
WriteControlFails(state) ==
    /\ up /\ writing = Nothing /\ Fail
    /\ UNCHANGED <<control, preference, writing, current_power_profile, profile, up,
                   unpersisted, stale>>

WritePreference ==
    /\ up /\ writing # Nothing
    /\ preference' = writing
    /\ writing' = Nothing
    /\ unpersisted' = FALSE
    /\ UNCHANGED <<control, current_power_profile, profile, up, stale, failures>>

\* The result of property_set is only logged.
WritePreferenceFails ==
    /\ up /\ writing # Nothing /\ Fail
    /\ writing' = Nothing
    /\ UNCHANGED <<control, preference, current_power_profile, profile, up,
                   unpersisted, stale>>

-----------------------------------------------------------------------------
\* The profile is remembered and the property is not set (a mutant).
set_power_profile_silent(p) ==
    /\ up
    /\ current_power_profile' = p
    /\ UNCHANGED <<control, preference, writing, profile, up, unpersisted, stale, failures>>

\* set_power_profile: nothing is done for the profile that is remembered.
set_power_profile(p) ==
    /\ up /\ p # current_power_profile
    /\ current_power_profile' = p
    /\ profile' = p
    /\ stale' = FALSE
    /\ UNCHANGED <<control, preference, writing, up, unpersisted, failures>>

\* The result of property_set is dropped, and the profile remembered all the
\* same: to set it again does nothing.
SetProfileFails(p) ==
    /\ up /\ p # current_power_profile /\ Fail
    /\ current_power_profile' = p
    /\ stale' = TRUE
    /\ UNCHANGED <<control, preference, writing, profile, up, unpersisted>>

-----------------------------------------------------------------------------
\* system_server dies at any point (external).
Die ==
    /\ up /\ Fail
    /\ up' = FALSE
    /\ writing' = Nothing
    /\ stale' = (profile # Unset)
    /\ UNCHANGED <<control, preference, current_power_profile, profile, unpersisted>>

\* The device restarts: the driver's state and the property that is not
\* persistent start anew (external).
Reboot ==
    /\ Fail
    /\ up' = FALSE
    /\ control' = 0
    /\ writing' = Nothing
    /\ profile' = Unset
    /\ stale' = FALSE
    /\ UNCHANGED <<preference, current_power_profile, unpersisted>>

Next ==
    \/ Load
    \/ LoadFails
    \/ \E state \in {0, 1} : WriteControl(state) \/ WriteControlFails(state)
    \/ WritePreference
    \/ WritePreferenceFails
    \/ \E p \in Profiles : set_power_profile(p) \/ SetProfileFails(p)
    \/ Die
    \/ Reboot

Spec == Init /\ [][Next]_vars

-----------------------------------------------------------------------------
(***************************************************************************)
(* Properties.                                                             *)
(***************************************************************************)

\* Every variable has its type.
TypeOK ==
    /\ control \in {0, 1}
    /\ preference \in {0, 1}
    /\ writing \in {0, 1, Nothing}
    /\ current_power_profile \in Profiles
    /\ profile \in Profiles \cup {Unset}
    /\ up \in BOOLEAN
    /\ unpersisted \in BOOLEAN
    /\ stale \in BOOLEAN
    /\ failures \in 0..MaxFailures

\* Once the library is loaded, the driver does what the preference says, after
\* any sequence of failed writes, deaths and reboots, unless the last
\* setting was not persisted or not restored.
DriverFollowsPreference == up /\ ~unpersisted => control = preference

\* The setting that a later start brings back is one the driver has taken:
\* "control file write failed, skipping writing pref" (power-feature.c:103).
PersistedWasAccepted == [][preference' # preference => control = preference']_vars

\* The property holds the profile the HAL remembers, or none has been set since
\* the boot and the HAL remembers the balanced one it starts with; unless the
\* last attempt to set it failed, or was one of a process that has died.
ProfileIsSet ==
    up /\ ~stale => \/ profile = current_power_profile
                    \/ profile = Unset /\ current_power_profile = "balanced"

-----------------------------------------------------------------------------
(***************************************************************************)
(* The inductive invariant behind the two state properties.                *)
(***************************************************************************)

\* Between its two writes a setting is in the driver and not yet persisted.
WritingInv == writing # Nothing => up /\ unpersisted /\ writing = control

\* Without the library, a profile that is set is a dead process's.
DownInv == ~up /\ ~stale => profile = Unset

IInv == TypeOK /\ WritingInv /\ DownInv /\ DriverFollowsPreference /\ ProfileIsSet
=============================================================================
