---------------------------- MODULE CommandLife -----------------------------
(***************************************************************************)
(* What the HAL promises about each WifiCommand, without the handler list, *)
(* the command table or the reference counts: a command is created, may    *)
(* receive events, is stopped, and its memory is reclaimed.  Events reach  *)
(* it only before it is stopped, and it is never reclaimed while the event *)
(* thread is inside it.                                                    *)
(***************************************************************************)
CONSTANTS Commands, Nobody

VARIABLES
    status,    \* [Commands -> {"unborn", "callable", "stopped", "freed"}]
    calling    \* the command the event thread is inside of, or Nobody

Init ==
    /\ status = [c \in Commands |-> "unborn"]
    /\ calling = Nobody

Create(c) ==
    /\ status[c] = "unborn"
    /\ status' = [status EXCEPT ![c] = "callable"]
    /\ UNCHANGED calling

Call(c) ==
    /\ calling = Nobody
    /\ status[c] = "callable"
    /\ calling' = c
    /\ UNCHANGED status

\* The commands of S are stopped; r says what becomes of their memory.  One
\* that is stopped already may be stopped again.
Stop(S, r) ==
    /\ \A c \in S : status[c] \in {"callable", "stopped"}
    /\ r = "freed" => calling \notin S
    /\ status' = [c \in Commands |-> IF c \in S THEN r ELSE status[c]]
    /\ UNCHANGED calling

\* The event thread leaves the command, and may be the last to hold it.
Return ==
    /\ calling # Nobody
    /\ calling' = Nobody
    /\ \/ UNCHANGED status
       \/ /\ status[calling] = "stopped"
          /\ status' = [status EXCEPT ![calling] = "freed"]

Next ==
    \/ \E c \in Commands : Create(c) \/ Call(c)
    \/ \E S \in SUBSET Commands, r \in {"stopped", "freed"} : Stop(S, r)
    \/ Return

Spec == Init /\ [][Next]_<<status, calling>>
=============================================================================
