-------------------------------- MODULE Mirror --------------------------------
(***************************************************************************)
(* What attaching to a session promises: a client's terminal shows a       *)
(* screen the session really had, never an earlier one than it showed      *)
(* before, and is told of the end only once it shows the last one.  How    *)
(* far it is behind, and what it is sent to catch up, is not promised.     *)
(***************************************************************************)
EXTENDS Naturals

CONSTANT Client

VARIABLES
    printed, \* how much the session has printed: its screen, as a number
    final,   \* the session prints no more
    shown,   \* the screen each client's terminal shows
    mode     \* whether a client watches, and whether it has been told

vars == <<printed, final, shown, mode>>

Init ==
    /\ printed = 0
    /\ final = FALSE
    /\ shown = [c \in Client |-> 0]
    /\ mode = [c \in Client |-> "away"]

Progress ==
    /\ ~final
    /\ printed' = printed + 1
    /\ UNCHANGED <<final, shown, mode>>

Finish ==
    /\ final' = TRUE
    /\ UNCHANGED <<printed, shown, mode>>

Join(c) ==
    /\ mode[c] # "watching"
    /\ mode' = [mode EXCEPT ![c] = "watching"]
    /\ UNCHANGED <<printed, final, shown>>

\* The terminal moves forward, by one screen or by many.
CatchUp(c) ==
    /\ mode[c] = "watching"
    /\ \E n \in shown[c] .. printed : shown' = [shown EXCEPT ![c] = n]
    /\ UNCHANGED <<printed, final, mode>>

Leave(c) ==
    /\ mode[c] = "watching"
    /\ mode' = [mode EXCEPT ![c] = "away"]
    /\ UNCHANGED <<printed, final, shown>>

Told(c) ==
    /\ mode[c] = "watching"
    /\ final
    /\ shown[c] = printed
    /\ mode' = [mode EXCEPT ![c] = "told"]
    /\ UNCHANGED <<printed, final, shown>>

Next ==
    \/ Progress \/ Finish
    \/ \E c \in Client : Join(c) \/ CatchUp(c) \/ Leave(c) \/ Told(c)

Spec == Init /\ [][Next]_vars

===============================================================================
