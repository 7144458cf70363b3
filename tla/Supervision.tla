------------------------------- MODULE Supervision -------------------------------
(***************************************************************************)
(* What watches over the controller: the state engine with the dark        *)
(* controller ticked from it, the check of heartbeats, and the command     *)
(* that waits for its confirmation.  The repository has no program that    *)
(* connects the three: one behaviour moves one part.                       *)
(***************************************************************************)
EXTENDS DarkController, Heartbeat, PendingState

VARIABLE part

vars == <<part, dark, heartbeat, pending, clock>>

Init == /\ part \in {"engine", "heartbeat", "pending"}
        /\ DarkInit /\ HeartbeatInit /\ PendingInit /\ ClockInit

EngineMoves    == part = "engine" /\ DarkNext /\ UNCHANGED <<part, heartbeat, pending, clock>>
HeartbeatMoves == part = "heartbeat" /\ HeartbeatNext /\ UNCHANGED <<part, dark, pending>>
PendingMoves   == part = "pending" /\ PendingNext /\ UNCHANGED <<part, dark, heartbeat>>

Next == EngineMoves \/ HeartbeatMoves \/ PendingMoves

Spec == Init /\ [][Next]_vars
=============================================================================
