---------------------------- MODULE DarkController ----------------------------
(***************************************************************************)
(* dark_controller.c: whether the controller's packets are suppressed,     *)
(* set from the state engine it is ticked with.  Between two ticks the     *)
(* engine may take any number of steps.                                    *)
(* packets_suppressed, trigger_count and the timestamp only feed the log.  *)
(***************************************************************************)
EXTENDS StateEngine

VARIABLE mode           \* "OFF", "ON", "HARD"

dark == <<engine, mode>>

DarkInit == EngineInit /\ mode = "OFF"

dark_activate(m) == mode' = m

dark_deactivate == mode' = "OFF"

(* dark_tick *)
TickLockout == current = "LOCKOUT" /\ dark_activate("HARD") /\ UNCHANGED engine

TickTrouble == /\ current \in {"FAILSAFE", "DEGRADED"}
               /\ mode = "OFF"
               /\ dark_activate("ON")
               /\ UNCHANGED engine

(* Defect: whatever is not failsafe or degraded lifts the suppression. *)
TickElse == /\ current \notin {"FAILSAFE", "DEGRADED"}
            /\ mode # "OFF"
            /\ dark_deactivate
            /\ UNCHANGED engine

TickActive == /\ current = "ACTIVE"
              /\ mode = "ON"
              /\ dark_deactivate
              /\ UNCHANGED engine

dark_tick == TickLockout \/ TickTrouble \/ TickActive

DarkNext == (EngineNext /\ UNCHANGED mode) \/ dark_tick
-----------------------------------------------------------------------------
(* Engine events and ticks in any order suppress a controller for good     *)
(* only in a lockout, and none of them lifts that suppression or takes the *)
(* lockout from under it, though a tick lifts the softer one.              *)
HardIsForGood ==
  [][mode = "HARD" \/ mode' = "HARD" => mode' = "HARD" /\ current' = "LOCKOUT"]_dark
=============================================================================
