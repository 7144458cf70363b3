------------------------------ MODULE StateEngine ------------------------------
(***************************************************************************)
(* state_engine.c: the controller's mode, driven by heartbeat results,     *)
(* threat levels, the proxy and the operator, and a tick.  No file of the  *)
(* repository calls it yet: events come in any order.                      *)
(* The timestamps and transition_count are left out: nothing reads them    *)
(* but the log.  MaxMisses bounds heartbeat_misses (a uint32_t) in TLC.    *)
(* restored is a history variable, no step reads it.                       *)
(***************************************************************************)
EXTENDS Naturals

CONSTANT MaxMisses

ASSUME StateEngineAssumption == MaxMisses \in Nat

VARIABLES current, previous, heartbeat_misses, lockout_hard,
          restored      \* the proxy was restored since heartbeats last were in order

engine == <<current, previous, heartbeat_misses, lockout_hard, restored>>

EngineInit == /\ current = "INIT"
              /\ previous = "INIT"
              /\ heartbeat_misses = 0
              /\ lockout_hard = FALSE
              /\ restored = FALSE

transition(next) == previous' = current /\ current' = next

Stay == UNCHANGED <<current, previous>>

-----------------------------------------------------------------------------
(* state_event: none of its cases runs once lockout_hard is set. *)
HeartbeatOK == /\ ~lockout_hard
               /\ heartbeat_misses' = 0
               /\ restored' = FALSE
               /\ IF current \in {"DEGRADED", "INIT"} THEN transition("ACTIVE") ELSE Stay
               /\ UNCHANGED lockout_hard

(* Defect: one miss too many is tolerated. *)
OneMoreMiss(n) == n <= 3

Tolerated(n) == n < 3

HeartbeatMiss ==
  /\ ~lockout_hard
  /\ heartbeat_misses < MaxMisses
  /\ heartbeat_misses' = heartbeat_misses + 1
  /\ \/ Tolerated(heartbeat_misses') /\ Stay
     \/ ~Tolerated(heartbeat_misses') /\ heartbeat_misses' < 6 /\ transition("DEGRADED")
     \/ heartbeat_misses' >= 6 /\ previous' = "DEGRADED" /\ current' = "FAILSAFE"
  /\ UNCHANGED <<lockout_hard, restored>>

ThreatHigh == /\ ~lockout_hard
              /\ current = "ACTIVE"
              /\ transition("DEGRADED")
              /\ UNCHANGED <<heartbeat_misses, lockout_hard, restored>>

ThreatCritical == /\ ~lockout_hard
                  /\ transition("LOCKOUT")
                  /\ lockout_hard' = TRUE
                  /\ UNCHANGED <<heartbeat_misses, restored>>

ProxyRestored == /\ ~lockout_hard
                 /\ current # "LOCKOUT"
                 /\ transition("ACTIVE")
                 /\ restored' = TRUE
                 /\ UNCHANGED <<heartbeat_misses, lockout_hard>>

(* Defect: the reset is let through in a hard lockout. *)
ResetAlways == /\ lockout_hard' = FALSE
               /\ heartbeat_misses' = 0
               /\ transition("INIT")
               /\ restored' = FALSE

ManualReset == /\ ~lockout_hard
               /\ lockout_hard' = FALSE
               /\ heartbeat_misses' = 0
               /\ transition("INIT")
               /\ restored' = FALSE

(* state_tick *)
Tick == /\ current = "FAILSAFE"
        /\ heartbeat_misses >= 10
        /\ lockout_hard' = TRUE
        /\ transition("LOCKOUT")
        /\ UNCHANGED <<heartbeat_misses, restored>>

EngineNext == HeartbeatOK \/ HeartbeatMiss \/ ThreatHigh \/ ThreatCritical
              \/ ProxyRestored \/ ManualReset \/ Tick

state_allows_command == current = "ACTIVE"
-----------------------------------------------------------------------------
(* Commands pass only while fewer than three heartbeats in a row are       *)
(* missing, unless the proxy was restored after the last one that came.    *)
CommandsNeedHeartbeats == state_allows_command => heartbeat_misses < 3 \/ restored

(* A lockout is for ever: no heartbeat, proxy or manual reset ends it.     *)
LockoutIsFinal == [][current = "LOCKOUT" => UNCHANGED engine]_engine
=============================================================================
