------------------------------- MODULE GateCore -------------------------------
(***************************************************************************)
(* core.c's evaluate_command and interlocks.c's check_interlocks as the    *)
(* programs that link them as a library use them (tests/test_gate0.c,      *)
(* src/src/gate0_daemon.c): a caller that owns a sender record and a set   *)
(* of interlock flags, raises flags, calls check_interlocks, and evaluates *)
(* any packet at any time.                                                 *)
(* Simulation is the GATE0_SIMULATION build, which clears the flags first. *)
(* executed and tripped are history variables, no step reads them.         *)
(***************************************************************************)
EXTENDS EvaluateCommand, Sequences

CONSTANTS Flag,         \* estop, overspeed, overtemp, overvoltage
          Times, Simulation

ASSUME GateCoreAssumption == Times \subseteq Nat /\ Simulation \in BOOLEAN

VARIABLES sender,
          interlocks,   \* the flags that are set
          result,       \* of the last call
          executed,     \* packets answered OK so far
          tripped       \* a flag was raised at some time

vars == <<sender, interlocks, result, executed, tripped>>

Init == /\ sender = UnusedSender
        /\ interlocks = {}
        /\ result = "NONE"
        /\ executed = <<>>
        /\ tripped = FALSE

Call(p, now) ==
  LET il == IF Simulation THEN {} ELSE interlocks
      e  == Evaluate(p, sender, il # {}, now)
  IN  /\ interlocks' = il
      /\ sender' = e.sender
      /\ result' = e.result
      /\ executed' = IF e.result = "OK" THEN Append(executed, p) ELSE executed
      /\ UNCHANGED tripped

Trip(f) == /\ interlocks' = interlocks \cup {f}
           /\ tripped' = TRUE
           /\ UNCHANGED <<sender, result, executed>>

check_interlocks == /\ interlocks' = {}
                    /\ UNCHANGED <<sender, result, executed, tripped>>

Next == \/ \E p \in Packets, now \in Times : Call(p, now)
        \/ \E f \in Flag : Trip(f)
        \/ check_interlocks

Spec == Init /\ [][Next]_vars
-----------------------------------------------------------------------------
TypeOK == /\ sender \in SenderRecord
          /\ interlocks \subseteq Flag
          /\ result \in Results \cup {"NONE"}
          /\ executed \in Seq(Packets)
          /\ tripped \in BOOLEAN

(* A run of calls executes commands 1, 2, 3, ... in order and once each,   *)
(* signed by the enrolled key, whatever was rejected, tripped or enrolled  *)
(* in between, and whatever was tampered with.                             *)
ExecutedInOrder ==
  /\ Len(executed) = sender.last
  /\ \A i \in 1 .. Len(executed) : /\ executed[i].seq = i
                                   /\ Verifies(executed[i], sender.key)

(* Between a trip and the next check_interlocks nothing executes and no    *)
(* sender is enrolled (in a build that is not the simulation's).           *)
StoppedWhileTripped ==
  [][interlocks # {} => UNCHANGED <<sender, executed>>]_vars

(* A rejected call leaves the sequence number where it was and never moves *)
(* an enrolment: all it may do is enrol the first key that asks.           *)
RejectionOnlyEnrols ==
  [][executed' = executed =>
       /\ sender'.last = sender.last
       /\ sender.used => sender' = sender]_vars

(* tests/test_gate0.c:57-61 raises estop, calls check_interlocks and       *)
(* expects G0_INTERLOCK_TRIPPED, "Hardware Interlock Latch": once tripped, *)
(* an interlock keeps commands from executing.                             *)
InterlockLatches == [][tripped => executed' = executed]_vars

EnrolledKeys == IF sender.used THEN {sender.key} ELSE {}

ExecutedCommands ==
  [i \in 1 .. Len(executed) |-> [key |-> executed[i].sig.by, seq |-> executed[i].seq]]

(* The library is a gapless gate of one key; only its caller can forget.   *)
Gate == INSTANCE CommandGate WITH
          Number <- {p.seq : p \in Packets},
          Capacity <- 1, Gapless <- TRUE, Volatile <- FALSE,
          enrolled <- EnrolledKeys, executed <- ExecutedCommands

ImplementsGate == Gate!Spec
=============================================================================
