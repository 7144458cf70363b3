--------------------------------- MODULE Clock ---------------------------------
(***************************************************************************)
(* The clock the components read: nanoseconds in a uint64_t.  Wrap stands  *)
(* for 2^64, Times are the values the model's clock shows.                 *)
(***************************************************************************)
EXTENDS Integers

CONSTANTS Times, Wrap

ASSUME ClockAssumption == Wrap \in Nat \ {0} /\ Times \subseteq 0 .. (Wrap - 1)

VARIABLE clock

ClockInit == clock \in Times

(* CLOCK_REALTIME may be set, forwards and back. *)
SetClock == clock' \in Times

(* CLOCK_MONOTONIC only goes forwards. *)
Advance == clock' \in Times /\ clock' > clock

(* The unsigned difference: enormous for a time that is yet to come. *)
Since(t) == (clock - t) % Wrap
=============================================================================
