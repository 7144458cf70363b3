-------------------------------- MODULE Heartbeat --------------------------------
(***************************************************************************)
(* src/src/heartbeat.c: whether a heartbeat packet is accepted.  Packets   *)
(* may carry any number, stamp and interval and come in any order; now_ns  *)
(* is whatever clock the caller reads, so it may be set back.              *)
(* miss_count is left out: nothing reads it.  missed is a history variable. *)
(***************************************************************************)
EXTENDS Clock

CONSTANTS HB_MISS_LIMIT, HB_WINDOW_NS,
          Sequence, Interval    \* of the packets; an interval in units of the clock

ASSUME HeartbeatAssumption == /\ HB_MISS_LIMIT \in Nat /\ HB_WINDOW_NS \in Nat
                              /\ Sequence \subseteq Nat /\ Interval \subseteq Nat

VARIABLES last_seen_ns, hb_sequence,
          answer,       \* the last result
          missed        \* intervals answered MISSED since a heartbeat was accepted
                        \* or the clock was set back (and not while it stands
                        \* behind last_seen_ns, when the gap wraps round)

heartbeat == <<last_seen_ns, hb_sequence, answer, missed>>

HeartbeatInit == last_seen_ns = 0 /\ hb_sequence = 0 /\ answer = "none" /\ missed = {}

(* Defect: the gap is taken from the time the packet claims. *)
GapOfPacket(timestamp) == (timestamp - last_seen_ns) % Wrap

Gap(timestamp) == Since(last_seen_ns)

Off(timestamp) == IF timestamp > clock THEN timestamp - clock ELSE clock - timestamp

HeartbeatResult(seq, timestamp, interval) ==
  IF Off(timestamp) > HB_WINDOW_NS THEN "EXPIRED"
  ELSE IF last_seen_ns # 0 /\ seq <= hb_sequence THEN "SEQUENCE_INVALID"
  ELSE IF last_seen_ns # 0 /\ Gap(timestamp) > HB_MISS_LIMIT * interval THEN "MISSED"
  ELSE "OK"

heartbeat_verify(seq, timestamp, interval) ==
  /\ answer' = HeartbeatResult(seq, timestamp, interval)
  /\ IF answer' = "OK" THEN last_seen_ns' = clock /\ hb_sequence' = seq
                       ELSE UNCHANGED <<last_seen_ns, hb_sequence>>
  /\ missed' = IF answer' = "OK" THEN {}
               ELSE IF answer' = "MISSED" /\ clock >= last_seen_ns THEN missed \cup {interval}
               ELSE missed

Verify == \E seq \in Sequence, timestamp \in Times, interval \in Interval :
            heartbeat_verify(seq, timestamp, interval)

TimePasses == /\ SetClock
              /\ missed' = IF clock' < clock THEN {} ELSE missed
              /\ UNCHANGED <<last_seen_ns, hb_sequence, answer>>

HeartbeatNext == (Verify /\ UNCHANGED clock) \/ TimePasses
-----------------------------------------------------------------------------
(* A heartbeat answered MISSED is not recorded, so the gap it was measured *)
(* by only grows: a peer that was missed once is missed for ever, however  *)
(* regular it is from then on, unless it announces a longer interval.      *)
OnceMissedAlwaysMissed ==
  [][\A seq \in Sequence, timestamp \in Times, interval \in Interval :
       heartbeat_verify(seq, timestamp, interval) /\ answer' = "OK" =>
         \A i \in missed : interval > i]_heartbeat
=============================================================================
