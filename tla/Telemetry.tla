------------------------------- MODULE Telemetry -------------------------------
(***************************************************************************)
(* src/src/telemetry.c: a ring that always takes the next sample and,      *)
(* once full, gives up its oldest one.  A sample stands for a timestamp    *)
(* and a result, each kept in an array of its own.  pushed is a history    *)
(* variable, MaxSamples bounds it.                                         *)
(***************************************************************************)
EXTENDS Integers, Sequences

CONSTANTS TELEMETRY_RING_SIZE, Sample, NoSample, MaxSamples

ASSUME TelemetryAssumption == TELEMETRY_RING_SIZE \in Nat \ {0} /\ MaxSamples \in Nat

VARIABLES samples, head, tail, full,
          pushed

telemetry == <<samples, head, tail, full, pushed>>

TelemetryInit == /\ samples = [i \in 0 .. (TELEMETRY_RING_SIZE - 1) |-> NoSample]
                 /\ head = 0 /\ tail = 0 /\ full = FALSE
                 /\ pushed = <<>>

After(i) == (i + 1) % TELEMETRY_RING_SIZE

(* Defect: a full ring forgets to give up its oldest sample. *)
TailStays == tail

TailAfterPush == IF full THEN After(tail) ELSE tail

telemetry_push(sample) ==
  /\ Len(pushed) < MaxSamples
  /\ samples' = [samples EXCEPT ![head] = sample]
  /\ tail' = TailAfterPush
  /\ head' = After(head)
  /\ full' = (full \/ head' = tail')
  /\ pushed' = Append(pushed, sample)

(* The buffer is static: a new process finds it empty. *)
TelemetryRestarts == /\ pushed # <<>>
                     /\ samples' = [i \in DOMAIN samples |-> NoSample]
                     /\ head' = 0 /\ tail' = 0 /\ full' = FALSE
                     /\ pushed' = <<>>

TelemetryNext == (\E sample \in Sample : telemetry_push(sample)) \/ TelemetryRestarts
-----------------------------------------------------------------------------
(* What the ring holds, from tail on. *)
Count == IF full THEN TELEMETRY_RING_SIZE ELSE (head - tail) % TELEMETRY_RING_SIZE

SamplesHeld == [k \in 1 .. Count |-> samples[(tail + k - 1) % TELEMETRY_RING_SIZE]]

(* Read from tail on, the ring is the newest samples in the order of their *)
(* pushes, all of them until it is full, and full tells full from empty.   *)
TelemetryHoldsTheLatest ==
  LET n == IF Len(pushed) < TELEMETRY_RING_SIZE THEN Len(pushed) ELSE TELEMETRY_RING_SIZE
  IN  SamplesHeld = SubSeq(pushed, Len(pushed) - n + 1, Len(pushed))
=============================================================================
