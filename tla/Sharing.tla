--------------------------------- MODULE Sharing ---------------------------------
(***************************************************************************)
(* What several threads share: the rotating key, the table of actors and   *)
(* the message ring.  Nothing connects them: one behaviour moves one part. *)
(***************************************************************************)
EXTENDS KeyRotation, Attribution, RingPool

VARIABLE part

vars == <<part, rotation, attribution, ring_vars>>

Init == /\ part \in {"rotation", "attribution", "ring"}
        /\ RotationInit /\ AttributionInit /\ RingInit
        /\ part # "ring" => ordered

RotationMoves    == part = "rotation" /\ RotationNext /\ UNCHANGED <<part, attribution, ring_vars>>
AttributionMoves == part = "attribution" /\ AttributionNext /\ UNCHANGED <<part, rotation, ring_vars>>
RingMoves        == part = "ring" /\ RingNext /\ UNCHANGED <<part, rotation, attribution>>

Next == RotationMoves \/ AttributionMoves \/ RingMoves

(* The thread that rotates runs, and a reader reads on and releases. *)
Fairness == /\ WF_rotation(part = "rotation" /\ Rotating)
            /\ \A r \in Reader : WF_rotation(part = "rotation" /\ Reads(r))

Spec == Init /\ [][Next]_vars /\ Fairness
=============================================================================
