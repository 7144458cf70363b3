---------------------------------- MODULE Logs ----------------------------------
(***************************************************************************)
(* What the gate writes down: the hash-chained log in memory, the sender   *)
(* and audit files, the Merkle tree and the telemetry ring.  They share no *)
(* state, so they are checked side by side: one behaviour moves one part.  *)
(***************************************************************************)
EXTENDS Wal, Storage, MerkleFrontier, Telemetry

VARIABLE part

vars == <<part, wal_vars, storage, merkle, telemetry>>

Init == /\ part \in {"wal", "storage", "merkle", "telemetry"}
        /\ WalInit /\ StorageInit /\ MerkleInit /\ TelemetryInit

WalMoves       == part = "wal" /\ WalNext /\ UNCHANGED <<part, storage, merkle, telemetry>>
StorageMoves   == part = "storage" /\ StorageNext /\ UNCHANGED <<part, wal_vars, merkle, telemetry>>
MerkleMoves    == part = "merkle" /\ MerkleNext /\ UNCHANGED <<part, wal_vars, storage, telemetry>>
TelemetryMoves == part = "telemetry" /\ TelemetryNext /\ UNCHANGED <<part, wal_vars, storage, merkle>>

Next == WalMoves \/ StorageMoves \/ MerkleMoves \/ TelemetryMoves

Spec == Init /\ [][Next]_vars
=============================================================================
