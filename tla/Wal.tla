---------------------------------- MODULE Wal ----------------------------------
(***************************************************************************)
(* The in-memory write-ahead log of src/src/wal.c: a ring of WAL_CAPACITY  *)
(* records, each hashed together with the hash of the record before it.    *)
(*                                                                         *)
(* What is hashed are the first sizeof(WalRecord) - 32 bytes of a record:  *)
(* it is 96 bytes long and entry_hash sits at 48, so these are sequence,   *)
(* timestamp, prev_hash and the first half of entry_hash itself, as it is  *)
(* at that moment; agent_id, action_code and result are not hashed.        *)
(* appended is a history variable; MaxAppends bounds g_wal_head.           *)
(***************************************************************************)
EXTENDS Naturals, Sequences, Hashes

CONSTANTS WAL_CAPACITY, WalTime, Action, MaxAppends

ASSUME WalAssumption == /\ WAL_CAPACITY \in Nat \ {0}
                        /\ WalTime \subseteq Nat
                        /\ MaxAppends \in Nat

VARIABLES g_wal_buffer, g_wal_head, g_latest_hash,
          appended          \* all that was appended since the log was started

wal_vars == <<g_wal_buffer, g_wal_head, g_latest_hash, appended>>

FirstHalf(h) == IF h = Zero THEN Zero ELSE <<"first half of", h>>

Hash(rec) == <<rec.sequence, rec.timestamp, rec.prev_hash, FirstHalf(rec.entry_hash)>>

EmptyBuffer == [i \in 0 .. (WAL_CAPACITY - 1) |->
                 [sequence |-> 0, timestamp |-> 0, prev_hash |-> Zero,
                  entry_hash |-> Zero, action |-> "none"]]

WalInit == /\ g_wal_buffer = EmptyBuffer
           /\ g_wal_head = 0
           /\ g_latest_hash = Zero
           /\ appended = <<>>

(* Defect: a full ring keeps writing its last slot. *)
SlotClamped == IF g_wal_head < WAL_CAPACITY THEN g_wal_head ELSE WAL_CAPACITY - 1

Slot == g_wal_head % WAL_CAPACITY

wal_append(action, t) ==
  LET rec  == [sequence |-> g_wal_head, timestamp |-> t, prev_hash |-> g_latest_hash,
               entry_hash |-> g_wal_buffer[Slot].entry_hash, action |-> action]
      hash == Hash(rec)
  IN  /\ g_wal_head < MaxAppends
      /\ g_wal_buffer' = [g_wal_buffer EXCEPT ![Slot] = [rec EXCEPT !.entry_hash = hash]]
      /\ g_latest_hash' = hash
      /\ g_wal_head' = g_wal_head + 1
      /\ appended' = Append(appended, [action |-> action, timestamp |-> t])

(* A caller may start the log afresh at any time. *)
wal_init == /\ g_wal_head > 0
            /\ g_wal_buffer' = EmptyBuffer
            /\ g_wal_head' = 0
            /\ g_latest_hash' = Zero
            /\ appended' = <<>>

WalNext == \/ \E action \in Action, t \in WalTime : wal_append(action, t)
           \/ wal_init

WalSpec == WalInit /\ [][WalNext]_wal_vars

(* wal_verify_integrity *)
VerifyIntegrity ==
  LET count == IF g_wal_head < WAL_CAPACITY THEN g_wal_head ELSE WAL_CAPACITY
  IN  \A i \in 0 .. (count - 1) :
        LET rec == g_wal_buffer[i]
        IN  /\ rec.prev_hash = IF i = 0 THEN Zero ELSE g_wal_buffer[i - 1].entry_hash
            /\ rec.entry_hash = Hash(rec)
-----------------------------------------------------------------------------
(* The numbers of the records the ring still holds, and where they are. *)
Held == {n \in 0 .. (g_wal_head - 1) : n + WAL_CAPACITY >= g_wal_head}

Logged(n) == g_wal_buffer[n % WAL_CAPACITY]

(* After any number of appends, and wraps of the ring, it holds exactly    *)
(* the last WAL_CAPACITY entries that were logged, each at its place.      *)
HoldsTheLatest ==
  /\ g_wal_head = Len(appended)
  /\ \A n \in Held : /\ Logged(n).sequence = n
                     /\ Logged(n).action = appended[n + 1].action
                     /\ Logged(n).timestamp = appended[n + 1].timestamp

(* The chain is unbroken from the newest entry back to the oldest the ring *)
(* still holds, also where the ring wraps.                                 *)
ChainUnbroken ==
  /\ g_wal_head > 0 => Logged(g_wal_head - 1).entry_hash = g_latest_hash
  /\ \A n \in Held : n - 1 \in Held => Logged(n).prev_hash = Logged(n - 1).entry_hash

(* README.md:27 offers "Audit log recovery and verification": a log that   *)
(* nothing but wal_append ever wrote verifies.                             *)
IntactLogVerifies == VerifyIntegrity
=============================================================================
