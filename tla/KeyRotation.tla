------------------------------ MODULE KeyRotation ------------------------------
(***************************************************************************)
(* mtk.c: a key that every verification replaces, and readers that         *)
(* announce themselves in hazard slots, one slot each.  One thread         *)
(* verifies.  A key is the counter it was derived from; it is written, and *)
(* read, in two halves in any order (crypto_generichash and the readers'   *)
(* loads are plain).  A reader's loads may come before its announcement is *)
(* seen, as on AArch64; the release is ordered after both.                 *)
(* late is a history variable; MaxRotations bounds counter.                *)
(***************************************************************************)
EXTENDS Naturals

CONSTANTS MTK_MAX_READERS, MaxRotations

ASSUME RotationAssumption == MTK_MAX_READERS \in Nat /\ MaxRotations \in Nat

VARIABLES counter,
          current_key,      \* half -> the counter it was derived from
          hazard,           \* slot -> whether the announcement is seen
          scan,             \* the slot mtk_rotate waits for, 0 between rotations
          written,          \* halves mtk_derive has written
          reading,          \* readers between acquire and release
          copy,             \* reader -> half -> what it read, None before
          gone,             \* readers that will not come again
          late              \* of those reading, whom a scan did not wait for

rotation == <<counter, current_key, hazard, scan, written, reading, copy, gone, late>>

Reader == 1 .. MTK_MAX_READERS
Half == {"low", "high"}
None == MaxRotations + 1
Unread == [half \in Half |-> None]

RotationInit == /\ counter = 0 /\ current_key = [half \in Half |-> 0]
                /\ hazard = [r \in Reader |-> FALSE]
                /\ scan = 0 /\ written = {}
                /\ reading = {} /\ copy = [r \in Reader |-> Unread]
                /\ gone = {} /\ late = {}

-----------------------------------------------------------------------------
(* mtk_verify, up to the scan of mtk_rotate; the answer depends on the     *)
(* seed alone and is left out.                                             *)
Rotate == /\ scan = 0 /\ counter < MaxRotations
          /\ counter' = counter + 1
          /\ scan' = 1
          /\ written' = {}
          /\ UNCHANGED <<current_key, hazard, reading, copy, gone, late>>

(* Defect: the last slot is not waited for. *)
SlotsButLast == MTK_MAX_READERS - 1

Slots == MTK_MAX_READERS

ScanSlot == /\ scan \in 1 .. Slots
            /\ ~hazard[scan]
            /\ scan' = scan + 1
            /\ late' = IF scan \in reading THEN late \cup {scan} ELSE late
            /\ UNCHANGED <<counter, current_key, hazard, written, reading, copy, gone>>

WriteHalf(half) == /\ scan > Slots /\ half \notin written
                   /\ current_key' = [current_key EXCEPT ![half] = counter]
                   /\ written' = written \cup {half}
                   /\ scan' = IF written' = Half THEN 0 ELSE scan
                   /\ UNCHANGED <<counter, hazard, reading, copy, gone, late>>

Rotating == ScanSlot \/ \E half \in Half : WriteHalf(half)

-----------------------------------------------------------------------------
Acquire(r) == /\ r \notin reading \cup gone
              /\ ~hazard[r]
              /\ reading' = reading \cup {r}
              /\ late' = IF scan > r THEN late \cup {r} ELSE late
              /\ UNCHANGED <<counter, current_key, hazard, scan, written, copy, gone>>

(* The announcement is seen by the other thread. *)
Announced(r) == /\ r \in reading /\ ~hazard[r]
                /\ hazard' = [hazard EXCEPT ![r] = TRUE]
                /\ UNCHANGED <<counter, current_key, scan, written, reading, copy, gone, late>>

ReadHalf(r, half) == /\ r \in reading /\ copy[r][half] = None
                     /\ copy' = [copy EXCEPT ![r][half] = current_key[half]]
                     /\ UNCHANGED <<counter, current_key, hazard, scan, written, reading, gone, late>>

(* Defect: the slot of another reader is released. *)
OtherSlot(r) == (r % MTK_MAX_READERS) + 1

OwnSlot(r) == r

Release(r) == /\ r \in reading /\ hazard[r]
              /\ \A half \in Half : copy[r][half] # None
              /\ hazard' = [hazard EXCEPT ![OwnSlot(r)] = FALSE]
              /\ reading' = reading \ {r}
              /\ copy' = [copy EXCEPT ![r] = Unread]
              /\ late' = late \ {r}
              /\ UNCHANGED <<counter, current_key, scan, written, gone>>

Leaves(r) == /\ r \notin gone
             /\ gone' = gone \cup {r}
             /\ UNCHANGED <<counter, current_key, hazard, scan, written, reading, copy, late>>

Reads(r) == Announced(r) \/ Release(r) \/ \E half \in Half : ReadHalf(r, half)

RotationNext == \/ Rotate \/ Rotating
                \/ \E r \in Reader : Acquire(r) \/ Reads(r) \/ Leaves(r)
-----------------------------------------------------------------------------
(* Whoever reads halves of two keys was not waited for: it came after the  *)
(* scan had passed its slot, or its announcement was not seen in time.     *)
(* A reader the scan did wait for never reads a torn key.                  *)
TornOnlyIfLate ==
  \A r \in Reader :
    \A a, b \in Half : copy[r][a] # None /\ copy[r][b] # None /\ copy[r][a] # copy[r][b] =>
      r \in late

(* A rotation ends once no reader starts anew; while readers keep coming   *)
(* nothing promises it.                                                    *)
RotationFinishes == gone = Reader ~> scan = 0
=============================================================================
