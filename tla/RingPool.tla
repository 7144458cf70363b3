-------------------------------- MODULE RingPool --------------------------------
(***************************************************************************)
(* src/src/mesh_sync.c: a ring between one thread that pushes and one that *)
(* pops.  head and tail are volatile, not atomic: on x86 the two accesses  *)
(* of a call take effect in their order (ordered), on AArch64, which the   *)
(* README names, in any order, and the copy of the message may come before *)
(* the load that allows it.  Only accesses of one call are reordered; a    *)
(* message copied while it is overwritten counts as the old or the new.    *)
(* The k-th message pushed is k; popped is a history variable, MaxPushes   *)
(* bounds the pushes.                                                      *)
(***************************************************************************)
EXTENDS Naturals, Sequences

CONSTANTS RING_CAPACITY, MaxPushes

ASSUME RingAssumption == RING_CAPACITY \in Nat \ {0, 1} /\ MaxPushes \in Nat

VARIABLES ordered,
          ring,             \* index -> message, 0 at first
          ring_head, ring_tail,
          pushing,          \* stores of ring_push under way
          popping,          \* accesses of ring_pop under way
          pushed_count, popped

ring_vars == <<ordered, ring, ring_head, ring_tail, pushing, popping, pushed_count, popped>>

NextIndex(i) == (i + 1) % RING_CAPACITY

RingInit == /\ ordered \in BOOLEAN
            /\ ring = [i \in 0 .. (RING_CAPACITY - 1) |-> 0]
            /\ ring_head = 0 /\ ring_tail = 0
            /\ pushing = {} /\ popping = {}
            /\ pushed_count = 0 /\ popped = <<>>

-----------------------------------------------------------------------------
(* Defect: a full ring is pushed into all the same. *)
AlwaysRoom == TRUE

Room == NextIndex(ring_head) # ring_tail

ring_push == /\ pushing = {} /\ pushed_count < MaxPushes
             /\ Room
             /\ pushing' = {"message", "head"}
             /\ pushed_count' = pushed_count + 1
             /\ UNCHANGED <<ordered, ring, ring_head, ring_tail, popping, popped>>

StoreMessage == /\ "message" \in pushing
                /\ LET slot == IF "head" \in pushing THEN ring_head
                               ELSE (ring_head + RING_CAPACITY - 1) % RING_CAPACITY
                   IN  ring' = [ring EXCEPT ![slot] = pushed_count]
                /\ pushing' = pushing \ {"message"}
                /\ UNCHANGED <<ordered, ring_head, ring_tail, popping, pushed_count, popped>>

StoreHead == /\ "head" \in pushing
             /\ ordered => "message" \notin pushing
             /\ ring_head' = NextIndex(ring_head)
             /\ pushing' = pushing \ {"head"}
             /\ UNCHANGED <<ordered, ring, ring_tail, popping, pushed_count, popped>>

-----------------------------------------------------------------------------
(* The index the call took its message from, or will. *)
Copy(slot) == popped' = Append(popped, ring[slot])

(* The head is not equal to the tail: the call will return a message.  On  *)
(* AArch64 it may have been copied already, ahead of that load.            *)
ring_pop == /\ popping \in {{}, {"copied"}}
            /\ ring_tail # ring_head
            /\ popping' = IF popping = {} THEN {"message", "tail"} ELSE {"tail"}
            /\ UNCHANGED <<ordered, ring, ring_head, ring_tail, pushing, pushed_count, popped>>

CopyEarly == /\ ~ordered /\ popping = {}
             /\ popping' = {"copied"}
             /\ Copy(ring_tail)
             /\ UNCHANGED <<ordered, ring, ring_head, ring_tail, pushing, pushed_count>>

(* The load found the ring empty: the early copy is given up. *)
GiveUp == /\ popping = {"copied"}
          /\ ring_tail = ring_head
          /\ popping' = {}
          /\ popped' = SubSeq(popped, 1, Len(popped) - 1)
          /\ UNCHANGED <<ordered, ring, ring_head, ring_tail, pushing, pushed_count>>

CopyMessage == /\ "message" \in popping
               /\ Copy(IF "tail" \in popping THEN ring_tail
                       ELSE (ring_tail + RING_CAPACITY - 1) % RING_CAPACITY)
               /\ popping' = popping \ {"message"}
               /\ UNCHANGED <<ordered, ring, ring_head, ring_tail, pushing, pushed_count>>

StoreTail == /\ "tail" \in popping
             /\ ordered => "message" \notin popping
             /\ ring_tail' = NextIndex(ring_tail)
             /\ popping' = popping \ {"tail"}
             /\ UNCHANGED <<ordered, ring, ring_head, pushing, pushed_count, popped>>

RingNext == \/ ring_push \/ StoreMessage \/ StoreHead
            \/ ring_pop \/ CopyEarly \/ GiveUp \/ CopyMessage \/ StoreTail
-----------------------------------------------------------------------------
(* The message a slot held one lap before message k, 0 if none. *)
LapBefore(k) == IF k > RING_CAPACITY THEN k - RING_CAPACITY ELSE 0

(* With stores in order every message is popped once, in the order of the  *)
(* pushes.  Without, a call may return the message its slot held a lap     *)
(* earlier instead, but never one of another slot or of a later lap: the   *)
(* slot that ring_push always leaves free is the one being copied.         *)
PopsInOrder ==
  \A k \in DOMAIN popped :
    popped[k] = k \/ (~ordered /\ popped[k] = LapBefore(k))
=============================================================================
