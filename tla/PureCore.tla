------------------------------- MODULE PureCore -------------------------------
(***************************************************************************)
(* evaluate_command of src/src/gate0_core.c (src/src/pure_core.c is the    *)
(* same code): the evaluator that checks the signature first, enrols the   *)
(* sender of a first command numbered 1, and binds to the record the nodes *)
(* and the authority that command asked for.                               *)
(* A node mask is the set of its bits; & is \cap.                          *)
(* executed is a history variable, no step reads it.                       *)
(***************************************************************************)
EXTENDS Naturals, Sequences, FiniteSets

CONSTANTS Key, NoKey, NoSignature,
          Packets,      \* [pubkey, seq, nodes, level, type, issued, expires, sig]
          NodeBit,      \* bits of a node mask
          Skew,         \* 500 ms of allowance for an issuer's fast clock
          Times

Byte == 0 .. 255

Envelopes == [seq : Nat, nodes : SUBSET NodeBit, level : Nat, type : Byte,
              issued : Nat, expires : Nat]

PacketType == [pubkey : Key, seq : Nat, nodes : SUBSET NodeBit, level : Nat, type : Byte,
               issued : Nat, expires : Nat,
               sig : [by : Key, over : Envelopes] \cup {NoSignature}]

ASSUME PureCoreAssumption == /\ Packets \subseteq PacketType
                             /\ Skew \in Nat
                             /\ Times \subseteq Nat
                             /\ NoKey \notin Key

VARIABLES sender, unsafe, result, executed

vars == <<sender, unsafe, result, executed>>

SenderRecord == [used : BOOLEAN, key : Key \cup {NoKey}, last : Nat,
                 nodes : SUBSET NodeBit, level : Nat]

Envelope(p) == [seq |-> p.seq, nodes |-> p.nodes, level |-> p.level, type |-> p.type,
                issued |-> p.issued, expires |-> p.expires]

SignedBySender(p) == p.sig = [by |-> p.pubkey, over |-> Envelope(p)]

SafeState == 255

is_blocked_command(t) == 240 <= t /\ t <= 247

EnrolledBy(p) == [used |-> TRUE, key |-> p.pubkey, last |-> 0,
                  nodes |-> p.nodes, level |-> p.level]

CheckWindow(p, now) == IF p.expires < now THEN "EXPIRED"
                       ELSE IF p.issued > now + Skew THEN "FUTURE_TIMESTAMP" ELSE "OK"

(* Defect: the comparison of the authorities the other way round. *)
CheckGrantSwapped(p, s) == IF s.nodes \cap p.nodes = {} THEN "WRONG_NODE"
                           ELSE IF s.level > p.level THEN "INSUFFICIENT_AUTHORITY" ELSE "OK"

(* Defect: (allowed & node) compared with node instead of with 0. *)
CheckGrantSubset(p, s) == IF s.nodes \cap p.nodes # p.nodes THEN "WRONG_NODE"
                          ELSE IF s.level < p.level THEN "INSUFFICIENT_AUTHORITY" ELSE "OK"

CheckGrant(p, s) == IF s.nodes \cap p.nodes = {} THEN "WRONG_NODE"
                    ELSE IF s.level < p.level THEN "INSUFFICIENT_AUTHORITY" ELSE "OK"

CheckSequence(p, s) == IF p.seq <= s.last THEN "SEQUENCE_REPLAY"
                       ELSE IF p.seq > s.last + 1 THEN "SEQUENCE_GAP" ELSE "OK"

(* Defect: the interlocks are not looked at. *)
CheckBlockedOnly(p) == IF is_blocked_command(p.type) THEN "BLOCKED_COMMAND" ELSE "OK"

CheckType(p) == IF is_blocked_command(p.type) THEN "BLOCKED_COMMAND"
                ELSE IF unsafe /\ p.type # SafeState THEN "INTERLOCK_UNSAFE" ELSE "OK"

(* The groups of checks in the order of the code; the first rejection wins. *)
CheckCommand(p, s, now) ==
  LET checks == <<CheckWindow(p, now), CheckGrant(p, s), CheckSequence(p, s), CheckType(p)>>
      failed == {i \in 1 .. 4 : checks[i] # "OK"}
  IN  IF failed = {} THEN "OK" ELSE checks[CHOOSE i \in failed : \A j \in failed : i <= j]

Init == /\ sender = [used |-> FALSE, key |-> NoKey, last |-> 0, nodes |-> {}, level |-> 0]
        /\ unsafe = FALSE
        /\ result = "NONE"
        /\ executed = <<>>

BadSignature(p) == /\ ~SignedBySender(p)
                   /\ result' = "SIGNATURE_INVALID"
                   /\ UNCHANGED <<sender, unsafe, executed>>

(* Not the enrolled sender, or a first command not numbered 1. *)
UnknownSender(p) == /\ SignedBySender(p)
                    /\ IF sender.used THEN sender.key # p.pubkey ELSE p.seq # 1
                    /\ result' = "UNKNOWN_SENDER"
                    /\ UNCHANGED <<sender, unsafe, executed>>

(* Defect: the key of the packet is not compared with the record's. *)
EvaluateAnyKey(p, now) ==
  LET s == IF sender.used THEN sender ELSE EnrolledBy(p)
      r == CheckCommand(p, s, now)
  IN  /\ SignedBySender(p)
      /\ sender.used \/ p.seq = 1
      /\ result' = r
      /\ sender' = IF r = "OK" THEN [s EXCEPT !.last = p.seq] ELSE s
      /\ executed' = IF r = "OK" THEN Append(executed, p) ELSE executed
      /\ UNCHANGED unsafe

Evaluate(p, now) ==
  LET s == IF sender.used THEN sender ELSE EnrolledBy(p)
      r == CheckCommand(p, s, now)
  IN  /\ SignedBySender(p)
      /\ IF sender.used THEN sender.key = p.pubkey ELSE p.seq = 1
      /\ result' = r
      /\ sender' = IF r = "OK" THEN [s EXCEPT !.last = p.seq] ELSE s
      /\ executed' = IF r = "OK" THEN Append(executed, p) ELSE executed
      /\ UNCHANGED unsafe

(* The caller's interlock flags. *)
SetUnsafe(b) == unsafe' = b /\ UNCHANGED <<sender, result, executed>>

Next == \/ \E p \in Packets : \/ BadSignature(p)
                              \/ UnknownSender(p)
                              \/ \E now \in Times : Evaluate(p, now)
        \/ \E b \in BOOLEAN : SetUnsafe(b)

Spec == Init /\ [][Next]_vars
-----------------------------------------------------------------------------
TypeOK == /\ sender \in SenderRecord
          /\ unsafe \in BOOLEAN
          /\ result \in {"NONE", "OK", "SIGNATURE_INVALID", "UNKNOWN_SENDER", "EXPIRED",
                         "FUTURE_TIMESTAMP", "WRONG_NODE", "INSUFFICIENT_AUTHORITY",
                         "SEQUENCE_REPLAY", "SEQUENCE_GAP", "BLOCKED_COMMAND",
                         "INTERLOCK_UNSAFE"}
          /\ executed \in Seq(Packets)

(* Every command executed, whenever it was and whatever was rejected       *)
(* before it, is the next number of the one enrolled sender, not above the *)
(* authority of the grant in its record, and for at least one node of it.  *)
(* One is enough (gate0_core.c:38): under the grant {n1} a command for     *)
(* {n1, n2} is executed.                                                   *)
ExecutedOverlapsGrant ==
  /\ Len(executed) = sender.last
  /\ \A i \in 1 .. Len(executed) :
       /\ executed[i].seq = i
       /\ executed[i].pubkey = sender.key
       /\ executed[i].level <= sender.level
       /\ executed[i].nodes \cap sender.nodes # {}
       /\ executed[i].type \notin 240 .. 247

(* While an interlock is unsafe the only command that gets through is the  *)
(* one that puts the plant in its safe state.                              *)
OnlySafeStateWhileUnsafe ==
  [][unsafe /\ executed' # executed =>
       executed'[Len(executed')].type = SafeState]_vars

(* A first packet for no node, though rejected, is enrolled: from then on  *)
(* the gate is closed to every sender, for good.                           *)
NoNodeClosesTheGate == sender.used /\ sender.nodes = {} => executed = <<>>

EnrolledKeys == IF sender.used THEN {sender.key} ELSE {}

ExecutedCommands ==
  [i \in 1 .. Len(executed) |-> [key |-> executed[i].pubkey, seq |-> executed[i].seq]]

(* A gapless gate of one key. *)
Gate == INSTANCE CommandGate WITH
          Number <- {p.seq : p \in Packets},
          Capacity <- 1, Gapless <- TRUE, Volatile <- FALSE,
          enrolled <- EnrolledKeys, executed <- ExecutedCommands

ImplementsGate == Gate!Spec
=============================================================================
