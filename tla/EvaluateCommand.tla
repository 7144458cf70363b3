--------------------------- MODULE EvaluateCommand ---------------------------
(***************************************************************************)
(* evaluate_command of src/src/core.c, the evaluator the Makefile links    *)
(* into gate0-exec: one sender record, enrolled by the first packet whose  *)
(* payload carries the token, then commands 1, 2, 3, ... in order.         *)
(***************************************************************************)
EXTENDS GateCommands

CONSTANT NoKey          \* the zeroed key of an unused record

Results == {"OK", "SIGNATURE_INVALID", "EXPIRED", "SEQUENCE_INVALID",
            "SENDER_NOT_FOUND", "INTERLOCK_TRIPPED"}

SenderRecord == [used : BOOLEAN, key : Key \cup {NoKey}, last : Nat]

UnusedSender == [used |-> FALSE, key |-> NoKey, last |-> 0]

(* Defect: a packet with the token replaces a record in use. *)
EnrolledAnew(p, sender) ==
  IF p.token THEN [used |-> TRUE, key |-> p.key, last |-> 0] ELSE sender

(* The record is written before any other check of the packet is made. *)
EnrolledSender(p, sender) ==
  IF ~sender.used /\ p.token
  THEN [used |-> TRUE, key |-> p.key, last |-> 0]
  ELSE sender

InWindow(p, now) == p.issued <= now /\ now <= p.expires

(* Defect: any higher number is taken for the next one. *)
CheckAllowsGaps(p, sender, now) ==
  IF ~sender.used                     THEN "SENDER_NOT_FOUND"
  ELSE IF p.seq <= sender.last        THEN "SEQUENCE_INVALID"
  ELSE IF ~InWindow(p, now)           THEN "EXPIRED"
  ELSE IF ~Verifies(p, sender.key)    THEN "SIGNATURE_INVALID"
  ELSE "OK"

CheckCommand(p, sender, now) ==
  IF ~sender.used                     THEN "SENDER_NOT_FOUND"
  ELSE IF p.seq # sender.last + 1     THEN "SEQUENCE_INVALID"
  ELSE IF ~InWindow(p, now)           THEN "EXPIRED"
  ELSE IF ~Verifies(p, sender.key)    THEN "SIGNATURE_INVALID"
  ELSE "OK"

(* Defect: OK without storing the number. *)
EvaluateForgets(p, sender, tripped, now) ==
  LET s == EnrolledSender(p, sender)
  IN  IF tripped
      THEN [result |-> "INTERLOCK_TRIPPED", sender |-> sender]
      ELSE [result |-> CheckCommand(p, s, now), sender |-> s]

(* Defect: the record is written before the interlocks are looked at. *)
EvaluateEnrolsFirst(p, sender, tripped, now) ==
  LET s == EnrolledSender(p, sender)
      r == CheckCommand(p, s, now)
  IN  IF tripped
      THEN [result |-> "INTERLOCK_TRIPPED", sender |-> s]
      ELSE [result |-> r,
            sender |-> IF r = "OK" THEN [s EXCEPT !.last = p.seq] ELSE s]

(* Defect: the number is stored before the signature is verified. *)
EvaluateBurnsNumber(p, sender, tripped, now) ==
  LET s == EnrolledSender(p, sender)
      r == CheckCommand(p, s, now)
  IN  IF tripped
      THEN [result |-> "INTERLOCK_TRIPPED", sender |-> sender]
      ELSE [result |-> r,
            sender |-> IF r \in {"OK", "SIGNATURE_INVALID"}
                       THEN [s EXCEPT !.last = p.seq] ELSE s]

(* The answer, and the sender record as the call leaves it. *)
Evaluate(p, sender, tripped, now) ==
  LET s == EnrolledSender(p, sender)
      r == CheckCommand(p, s, now)
  IN  IF tripped
      THEN [result |-> "INTERLOCK_TRIPPED", sender |-> sender]
      ELSE [result |-> r,
            sender |-> IF r = "OK" THEN [s EXCEPT !.last = p.seq] ELSE s]
=============================================================================
