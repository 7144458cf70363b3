---------------------------- MODULE GateCommands ----------------------------
(***************************************************************************)
(* The signed command of src/src/gate0.h as every evaluator of core.c's    *)
(* kind sees it, and the 512-byte buffer it is read into.                  *)
(*                                                                         *)
(* Data is abstracted to what the evaluators tell apart.  A packet keeps,  *)
(* in their order on the wire, the sequence number, whether the payload    *)
(* opens with the enrolment token, the key the payload names, the validity *)
(* window and the signature; version, ids and the rest of the payload are  *)
(* never read by evaluate_command.  A signature is the pair of the key     *)
(* that made it and the envelope it was made over.                         *)
(***************************************************************************)
EXTENDS Naturals

CONSTANTS Key,          \* public keys
          Packets,      \* the packets clients build
          Junk,         \* what the stack buffer holds before the first read
          NoSignature   \* bytes that no key ever signed

Envelopes == [seq : Nat, token : BOOLEAN, key : Key, issued : Nat, expires : Nat]

Signatures == [by : Key, over : Envelopes] \cup {NoSignature}

PacketType == [seq : Nat, token : BOOLEAN, key : Key,
               issued : Nat, expires : Nat, sig : Signatures]

ASSUME PacketsAssumption == /\ Packets \subseteq PacketType
                            /\ Junk \in PacketType
                            /\ NoSignature \notin [by : Key, over : Envelopes]

Envelope(p) == [seq |-> p.seq, token |-> p.token, key |-> p.key,
                issued |-> p.issued, expires |-> p.expires]

(* Defect: the signature's owner is compared, what it was made over is not. *)
VerifiesOwnerOnly(p, k) == p.sig # NoSignature /\ p.sig.by = k

(* crypto_sign_verify_detached: nothing but the owner of k signs for k. *)
Verifies(p, k) == p.sig = [by |-> k, over |-> Envelope(p)]

-----------------------------------------------------------------------------
(* The fields in wire order are seq, token, key, issued, expires, sig: a   *)
(* packet is whole when all Whole fields have arrived.                     *)
Whole == 6

(* read() of a packet cut after its first n fields: it overwrites a prefix *)
(* of the buffer and leaves the tail of the previous packet behind.        *)
Overlay(buf, p, n) ==
  [seq     |-> p.seq,
   token   |-> IF n >= 2 THEN p.token   ELSE buf.token,
   key     |-> IF n >= 3 THEN p.key     ELSE buf.key,
   issued  |-> IF n >= 4 THEN p.issued  ELSE buf.issued,
   expires |-> IF n >= 5 THEN p.expires ELSE buf.expires,
   sig     |-> IF n >= Whole THEN p.sig ELSE buf.sig]
=============================================================================
