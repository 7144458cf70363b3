----------------------------- MODULE MultiClient -----------------------------
(***************************************************************************)
(* evaluate_command_multiclient of src/src/core_multiclient.c: a table of  *)
(* sender records in the caller's memory.  A key without a record takes    *)
(* the first free one, before any check of its packet; a record accepts    *)
(* any sequence number above its last.                                     *)
(* executed is a history variable, no step reads it.                       *)
(***************************************************************************)
EXTENDS Naturals, Sequences, FiniteSets, FiniteSetsExt

CONSTANTS Key, NoKey,
          Packets,      \* [pubkey, seq, issued, expires, sig]
          NoSignature,
          MaxSenders,   \* max_senders, the table's length
          Times

Envelopes == [seq : Nat, issued : Nat, expires : Nat]

PacketType == [pubkey : Key, seq : Nat, issued : Nat, expires : Nat,
               sig : [by : Key, over : Envelopes] \cup {NoSignature}]

ASSUME MultiClientAssumption == /\ Packets \subseteq PacketType
                                /\ MaxSenders \in Nat
                                /\ Times \subseteq Nat
                                /\ NoKey \notin Key

VARIABLES senders,      \* slot -> record
          interlocked,  \* some interlock flag is set
          result,       \* of the last call
          executed      \* packets answered OK so far

vars == <<senders, interlocked, result, executed>>

Slots == 1 .. MaxSenders

SenderRecord == [used : BOOLEAN, key : Key \cup {NoKey}, last : Nat]

Envelope(p) == [seq |-> p.seq, issued |-> p.issued, expires |-> p.expires]

Verifies(p, k) == p.sig = [by |-> k, over |-> Envelope(p)]

(* The first slot the two loops stop at; 0 when both run to the end. *)
Matching(p) == {i \in Slots : senders[i].used /\ senders[i].key = p.pubkey}

FreeSlots == {i \in Slots : ~senders[i].used}

(* Defect: a free record is preferred to the sender's own. *)
SlotForFreeFirst(p) == IF FreeSlots # {} THEN Min(FreeSlots)
                       ELSE IF Matching(p) # {} THEN Min(Matching(p)) ELSE 0

SlotFor(p) == IF Matching(p) # {} THEN Min(Matching(p))
              ELSE IF FreeSlots # {} THEN Min(FreeSlots) ELSE 0

(* Defect: no look at the sequence number. *)
CheckNoSequence(p, s, now) ==
  IF now < p.issued \/ now > p.expires        THEN "EXPIRED"
  ELSE IF ~Verifies(p, s.key)                 THEN "SIGNATURE_INVALID"
  ELSE "OK"

CheckCommand(p, s, now) ==
  IF p.seq <= s.last                          THEN "SEQUENCE_INVALID"
  ELSE IF now < p.issued \/ now > p.expires   THEN "EXPIRED"
  ELSE IF ~Verifies(p, s.key)                 THEN "SIGNATURE_INVALID"
  ELSE "OK"

Init == /\ senders = [i \in Slots |-> [used |-> FALSE, key |-> NoKey, last |-> 0]]
        /\ interlocked = FALSE
        /\ result = "NONE"
        /\ executed = <<>>

Interlocked == /\ interlocked
               /\ result' = "INTERLOCK_TRIPPED"
               /\ UNCHANGED <<senders, interlocked, executed>>

TableFull(p) == /\ ~interlocked
                /\ SlotFor(p) = 0
                /\ result' = "SENDER_NOT_FOUND"
                /\ UNCHANGED <<senders, interlocked, executed>>

(* Defect: the record found is initialised like a new one. *)
EvaluateReinitialises(p, now) ==
  LET i == SlotFor(p)
      s == [used |-> TRUE, key |-> p.pubkey, last |-> 0]
      r == CheckCommand(p, s, now)
  IN  /\ ~interlocked
      /\ i # 0
      /\ result' = r
      /\ senders' = [senders EXCEPT ![i] = IF r = "OK" THEN [s EXCEPT !.last = p.seq] ELSE s]
      /\ executed' = IF r = "OK" THEN Append(executed, p) ELSE executed
      /\ UNCHANGED interlocked

Evaluate(p, now) ==
  LET i == SlotFor(p)
      s == IF senders[i].used THEN senders[i]
           ELSE [used |-> TRUE, key |-> p.pubkey, last |-> 0]
      r == CheckCommand(p, s, now)
  IN  /\ ~interlocked
      /\ i # 0
      /\ result' = r
      /\ senders' = [senders EXCEPT ![i] = IF r = "OK" THEN [s EXCEPT !.last = p.seq] ELSE s]
      /\ executed' = IF r = "OK" THEN Append(executed, p) ELSE executed
      /\ UNCHANGED interlocked

(* The caller sets and clears the flags it passes. *)
SetInterlock(b) == interlocked' = b /\ UNCHANGED <<senders, result, executed>>

Next == \/ Interlocked
        \/ \E p \in Packets : TableFull(p) \/ \E now \in Times : Evaluate(p, now)
        \/ \E b \in BOOLEAN : SetInterlock(b)

Spec == Init /\ [][Next]_vars
-----------------------------------------------------------------------------
TypeOK == /\ senders \in [Slots -> SenderRecord]
          /\ interlocked \in BOOLEAN
          /\ result \in {"NONE", "OK", "SIGNATURE_INVALID", "EXPIRED", "SEQUENCE_INVALID",
                         "SENDER_NOT_FOUND", "INTERLOCK_TRIPPED"}
          /\ executed \in Seq(Packets)

(* No key ever holds two records, so no sender has two sequence counters;  *)
(* the records in use are a prefix of the table, as the free-slot scan     *)
(* relies on.                                                              *)
OneRecordPerKey ==
  /\ \A i \in Slots : senders[i].used <=> senders[i].key # NoKey
  /\ \A i, j \in Slots : i < j /\ senders[j].used =>
        senders[i].used /\ senders[i].key # senders[j].key

(* However the senders' calls interleave, each sender's commands execute   *)
(* in strictly rising order up to the number in its record, each under     *)
(* that sender's own signature.                                            *)
ExecutedRising ==
  \A i \in 1 .. Len(executed) :
    /\ Verifies(executed[i], executed[i].pubkey)
    /\ \E s \in Slots : senders[s].key = executed[i].pubkey /\ executed[i].seq <= senders[s].last
    /\ \A j \in 1 .. (i - 1) :
         executed[j].pubkey = executed[i].pubkey => executed[j].seq < executed[i].seq

(* A call disturbs at most one record, never hands a record in use to      *)
(* another key, and never lowers a counter: one sender cannot block or     *)
(* rewind another that already has its record.                             *)
SendersIsolated ==
  [][/\ \A i \in Slots : senders[i].used =>
          senders'[i].key = senders[i].key /\ senders'[i].last >= senders[i].last
     /\ \A i, j \in Slots : senders'[i] # senders[i] /\ senders'[j] # senders[j] => i = j
    ]_vars

EnrolledKeys == {senders[i].key : i \in {s \in Slots : senders[s].used}}

ExecutedCommands ==
  [i \in 1 .. Len(executed) |-> [key |-> executed[i].pubkey, seq |-> executed[i].seq]]

(* The table is a gate of MaxSenders keys that allows gaps. *)
Gate == INSTANCE CommandGate WITH
          Number <- {p.seq : p \in Packets},
          Capacity <- MaxSenders, Gapless <- FALSE, Volatile <- FALSE,
          enrolled <- EnrolledKeys, executed <- ExecutedCommands

ImplementsGate == Gate!Spec
=============================================================================
