--------------------------- MODULE GateCoreProofs ---------------------------
(***************************************************************************)
(* Theorems about core.c as a library, for every set of keys and packets   *)
(* (tampered with in any way), any interlock flags and any clock, in the   *)
(* build with and without GATE0_SIMULATION.                                *)
(***************************************************************************)
EXTENDS GateCore, TLAPS

(* evaluate_command answers with one of its codes and leaves a well-formed *)
(* record, whatever it is given.                                           *)
LEMMA CallType ==
  ASSUME NEW p \in PacketType, NEW s \in SenderRecord, NEW trip \in BOOLEAN, NEW now \in Nat
  PROVE  /\ Evaluate(p, s, trip, now).result \in Results
         /\ Evaluate(p, s, trip, now).sender \in SenderRecord
BY DEF Evaluate, EnrolledSender, CheckCommand, Results, SenderRecord, PacketType

(* An OK answer means that no flag was set and that the packet is the next *)
(* number of the enrolled, or just enrolled, key under its signature.      *)
LEMMA CallOK ==
  ASSUME NEW p \in PacketType, NEW s \in SenderRecord, NEW trip \in BOOLEAN, NEW now \in Nat,
         Evaluate(p, s, trip, now).result = "OK"
  PROVE  LET t == Evaluate(p, s, trip, now).sender
         IN  /\ ~trip
             /\ t.used
             /\ t.last = p.seq
             /\ p.seq = (IF s.used THEN s.last ELSE 0) + 1
             /\ t.key = IF s.used THEN s.key ELSE p.key
             /\ Verifies(p, t.key)
BY DEF Evaluate, EnrolledSender, CheckCommand, SenderRecord, PacketType

(* What a rejection leaves: a record in use, or any record while a flag is *)
(* set, as it was; otherwise at most an enrolment with the counter at 0.   *)
LEMMA CallRejected ==
  ASSUME NEW p \in PacketType, NEW s \in SenderRecord, NEW trip \in BOOLEAN, NEW now \in Nat,
         Evaluate(p, s, trip, now).result # "OK"
  PROVE  LET t == Evaluate(p, s, trip, now).sender
         IN  \/ t = s
             \/ ~trip /\ ~s.used /\ t = [used |-> TRUE, key |-> p.key, last |-> 0]
BY DEF Evaluate, EnrolledSender, CheckCommand, SenderRecord, PacketType

-----------------------------------------------------------------------------
(* Nothing is counted for a record that is not in use, and a record in use *)
(* has a key.                                                              *)
Counted == /\ ~sender.used => sender.last = 0
           /\ sender.used => sender.key \in Key

IInv == TypeOK /\ Counted /\ ExecutedInOrder

(* What a call can do, in the terms of the history: nothing to it, an      *)
(* enrolment, or one more command under the record's key.                  *)
LEMMA CallStep ==
  ASSUME IInv, NEW p \in Packets, NEW now \in Times, Call(p, now)
  PROVE  /\ result' \in Results
         /\ interlocks' \subseteq interlocks
         /\ tripped' = tripped
         /\ \/ UNCHANGED <<sender, executed>>
            \/ /\ interlocks' = {} /\ ~sender.used
               /\ sender' = [used |-> TRUE, key |-> p.key, last |-> 0]
               /\ executed' = executed
            \/ /\ interlocks' = {}
               /\ sender' \in SenderRecord
               /\ sender'.used /\ sender'.key \in Key
               /\ sender'.last = p.seq /\ p.seq = sender.last + 1
               /\ sender'.key = IF sender.used THEN sender.key ELSE p.key
               /\ Verifies(p, sender'.key)
               /\ executed' = Append(executed, p)
<1> PICK il : il = IF Simulation THEN {} ELSE interlocks
  OBVIOUS
<1> PICK trip \in BOOLEAN : trip <=> il # {}
  OBVIOUS
<1> DEFINE e == Evaluate(p, sender, trip, now)
<1>0. Evaluate(p, sender, il # {}, now) = e
  BY DEF Evaluate
<1>1. /\ interlocks' = il /\ sender' = e.sender /\ result' = e.result
      /\ executed' = IF e.result = "OK" THEN Append(executed, p) ELSE executed
      /\ tripped' = tripped
  BY <1>0, Zenon DEF Call
<1>2. p \in PacketType /\ p.key \in Key /\ sender \in SenderRecord /\ now \in Nat
  BY PacketsAssumption, GateCoreAssumption DEF IInv, TypeOK, PacketType
<1>3. e.result \in Results /\ e.sender \in SenderRecord
  BY <1>2, CallType, Zenon
<1>4. il \subseteq interlocks
  OBVIOUS
<1>5. CASE e.result = "OK"
  <2>1. /\ ~trip
        /\ e.sender.used
        /\ e.sender.last = p.seq
        /\ p.seq = (IF sender.used THEN sender.last ELSE 0) + 1
        /\ e.sender.key = IF sender.used THEN sender.key ELSE p.key
        /\ Verifies(p, e.sender.key)
    BY <1>2, <1>5, CallOK
  <2> HIDE DEF e
  <2>2. p.seq = sender.last + 1 /\ e.sender.key \in Key
    BY <1>2, <2>1 DEF IInv, Counted
  <2> QED
    BY <1>1, <1>3, <1>4, <1>5, <2>1, <2>2
<1>6. CASE e.result # "OK"
  <2>1. \/ e.sender = sender
        \/ ~trip /\ ~sender.used /\ e.sender = [used |-> TRUE, key |-> p.key, last |-> 0]
    BY <1>2, <1>6, CallRejected, Zenon
  <2> HIDE DEF e
  <2> QED
    BY <1>1, <1>3, <1>4, <1>6, <2>1
<1> QED
  BY <1>5, <1>6

-----------------------------------------------------------------------------
LEMMA InvariantInit == Init => IInv
<1> SUFFICES ASSUME Init PROVE IInv
  OBVIOUS
<1>1. sender \in SenderRecord /\ ~sender.used /\ sender.last = 0
  BY DEF Init, UnusedSender, SenderRecord
<1>2. TypeOK
  <2>1. executed \in Seq(Packets) /\ interlocks \subseteq Flag
    BY DEF Init
  <2>2. result \in Results \cup {"NONE"} /\ tripped \in BOOLEAN
    BY DEF Init
  <2> QED
    BY <1>1, <2>1, <2>2 DEF TypeOK
<1>3. Counted /\ ExecutedInOrder
  BY <1>1 DEF Init, Counted, ExecutedInOrder
<1> QED
  BY <1>2, <1>3 DEF IInv

LEMMA InvariantNext == IInv /\ [Next]_vars => IInv'
<1> SUFFICES ASSUME IInv, [Next]_vars PROVE IInv'
  OBVIOUS
<1> USE DEF IInv, TypeOK, Counted, ExecutedInOrder
<1>1. ASSUME NEW p \in Packets, NEW now \in Times, Call(p, now) PROVE IInv'
  <2>1. executed \in Seq(Packets) /\ Len(executed) = sender.last /\ sender.last \in Nat
    BY DEF SenderRecord
  <2>2. result' \in Results /\ interlocks' \subseteq Flag /\ tripped' \in BOOLEAN
    BY <1>1, CallStep
  <2>3. CASE UNCHANGED <<sender, executed>>
    BY <2>2, <2>3
  <2>4. CASE /\ interlocks' = {} /\ ~sender.used
             /\ sender' = [used |-> TRUE, key |-> p.key, last |-> 0]
             /\ executed' = executed
    BY <2>1, <2>2, <2>4, PacketsAssumption DEF PacketType, SenderRecord
  <2>5. CASE /\ interlocks' = {}
             /\ sender' \in SenderRecord
             /\ sender'.used /\ sender'.key \in Key
             /\ sender'.last = p.seq /\ p.seq = sender.last + 1
             /\ sender'.key = IF sender.used THEN sender.key ELSE p.key
             /\ Verifies(p, sender'.key)
             /\ executed' = Append(executed, p)
    <3>1. executed' \in Seq(Packets) /\ Len(executed') = sender'.last
      BY <2>1, <2>5
    <3>2. ASSUME NEW i \in 1 .. Len(executed')
          PROVE  executed'[i].seq = i /\ Verifies(executed'[i], sender'.key)
      <4>1. CASE i = Len(executed) + 1
        BY <2>1, <2>5, <4>1
      <4>2. CASE i \in 1 .. Len(executed)
        <5>1. executed'[i] = executed[i] /\ sender'.key = sender.key
          BY <2>1, <2>5, <4>2
        <5> QED
          BY <4>2, <5>1
      <4> QED
        BY <2>1, <2>5, <4>1, <4>2
    <3>3. Counted'
      BY <2>5
    <3> QED
      BY <2>2, <2>5, <3>1, <3>2, <3>3
  <2> QED
    BY <1>1, <2>3, <2>4, <2>5, CallStep
<1>2. ASSUME NEW f \in Flag, Trip(f) PROVE IInv'
  BY <1>2 DEF Trip
<1>3. CASE check_interlocks
  BY <1>3 DEF check_interlocks
<1>4. CASE UNCHANGED vars
  BY <1>4 DEF vars
<1> QED
  BY <1>1, <1>2, <1>3, <1>4 DEF Next

LEMMA Inductive == Spec => []IInv
  BY InvariantInit, InvariantNext, PTL DEF Spec

(* The record, the flags and the answers only ever hold what they can.     *)
THEOREM TypeCorrect == Spec => []TypeOK
  BY Inductive, PTL DEF IInv

(* Whatever was rejected, tripped, enrolled or tampered with in between,   *)
(* commands execute as 1, 2, 3, ... of the one key that is enrolled.       *)
THEOREM InOrder == Spec => []ExecutedInOrder
  BY Inductive, PTL DEF IInv

-----------------------------------------------------------------------------
(* A build that is not the simulation's evaluates nothing and enrols       *)
(* nobody between a trip and the next check_interlocks.                    *)
THEOREM Stopped == Simulation = FALSE => (Spec => StoppedWhileTripped)
<1> SUFFICES ASSUME Simulation = FALSE PROVE Spec => StoppedWhileTripped
  OBVIOUS
<1>1. [Next]_vars => [interlocks # {} => UNCHANGED <<sender, executed>>]_vars
  <2> SUFFICES ASSUME Next, interlocks # {} PROVE UNCHANGED <<sender, executed>>
    BY DEF vars
  <2>1. ASSUME NEW p \in Packets, NEW now \in Times, Call(p, now)
        PROVE  UNCHANGED <<sender, executed>>
    BY <2>1 DEF Call, Evaluate
  <2> QED
    BY <2>1 DEF Next, Trip, check_interlocks
<1> QED
  BY <1>1, PTL DEF Spec, StoppedWhileTripped

(* A call that executes nothing leaves the counter and an enrolment as     *)
(* they were.                                                              *)
THEOREM OnlyEnrols == Spec => RejectionOnlyEnrols
<1>1. IInv /\ [Next]_vars =>
        [executed' = executed =>
           /\ sender'.last = sender.last
           /\ sender.used => sender' = sender]_vars
  <2> SUFFICES ASSUME IInv, Next, executed' = executed
               PROVE  /\ sender'.last = sender.last
                      /\ sender.used => sender' = sender
    BY DEF vars
  <2>1. ASSUME NEW p \in Packets, NEW now \in Times, Call(p, now)
        PROVE  /\ sender'.last = sender.last
               /\ sender.used => sender' = sender
    <3>1. executed' # Append(executed, p)
      BY DEF IInv, TypeOK
    <3> QED
      BY <2>1, <3>1, CallStep DEF IInv, Counted
  <2> QED
    BY <2>1 DEF Next, Trip, check_interlocks
<1> QED
  BY <1>1, Inductive, PTL DEF Spec, RejectionOnlyEnrols

-----------------------------------------------------------------------------
(* The refinement: the library as the abstract gate sees it. *)
LEMMA GateInit == Init => Gate!Init
  BY DEF Init, Gate!Init, EnrolledKeys, ExecutedCommands, UnusedSender

(* The history names the record's key and counts up to its counter. *)
LEMMA SignedByKey ==
  ASSUME IInv, NEW i \in 1 .. Len(executed)
  PROVE  executed[i].seq = i /\ executed[i].sig.by = sender.key
<1>1. executed[i].seq = i /\ Verifies(executed[i], sender.key)
  BY DEF IInv, ExecutedInOrder
<1>2. executed[i].sig = [by |-> sender.key, over |-> Envelope(executed[i])]
  BY <1>1, Zenon DEF Verifies
<1> QED
  BY <1>1, <1>2

(* A table of one record has room for any one key. *)
LEMMA OneKeyFits ==
  ASSUME NEW k
  PROVE  Gate!Fit({k})
<1>1. [x \in {k} |-> 1] \in [{k} -> 1 .. 1]
  OBVIOUS
<1> QED
  BY <1>1 DEF Gate!Fit

(* An execution appends the key that signed and the next number. *)
LEMMA AppendedCommand ==
  ASSUME IInv, NEW p \in Packets, NEW key, NEW n,
         executed' = Append(executed, p), Verifies(p, key), n = p.seq
  PROVE  ExecutedCommands' = Append(ExecutedCommands, [key |-> key, seq |-> n])
<1>1. p.sig = [by |-> key, over |-> Envelope(p)]
  BY Zenon DEF Verifies
<1>2. executed \in Seq(Packets) /\ p.sig.by = key
  BY <1>1 DEF IInv, TypeOK
<1>3. /\ Len(executed') = Len(executed) + 1
      /\ \A i \in 1 .. Len(executed) : executed'[i] = executed[i]
      /\ executed'[Len(executed) + 1] = p
  BY <1>2
<1> QED
  BY <1>2, <1>3 DEF ExecutedCommands

LEMMA GateStep == IInv /\ [Next]_vars => [Gate!Next]_(Gate!vars)
<1> SUFFICES ASSUME IInv, [Next]_vars
             PROVE  [Gate!Next]_(Gate!vars)
  OBVIOUS
<1>1. CASE UNCHANGED <<sender, executed>>
  BY <1>1 DEF Gate!vars, EnrolledKeys, ExecutedCommands
<1>2. ASSUME NEW p \in Packets, ~sender.used,
             sender' = [used |-> TRUE, key |-> p.key, last |-> 0],
             executed' = executed
      PROVE  Gate!Next
  <2>1. p.key \in Key
    BY PacketsAssumption DEF PacketType
  <2>2. EnrolledKeys = {} /\ EnrolledKeys' = {p.key}
    BY <1>2 DEF EnrolledKeys
  <2>3. UNCHANGED ExecutedCommands
    BY <1>2 DEF ExecutedCommands
  <2>4. Gate!Enrol(p.key)
    BY <2>2, <2>3, OneKeyFits DEF Gate!Enrol
  <2> QED
    BY <2>1, <2>4 DEF Gate!Next
<1>3. ASSUME NEW p \in Packets,
             sender'.used, sender'.key \in Key,
             p.seq = sender.last + 1,
             sender'.key = IF sender.used THEN sender.key ELSE p.key,
             Verifies(p, sender'.key),
             executed' = Append(executed, p)
      PROVE  Gate!Next
  <2> PICK key, n : key = sender'.key /\ n = p.seq
    OBVIOUS
  <2>1. key \in Key /\ n \in {q.seq : q \in Packets} /\ n \in Nat
    BY <1>3, PacketsAssumption DEF PacketType
  <2>2. n > 0 /\ Len(executed) = n - 1
    BY <1>3 DEF IInv, TypeOK, SenderRecord, ExecutedInOrder
  <2>3. EnrolledKeys \cup {key} = {key} /\ EnrolledKeys' = {key}
    BY <1>3 DEF EnrolledKeys
  <2>4. Len(ExecutedCommands) = n - 1
    BY <2>1, <2>2 DEF ExecutedCommands
  <2>5. ASSUME NEW i \in 1 .. (n - 1)
        PROVE  ExecutedCommands[i] = [key |-> key, seq |-> i]
    <3>1. sender.used /\ sender.key = key /\ i \in 1 .. Len(executed)
      BY <1>3, <2>1, <2>2 DEF IInv, Counted, ExecutedInOrder
    <3>2. executed[i].seq = i /\ executed[i].sig.by = key
      BY <3>1, SignedByKey
    <3> QED
      BY <3>1, <3>2 DEF ExecutedCommands
  <2>6. ExecutedCommands' = Append(ExecutedCommands, [key |-> key, seq |-> n])
    BY <1>3, AppendedCommand
  <2>7. Gate!Fit(EnrolledKeys \cup {key}) /\ EnrolledKeys' = EnrolledKeys \cup {key}
    BY <2>3, OneKeyFits
  <2>8. ASSUME NEW i \in 1 .. Len(ExecutedCommands)
        PROVE  ExecutedCommands[i].seq < n
    <3>1. i \in 1 .. (n - 1) /\ i < n
      BY <2>1, <2>4
    <3>2. ExecutedCommands[i] = [key |-> key, seq |-> i]
      BY <3>1, <2>5, Zenon
    <3> QED
      BY <3>1, <3>2
  <2>9. ASSUME NEW m \in 1 .. (n - 1)
        PROVE  Gate!Done(key, m)
    <3>1. m \in 1 .. Len(ExecutedCommands) /\ ExecutedCommands[m] = [key |-> key, seq |-> m]
      BY <2>4, <2>5
    <3> QED
      BY <3>1, Zenon DEF Gate!Done
  <2>10. Gate!Execute(key, n)
    BY <2>2, <2>6, <2>7, <2>8, <2>9, Zenon DEF Gate!Execute
  <2> QED
    BY <2>1, <2>10 DEF Gate!Next
<1>4. ASSUME NEW p \in Packets, NEW now \in Times, Call(p, now)
      PROVE  [Gate!Next]_(Gate!vars)
  BY <1>1, <1>2, <1>3, <1>4, CallStep
<1> QED
  BY <1>1, <1>4 DEF Next, Trip, check_interlocks, vars

(* core.c with any caller is a gapless gate of one key: it executes 1, 2,  *)
(* 3, ... of the key it enrolled, and nothing else, for ever.              *)
THEOREM Implements == Spec => ImplementsGate
  BY Inductive, GateInit, GateStep, PTL DEF Spec, ImplementsGate, Gate!Spec
=============================================================================
