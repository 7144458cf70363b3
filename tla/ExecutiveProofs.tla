--------------------------- MODULE ExecutiveProofs ---------------------------
(***************************************************************************)
(* Theorems about gate0-exec for every set of clients, keys and packets,   *)
(* every length of the listen queue and every clock: the type invariant,   *)
(* and that commands execute in order, as they were sent, and acknowledged.*)
(***************************************************************************)
EXTENDS Executive, TLAPS

(* evaluate_command answers with one of its codes and leaves a well-formed *)
(* sender record, whatever it is given.                                    *)
LEMMA EvaluateType ==
  ASSUME NEW p \in PacketType, NEW s \in SenderRecord,
         NEW tripped \in BOOLEAN, NEW now \in Nat
  PROVE  /\ Evaluate(p, s, tripped, now).result \in Results
         /\ Evaluate(p, s, tripped, now).sender \in SenderRecord
  BY DEF Evaluate, EnrolledSender, CheckCommand, Results, SenderRecord, PacketType

(* What an OK answer means: the packet is the next number of the enrolled  *)
(* (or just enrolled) key and carries its signature.                       *)
LEMMA EvaluateOK ==
  ASSUME NEW p \in PacketType, NEW s \in SenderRecord, NEW now \in Nat,
         Evaluate(p, s, FALSE, now).result = "OK"
  PROVE  LET t == Evaluate(p, s, FALSE, now).sender
         IN  /\ t.used
             /\ t.last = p.seq
             /\ p.seq = (IF s.used THEN s.last ELSE 0) + 1
             /\ t.key = IF s.used THEN s.key ELSE p.key
             /\ Verifies(p, t.key)
  BY DEF Evaluate, EnrolledSender, CheckCommand, SenderRecord, PacketType

(* What a rejection leaves: an enrolled record as it was; an unused one    *)
(* unused, or enrolled with the counter at 0.                              *)
LEMMA EvaluateRejected ==
  ASSUME NEW p \in PacketType, NEW s \in SenderRecord, NEW now \in Nat,
         Evaluate(p, s, FALSE, now).result # "OK"
  PROVE  LET t == Evaluate(p, s, FALSE, now).sender
         IN  \/ t = s
             \/ ~s.used /\ t = [used |-> TRUE, key |-> p.key, last |-> 0]
  BY DEF Evaluate, EnrolledSender, CheckCommand, SenderRecord, PacketType

(* A read leaves a well-formed packet in the buffer, and a whole packet as *)
(* it was sent.                                                            *)
LEMMA OverlayType ==
  ASSUME NEW b \in PacketType, NEW p \in PacketType, NEW n \in 0 .. Whole
  PROVE  /\ Overlay(b, p, n) \in PacketType
         /\ Overlay(b, p, n).sig = IF n = Whole THEN p.sig ELSE b.sig
         /\ n = Whole => Overlay(b, p, n) = p
  BY DEF Overlay, PacketType, Whole

-----------------------------------------------------------------------------
(* Where main is determines what it holds: an accepted client exactly      *)
(* between accept and close, an answer exactly before write.               *)
Conversation ==
  /\ pc \in {"read", "evaluate", "write", "close"} => fd \in Client
  /\ pc \in {"accept", "down"} => fd = NoClient
  /\ pc = "write" => result \in Results
  /\ pc # "write" => result = "NONE"

(* Only packets of clients travel. *)
OnlyPackets ==
  \A c \in Client : /\ wire[c].packet \in Packets \cup {Junk}
                    /\ wire[c].fields > 0 => wire[c].packet \in Packets

IType == TypeOK /\ Conversation /\ OnlyPackets

USE DEF Whole

LEMMA TypeInit == Init => IType
  BY PacketsAssumption, ExecutiveAssumption
  DEF Init, IType, TypeOK, Conversation, OnlyPackets, UnusedSender, SenderRecord, NoData,
      PacketType, Results

LEMMA TypeNext == IType /\ [Next]_vars => IType'
<1> SUFFICES ASSUME IType, [Next]_vars PROVE IType'
  OBVIOUS
<1> USE PacketsAssumption, ExecutiveAssumption
<1> USE DEF IType, TypeOK, Conversation, OnlyPackets, serverVars, clientVars, history
<1>1. CASE Accept
  BY <1>1 DEF Accept
<1>2. CASE Read
  <2>1. wire[fd].packet \in PacketType /\ wire[fd].fields \in 0 .. Whole
    BY <1>2 DEF Read
  <2>2. buffer' \in PacketType
    BY <1>2, <2>1, OverlayType DEF Read
  <2>3. whole' \in PacketType
    BY <1>2, <2>1 DEF Read
  <2> QED
    BY <1>2, <2>1, <2>2, <2>3 DEF Read, NoData
<1>3. CASE ReadNothing
  BY <1>3 DEF ReadNothing
<1>4. CASE EvaluatePacket
  <2> DEFINE e == Evaluate(buffer, sender, FALSE, clock)
  <2>1. e.result \in Results /\ e.sender \in SenderRecord
    BY EvaluateType
  <2>2. /\ result' = e.result
        /\ sender' = e.sender
        /\ executed' = IF e.result = "OK" THEN Append(executed, buffer) ELSE executed
    BY <1>4, Zenon DEF EvaluatePacket
  <2> HIDE DEF e
  <2>3. executed' \in Seq(PacketType)
    BY <2>2
  <2> QED
    BY <1>4, <2>1, <2>2, <2>3 DEF EvaluatePacket
<1>5. CASE Write
  <2>1. told' \in Seq(Nat)
    BY <1>5 DEF Write, PacketType
  <2> QED
    BY <1>5, <2>1 DEF Write
<1>6. CASE Close
  BY <1>6 DEF Close
<1>7. CASE Stop
  <2>1. sender' \in SenderRecord /\ buffer' \in PacketType /\ whole' \in PacketType
    BY <1>7 DEF Stop, UnusedSender, SenderRecord
  <2>2. st' \in [Client -> {"idle", "connected", "sent", "answered", "eof", "gone"}]
    BY <1>7 DEF Stop
  <2> QED
    BY <1>7, <2>1, <2>2 DEF Stop, NoData
<1>8. CASE Restart
  BY <1>8 DEF Restart
<1>9. CASE SetClock
  BY <1>9 DEF SetClock
<1>10. ASSUME NEW c \in Client, Connect(c) PROVE IType'
  BY <1>10 DEF Connect
<1>11. ASSUME NEW c \in Client, SendSome(c) PROVE IType'
  <2> PICK p \in Packets, n \in Cuts : Send(c, p, n)
    BY <1>11 DEF SendSome
  <2>1. wire' \in [Client -> [packet : PacketType, fields : 0 .. Whole]]
    BY DEF Send
  <2> QED
    BY <2>1 DEF Send
<1>12. ASSUME NEW c \in Client, Leave(c) PROVE IType'
  BY <1>12 DEF Leave
<1>13. ASSUME NEW c \in Client, Finish(c) PROVE IType'
  BY <1>13 DEF Finish
<1>14. CASE UNCHANGED vars
  BY <1>14 DEF vars
<1> QED
  BY <1>1, <1>2, <1>3, <1>4, <1>5, <1>6, <1>7, <1>8, <1>9, <1>10, <1>11, <1>12, <1>13, <1>14
  DEF Next, Serve, WriteBroken, Crash

LEMMA TypeInvariant == Spec => []IType
  BY TypeInit, TypeNext, PTL DEF Spec

(* The server and its clients only ever hold values of their types. *)
THEOREM TypeCorrect == Spec => []TypeOK
  BY TypeInvariant, PTL DEF IType

-----------------------------------------------------------------------------
(* The counter of the record counts the history, which the record's key    *)
(* signed; a record not yet used has none.                                 *)
Order == /\ sender.used => sender.key \in Key
         /\ ~sender.used => sender.last = 0
         /\ ExecutedInOrder

LEMMA OrderInit == Init => Order
  BY DEF Init, Order, ExecutedInOrder, UnusedSender

LEMMA OrderNext == IType /\ Order /\ [Next]_vars => Order'
<1> SUFFICES ASSUME IType, Order, [Next]_vars PROVE Order'
  OBVIOUS
<1>1. CASE UNCHANGED <<sender, executed>>
  BY <1>1 DEF Order, ExecutedInOrder
<1>2. CASE EvaluatePacket
  <2> DEFINE e == Evaluate(buffer, sender, FALSE, clock)
  <2>1. /\ sender' = e.sender
        /\ executed' = IF e.result = "OK" THEN Append(executed, buffer) ELSE executed
    BY <1>2, Zenon DEF EvaluatePacket
  <2>2. /\ buffer \in PacketType /\ sender \in SenderRecord /\ clock \in Nat
        /\ executed \in Seq(PacketType)
    BY ExecutiveAssumption DEF IType, TypeOK
  <2>3. CASE e.result = "OK"
    <3>1. /\ e.sender.used
          /\ e.sender.last = buffer.seq
          /\ buffer.seq = (IF sender.used THEN sender.last ELSE 0) + 1
          /\ e.sender.key = IF sender.used THEN sender.key ELSE buffer.key
          /\ Verifies(buffer, e.sender.key)
      BY <2>2, <2>3, EvaluateOK, Zenon
    <3> HIDE DEF e
    <3>2. executed' = Append(executed, buffer)
      BY <2>1, <2>3
    <3>3. Len(executed) = sender.last /\ buffer.seq = Len(executed) + 1
      BY <2>2, <3>1 DEF Order, ExecutedInOrder
    <3>4. sender'.used /\ sender'.key \in Key
      BY <2>1, <2>2, <3>1 DEF Order, PacketType
    <3>5. Len(executed') = sender'.last
      BY <2>1, <2>2, <3>1, <3>2, <3>3
    <3>6. ASSUME NEW i \in 1 .. Len(executed')
          PROVE  executed'[i].seq = i /\ Verifies(executed'[i], sender'.key)
      <4>1. CASE i = Len(executed) + 1
        BY <2>1, <2>2, <3>1, <3>2, <3>3, <4>1
      <4>2. CASE i \in 1 .. Len(executed)
        <5>1. executed'[i] = executed[i]
          BY <2>2, <3>2, <4>2
        <5>2. sender'.key = sender.key
          BY <2>1, <2>2, <3>1, <3>3, <4>2 DEF Order
        <5> QED
          BY <4>2, <5>1, <5>2 DEF Order, ExecutedInOrder
      <4> QED
        BY <2>2, <3>2, <4>1, <4>2
    <3> QED
      BY <3>4, <3>5, <3>6 DEF Order, ExecutedInOrder
  <2>4. CASE e.result # "OK"
    <3>1. \/ e.sender = sender
          \/ ~sender.used /\ e.sender = [used |-> TRUE, key |-> buffer.key, last |-> 0]
      BY <2>2, <2>4, EvaluateRejected, Zenon
    <3> HIDE DEF e
    <3>2. executed' = executed
      BY <2>1, <2>4
    <3>3. CASE sender' = sender
      BY <3>2, <3>3 DEF Order, ExecutedInOrder
    <3>4. CASE ~sender.used /\ sender' = [used |-> TRUE, key |-> buffer.key, last |-> 0]
      BY <2>2, <3>2, <3>4 DEF Order, ExecutedInOrder, PacketType
    <3> QED
      BY <2>1, <3>1, <3>3, <3>4
  <2> QED
    BY <2>3, <2>4
<1>3. CASE Stop
  BY <1>3 DEF Stop, Order, ExecutedInOrder, UnusedSender
<1> QED
  BY <1>1, <1>2, <1>3
  DEF Next, Serve, WriteBroken, Crash, Accept, Read, ReadNothing, Write, Close, Restart,
      SetClock, Connect, SendSome, Send, Leave, Finish, vars, serverVars, clientVars, history

(* Commands execute as numbers 1, 2, 3, ... of the one enrolled key, each  *)
(* once, for as long as a server runs.                                     *)
THEOREM InOrder == Spec => []ExecutedInOrder
<1>1. Spec => [](IType /\ Order)
  BY TypeInit, TypeNext, OrderInit, OrderNext, PTL DEF Spec
<1> QED
  BY <1>1, PTL DEF Order

-----------------------------------------------------------------------------
(* Only a whole packet brings a signature into the buffer.                 *)
Provenance == /\ whole \in Packets \cup {Junk}
              /\ buffer.sig = whole.sig
              /\ ExecutedAsSent

(* A verified signature covers the packet it came with and the buffer: the *)
(* two agree in every field.                                               *)
LEMMA VerifiedIsWhole ==
  ASSUME NEW k \in Key, NEW b \in PacketType, NEW w \in Packets \cup {Junk},
         b.sig = w.sig, Verifies(b, k)
  PROVE  b = w /\ w \in Packets
<1>1. w \in PacketType
  BY PacketsAssumption
<1>2. b.sig = [by |-> k, over |-> Envelope(b)] /\ Envelope(b) \in Envelopes
  BY DEF Verifies, Envelope, Envelopes, PacketType
<1>3. b.sig # NoSignature
  BY <1>2, PacketsAssumption
<1>4. w.sig.over = Envelope(w)
  BY <1>3, SignedAsSent
<1>5. Envelope(b) = Envelope(w)
  BY <1>2, <1>4
<1>6. b.seq = w.seq /\ b.token = w.token /\ b.key = w.key
      /\ b.issued = w.issued /\ b.expires = w.expires
  BY <1>5 DEF Envelope
<1> QED
  BY <1>1, <1>3, <1>6, SignedAsSent DEF PacketType

LEMMA ProvenanceInit == Init => Provenance
  BY DEF Init, Provenance, ExecutedAsSent

LEMMA ProvenanceNext == IType /\ Order /\ Provenance /\ [Next]_vars => Provenance'
<1> SUFFICES ASSUME IType, Order, Provenance, [Next]_vars PROVE Provenance'
  OBVIOUS
<1>1. CASE UNCHANGED <<pc, result, buffer, whole>>
  BY <1>1 DEF Provenance, ExecutedAsSent
<1>2. CASE UNCHANGED <<buffer, whole>> /\ pc' # "write"
  BY <1>2 DEF Provenance, ExecutedAsSent
<1>3. CASE Read
  <2>1. /\ buffer \in PacketType
        /\ wire[fd].packet \in PacketType /\ wire[fd].packet \in Packets
        /\ wire[fd].fields \in 0 .. Whole
    BY <1>3, PacketsAssumption DEF Read, IType, TypeOK, Conversation, OnlyPackets
  <2>2. buffer'.sig = IF wire[fd].fields = Whole THEN wire[fd].packet.sig ELSE buffer.sig
    BY <1>3, <2>1, OverlayType DEF Read
  <2> QED
    BY <1>3, <2>1, <2>2 DEF Read, Provenance, ExecutedAsSent
<1>4. CASE EvaluatePacket
  <2> DEFINE e == Evaluate(buffer, sender, FALSE, clock)
  <2>1. UNCHANGED <<buffer, whole>> /\ result' = e.result /\ sender' = e.sender
    BY <1>4, Zenon DEF EvaluatePacket
  <2>2. buffer \in PacketType /\ sender \in SenderRecord /\ clock \in Nat
    BY ExecutiveAssumption DEF IType, TypeOK
  <2>3. ASSUME e.result = "OK" PROVE buffer = whole
    <3>1. Verifies(buffer, e.sender.key) /\ e.sender.used
      BY <2>2, <2>3, EvaluateOK, Zenon
    <3>2. Order'
      BY OrderNext
    <3> HIDE DEF e
    <3>3. e.sender.key \in Key
      BY <2>1, <3>1, <3>2 DEF Order
    <3> QED
      BY <2>2, <3>1, <3>3, VerifiedIsWhole DEF Provenance
  <2> HIDE DEF e
  <2> QED
    BY <2>1, <2>3 DEF Provenance, ExecutedAsSent
<1>5. CASE Stop
  BY <1>5 DEF Stop, Provenance, ExecutedAsSent
<1> QED
  BY <1>1, <1>2, <1>3, <1>4, <1>5
  DEF Next, Serve, WriteBroken, Crash, Accept, ReadNothing, Write, Close, Restart,
      SetClock, Connect, SendSome, Send, Leave, Finish, vars, serverVars, clientVars, history

(* Nothing put together from two packets is ever executed. *)
THEOREM AsSent == Spec => []ExecutedAsSent
<1>1. Spec => [](IType /\ Order /\ Provenance)
  BY TypeInit, TypeNext, OrderInit, OrderNext, ProvenanceInit, ProvenanceNext, PTL DEF Spec
<1> QED
  BY <1>1, PTL DEF Provenance

-----------------------------------------------------------------------------
(* The execution not yet acknowledged is that of the packet in the buffer. *)
Acknowledged ==
  /\ EveryExecutionAcknowledged
  /\ pc = "write" /\ result = "OK" =>
       executed # <<>> /\ executed[Len(executed)].seq = buffer.seq

LEMMA AcknowledgedInit == Init => Acknowledged
  BY DEF Init, Acknowledged, EveryExecutionAcknowledged

LEMMA AcknowledgedNext == IType /\ Acknowledged /\ [Next]_vars => Acknowledged'
<1> SUFFICES ASSUME IType, Acknowledged, [Next]_vars PROVE Acknowledged'
  OBVIOUS
<1> USE DEF Acknowledged, EveryExecutionAcknowledged
<1>1. CASE UNCHANGED <<pc, result, buffer, told, executed>>
  BY <1>1
<1>2. CASE pc # "write" /\ pc' # "write" /\ UNCHANGED <<told, executed>>
  BY <1>2
<1>3. CASE EvaluatePacket
  <2> DEFINE e == Evaluate(buffer, sender, FALSE, clock)
  <2>1. /\ result' = e.result
        /\ executed' = IF e.result = "OK" THEN Append(executed, buffer) ELSE executed
        /\ pc = "evaluate" /\ pc' = "write" /\ UNCHANGED <<buffer, told>>
    BY <1>3, Zenon DEF EvaluatePacket
  <2> HIDE DEF e
  <2>2. told \in Seq(Nat) /\ executed \in Seq(PacketType) /\ buffer \in PacketType
    BY DEF IType, TypeOK
  <2>3. CASE e.result = "OK"
    BY <2>1, <2>2, <2>3
  <2>4. CASE e.result # "OK"
    BY <2>1, <2>2, <2>4
  <2> QED
    BY <2>3, <2>4
<1>4. CASE Write
  <2>1. told \in Seq(Nat) /\ executed \in Seq(PacketType) /\ buffer.seq \in Nat
    BY DEF IType, TypeOK, PacketType
  <2>2. CASE result = "OK"
    BY <1>4, <2>1, <2>2 DEF Write
  <2>3. CASE result # "OK"
    BY <1>4, <2>1, <2>3 DEF Write
  <2> QED
    BY <2>2, <2>3
<1>5. CASE Stop
  BY <1>5 DEF Stop
<1> QED
  BY <1>1, <1>2, <1>3, <1>4, <1>5
  DEF Next, Serve, WriteBroken, Crash, Accept, Read, ReadNothing, Close, Restart,
      SetClock, Connect, SendSome, Send, Leave, Finish, vars, serverVars, clientVars, history

(* A server that goes on has acknowledged all it executed, in order.       *)
THEOREM AllAcknowledged == Spec => []EveryExecutionAcknowledged
<1>1. Spec => [](IType /\ Acknowledged)
  BY TypeInit, TypeNext, AcknowledgedInit, AcknowledgedNext, PTL DEF Spec
<1> QED
  BY <1>1, PTL DEF Acknowledged

-----------------------------------------------------------------------------
IInv == IType /\ Order /\ Provenance /\ Acknowledged

(* The inductive invariant of the server and its clients. *)
LEMMA Inductive == Spec => []IInv
  BY TypeInit, TypeNext, OrderInit, OrderNext, ProvenanceInit, ProvenanceNext,
     AcknowledgedInit, AcknowledgedNext, PTL DEF Spec, IInv

(* The only steps that touch the sender record are the end of the process  *)
(* and the evaluation of the buffer, whose answer decides what is written. *)
LEMMA SenderStep ==
  ASSUME IInv, [Next]_vars
  PROVE  \/ UNCHANGED <<sender, executed>>
         \/ pc' = "down" /\ sender' = UnusedSender /\ executed' = <<>>
         \/ /\ ~sender.used
            /\ sender' = [used |-> TRUE, key |-> buffer.key, last |-> 0]
            /\ executed' = executed
         \/ /\ buffer \in Packets
            /\ executed' = Append(executed, buffer)
            /\ sender'.used
            /\ sender'.last = buffer.seq
            /\ sender'.key = IF sender.used THEN sender.key ELSE buffer.key
            /\ buffer.seq = sender.last + 1
            /\ Verifies(buffer, sender'.key)
<1>1. CASE EvaluatePacket
  <2> DEFINE e == Evaluate(buffer, sender, FALSE, clock)
  <2>1. /\ sender' = e.sender
        /\ executed' = IF e.result = "OK" THEN Append(executed, buffer) ELSE executed
    BY <1>1, Zenon DEF EvaluatePacket
  <2>2. buffer \in PacketType /\ sender \in SenderRecord /\ clock \in Nat
    BY ExecutiveAssumption DEF IInv, IType, TypeOK
  <2>3. CASE e.result = "OK"
    <3>1. /\ e.sender.used
          /\ e.sender.last = buffer.seq
          /\ buffer.seq = (IF sender.used THEN sender.last ELSE 0) + 1
          /\ e.sender.key = IF sender.used THEN sender.key ELSE buffer.key
          /\ Verifies(buffer, e.sender.key)
      BY <2>2, <2>3, EvaluateOK, Zenon
    <3> HIDE DEF e
    <3>2. buffer.seq = sender.last + 1
      BY <3>1 DEF IInv, Order
    <3>3. e.sender.key \in Key
      BY <2>2, <3>1 DEF IInv, Order, PacketType
    <3>4. buffer \in Packets
      BY <2>2, <3>1, <3>3, VerifiedIsWhole DEF IInv, Provenance
    <3> QED
      BY <2>1, <2>3, <3>1, <3>2, <3>4
  <2>4. CASE e.result # "OK"
    <3>1. \/ e.sender = sender
          \/ ~sender.used /\ e.sender = [used |-> TRUE, key |-> buffer.key, last |-> 0]
      BY <2>2, <2>4, EvaluateRejected, Zenon
    <3> HIDE DEF e
    <3> QED
      BY <2>1, <2>4, <3>1
  <2> QED
    BY <2>3, <2>4
<1>2. CASE Stop
  BY <1>2 DEF Stop
<1> QED
  BY <1>1, <1>2
  DEF Next, Serve, WriteBroken, Crash, Accept, Read, ReadNothing, Write, Close, Restart,
      SetClock, Connect, SendSome, Send, Leave, Finish, vars, serverVars, clientVars, history

(* No step of a running server replaces the enrolled key or turns its      *)
(* counter back or moves it by more than one.                              *)
THEOREM Pinned == Spec => SenderPinned
<1>1. IInv /\ [Next]_vars =>
        [pc' # "down" /\ sender.used =>
           /\ sender'.used
           /\ sender'.key = sender.key
           /\ sender'.last \in {sender.last, sender.last + 1}]_vars
  BY SenderStep, Zenon
<1> QED
  BY <1>1, Inductive, PTL DEF Spec, SenderPinned

-----------------------------------------------------------------------------
(* The refinement: the history as the abstract gate sees it. *)
LEMMA GateInit == Init => Gate!Init
  BY DEF Init, Gate!Init, EnrolledKeys, ExecutedCommands, UnusedSender

(* The history names the record's key and counts up to its counter. *)
LEMMA SignedByKey ==
  ASSUME IInv, NEW i \in 1 .. Len(executed)
  PROVE  executed[i].seq = i /\ executed[i].sig.by = sender.key
<1>1. executed[i].seq = i /\ Verifies(executed[i], sender.key)
  BY DEF IInv, Order, ExecutedInOrder
<1>2. executed[i].sig = [by |-> sender.key, over |-> Envelope(executed[i])]
  BY <1>1, Zenon DEF Verifies
<1> QED
  BY <1>1, <1>2

LEMMA OneKeyFits ==
  ASSUME NEW k
  PROVE  Gate!Fit({k})
<1>1. [x \in {k} |-> 1] \in [{k} -> 1 .. 1]
  OBVIOUS
<1> QED
  BY <1>1 DEF Gate!Fit

LEMMA GateStep == IInv /\ [Next]_vars => [Gate!Next]_(Gate!vars)
<1> SUFFICES ASSUME IInv, [Next]_vars
             PROVE  [Gate!Next]_(Gate!vars)
  OBVIOUS
<1>1. /\ sender \in SenderRecord /\ buffer \in PacketType /\ executed \in Seq(PacketType)
      /\ sender.used => sender.key \in Key
      /\ ~sender.used => sender.last = 0
      /\ Len(executed) = sender.last
  BY DEF IInv, IType, TypeOK, Order, ExecutedInOrder
<1>2. CASE UNCHANGED <<sender, executed>>
  BY <1>2 DEF Gate!vars, EnrolledKeys, ExecutedCommands
<1>3. CASE pc' = "down" /\ sender' = UnusedSender /\ executed' = <<>>
  <2>1. EnrolledKeys' = {}
    BY <1>3 DEF EnrolledKeys, UnusedSender
  <2>2. ExecutedCommands' = <<>>
    BY <1>3 DEF ExecutedCommands
  <2> QED
    BY <2>1, <2>2 DEF Gate!Next, Gate!Forget
<1>4. CASE /\ ~sender.used
           /\ sender' = [used |-> TRUE, key |-> buffer.key, last |-> 0]
           /\ executed' = executed
  <2>1. buffer.key \in Key
    BY <1>1 DEF PacketType
  <2>2. EnrolledKeys = {} /\ EnrolledKeys' = {buffer.key}
    BY <1>4 DEF EnrolledKeys
  <2>3. UNCHANGED ExecutedCommands
    BY <1>4 DEF ExecutedCommands
  <2>4. Gate!Enrol(buffer.key)
    BY <2>2, <2>3, OneKeyFits DEF Gate!Enrol
  <2> QED
    BY <2>1, <2>4 DEF Gate!Next
<1>5. CASE /\ buffer \in Packets
           /\ executed' = Append(executed, buffer)
           /\ sender'.used
           /\ sender'.last = buffer.seq
           /\ sender'.key = IF sender.used THEN sender.key ELSE buffer.key
           /\ buffer.seq = sender.last + 1
           /\ Verifies(buffer, sender'.key)
  <2> PICK key, n : key = sender'.key /\ n = buffer.seq
    OBVIOUS
  <2>1. key \in Key /\ n \in {p.seq : p \in Packets} /\ n \in Nat /\ n > 0
    BY <1>1, <1>5 DEF PacketType, SenderRecord
  <2>2. EnrolledKeys \cup {key} = {key} /\ EnrolledKeys' = {key}
    BY <1>5 DEF EnrolledKeys
  <2>3. /\ DOMAIN ExecutedCommands = 1 .. (n - 1)
        /\ Len(ExecutedCommands) = n - 1
    BY <1>1, <1>5, <2>1 DEF ExecutedCommands
  <2>4. ASSUME NEW i \in 1 .. (n - 1)
        PROVE  ExecutedCommands[i] = [key |-> key, seq |-> i]
    <3>1. sender.used /\ sender.key = key /\ i \in 1 .. Len(executed)
      BY <1>1, <1>5, <2>1
    <3>2. executed[i].seq = i /\ executed[i].sig.by = key
      BY <3>1, SignedByKey
    <3> QED
      BY <1>1, <3>1, <3>2 DEF ExecutedCommands
  <2>5. ExecutedCommands' = Append(ExecutedCommands, [key |-> key, seq |-> n])
    <3>1. buffer.sig.by = key /\ buffer.seq = n
      <4>1. buffer.sig = [by |-> key, over |-> Envelope(buffer)]
        BY <1>5, Zenon DEF Verifies
      <4> QED
        BY <4>1
    <3>2. /\ Len(executed) = n - 1
          /\ Len(executed') = n
          /\ \A i \in 1 .. (n - 1) : executed'[i] = executed[i]
          /\ executed'[n] = buffer
      BY <1>1, <1>5, <2>1
    <3>3. ExecutedCommands' =
            [i \in 1 .. n |-> IF i = n THEN [key |-> key, seq |-> n] ELSE ExecutedCommands[i]]
      BY <2>1, <3>1, <3>2 DEF ExecutedCommands
    <3> QED
      BY <2>1, <2>3, <3>3
  <2>6. Gate!Execute(key, n)
    <3>1. Gate!Fit(EnrolledKeys \cup {key}) /\ EnrolledKeys' = EnrolledKeys \cup {key}
      BY <2>2, OneKeyFits
    <3>2. ASSUME NEW i \in 1 .. Len(ExecutedCommands)
          PROVE  ExecutedCommands[i].seq < n
      <4>1. i \in 1 .. (n - 1) /\ i < n
        BY <2>1, <2>3
      <4>2. ExecutedCommands[i] = [key |-> key, seq |-> i]
        BY <4>1, <2>4, Zenon
      <4> QED
        BY <4>1, <4>2
    <3>3. ASSUME NEW m \in 1 .. (n - 1)
          PROVE  Gate!Done(key, m)
      <4>1. m \in 1 .. Len(ExecutedCommands) /\ ExecutedCommands[m] = [key |-> key, seq |-> m]
        BY <2>3, <2>4
      <4> QED
        BY <4>1, Zenon DEF Gate!Done
    <3> QED
      BY <2>1, <2>5, <3>1, <3>2, <3>3, Zenon DEF Gate!Execute
  <2> QED
    BY <2>1, <2>6 DEF Gate!Next
<1> QED
  BY <1>2, <1>3, <1>4, <1>5, SenderStep

(* gate0-exec, with all its clients and crashes, implements the abstract   *)
(* gate: one key, commands 1, 2, 3, ... and nothing kept over a restart.   *)
THEOREM Implements == Spec => ImplementsGate
  BY Inductive, GateInit, GateStep, PTL DEF Spec, ImplementsGate, Gate!Spec
=============================================================================
