---------------------------- MODULE PureCoreProofs ----------------------------
(***************************************************************************)
(* Theorems about the pure core evaluator for every set of keys, packets   *)
(* and node bits, every allowance for clock skew and any clock: what it    *)
(* executes is in order, within the authority granted, and for at least    *)
(* one node of the grant.                                                  *)
(***************************************************************************)
EXTENDS PureCore, TLAPS

Rejections == {"EXPIRED", "FUTURE_TIMESTAMP", "WRONG_NODE", "INSUFFICIENT_AUTHORITY",
               "SEQUENCE_REPLAY", "SEQUENCE_GAP", "BLOCKED_COMMAND", "INTERLOCK_UNSAFE"}

(* The checks answer OK only together, otherwise with the rejection of the *)
(* first group that fails.                                                 *)
LEMMA CheckedCommand ==
  ASSUME NEW p, NEW s, NEW now
  PROVE  /\ CheckCommand(p, s, now) \in Rejections \cup {"OK"}
         /\ CheckCommand(p, s, now) = "OK" =>
              CheckGrant(p, s) = "OK" /\ CheckSequence(p, s) = "OK" /\ CheckType(p) = "OK"
<1> DEFINE checks == <<CheckWindow(p, now), CheckGrant(p, s), CheckSequence(p, s), CheckType(p)>>
           failed == {i \in 1 .. 4 : checks[i] # "OK"}
           first  == CHOOSE i \in failed : \A j \in failed : i <= j
<1>1. \A i \in 1 .. 4 : checks[i] \in Rejections \cup {"OK"}
  BY DEF CheckWindow, CheckGrant, CheckSequence, CheckType, Rejections
<1>2. CheckCommand(p, s, now) = IF failed = {} THEN "OK" ELSE checks[first]
  BY Zenon DEF CheckCommand
<1>3. failed # {} => first \in failed
  <2>1. failed \subseteq 1 .. 4
    OBVIOUS
  <2> HIDE DEF failed
  <2> SUFFICES ASSUME failed # {} PROVE \E i \in failed : \A j \in failed : i <= j
    OBVIOUS
  <2>2. CASE 1 \in failed
    BY <2>1, <2>2
  <2>3. CASE 1 \notin failed /\ 2 \in failed
    BY <2>1, <2>3
  <2>4. CASE 1 \notin failed /\ 2 \notin failed /\ 3 \in failed
    BY <2>1, <2>4
  <2>5. CASE 1 \notin failed /\ 2 \notin failed /\ 3 \notin failed
    <3>1. \A i \in failed : i = 4
      BY <2>1, <2>5
    <3> QED
      BY <3>1
  <2> QED
    BY <2>2, <2>3, <2>4, <2>5
<1>4. failed # {} => first \in 1 .. 4 /\ checks[first] # "OK"
  BY <1>3, Zenon
<1>5. failed = {} => checks[2] = "OK" /\ checks[3] = "OK" /\ checks[4] = "OK"
  OBVIOUS
<1>6. checks[2] = CheckGrant(p, s) /\ checks[3] = CheckSequence(p, s) /\ checks[4] = CheckType(p)
  OBVIOUS
<1> HIDE DEF checks, failed, first
<1> QED
  BY <1>1, <1>2, <1>4, <1>5, <1>6, Zenon

-----------------------------------------------------------------------------
(* The record a packet is checked against: its sender's own, or the one it *)
(* enrols.                                                                 *)
Known(p, s) == \/ sender.used /\ sender.key = p.pubkey /\ s = sender
               \/ ~sender.used /\ p.seq = 1 /\ s = EnrolledBy(p)

(* The next number, for a node and at a level of the grant, of a type that *)
(* the interlocks let through.                                             *)
Granted(p, s) == /\ p.seq = s.last + 1
                 /\ p.level <= s.level
                 /\ p.nodes \cap s.nodes # {}
                 /\ p.type \notin 240 .. 247
                 /\ unsafe => p.type = SafeState

LEMMA GrantedWhenOK ==
  ASSUME NEW p \in PacketType, NEW s \in SenderRecord, NEW now, CheckCommand(p, s, now) = "OK"
  PROVE  Granted(p, s)
<1>1. CheckGrant(p, s) = "OK" /\ CheckSequence(p, s) = "OK" /\ CheckType(p) = "OK"
  BY CheckedCommand, Zenon
<1>2. p.nodes \cap s.nodes # {} /\ p.level <= s.level
  BY <1>1 DEF CheckGrant, PacketType, SenderRecord
<1>3. p.seq = s.last + 1
  BY <1>1 DEF CheckSequence, PacketType, SenderRecord
<1>4. p.type \notin 240 .. 247 /\ (unsafe => p.type = SafeState)
  BY <1>1 DEF CheckType, is_blocked_command, PacketType, Byte
<1> QED
  BY <1>2, <1>3, <1>4 DEF Granted

LEMMA EvaluateStep ==
  ASSUME TypeOK, NEW p \in Packets, NEW now \in Times, Evaluate(p, now)
  PROVE  /\ unsafe' = unsafe
         /\ result' \in Rejections \cup {"OK"}
         /\ \E s \in SenderRecord :
              /\ Known(p, s) /\ s.used /\ s.key = p.pubkey
              /\ \/ sender' = s /\ executed' = executed
                 \/ /\ Granted(p, s)
                    /\ sender' = [s EXCEPT !.last = p.seq]
                    /\ executed' = Append(executed, p)
<1> DEFINE s == IF sender.used THEN sender ELSE EnrolledBy(p)
           r == CheckCommand(p, s, now)
<1>1. /\ IF sender.used THEN sender.key = p.pubkey ELSE p.seq = 1
      /\ unsafe' = unsafe
      /\ result' = r
      /\ sender' = IF r = "OK" THEN [s EXCEPT !.last = p.seq] ELSE s
      /\ executed' = IF r = "OK" THEN Append(executed, p) ELSE executed
  BY Zenon DEF Evaluate
<1>2. p \in PacketType
  BY PureCoreAssumption
<1>3. s \in SenderRecord /\ Known(p, s)
  BY <1>1, <1>2 DEF TypeOK, Known, EnrolledBy, SenderRecord, PacketType
<1>4. s.used /\ s.key = p.pubkey
  BY <1>3 DEF Known, EnrolledBy
<1>5. r \in Rejections \cup {"OK"} /\ (r = "OK" => Granted(p, s))
  BY <1>2, <1>3, CheckedCommand, GrantedWhenOK
<1> HIDE DEF s, r
<1> QED
  BY <1>1, <1>3, <1>4, <1>5

-----------------------------------------------------------------------------
IInv == /\ TypeOK
        /\ ~sender.used => sender.last = 0
        /\ ExecutedOverlapsGrant

LEMMA InvariantInit == Init => IInv
<1> SUFFICES ASSUME Init PROVE IInv
  OBVIOUS
<1>1. sender \in SenderRecord /\ ~sender.used /\ sender.last = 0
  BY DEF Init, SenderRecord
<1>2. executed \in Seq(Packets) /\ Len(executed) = 0
  BY DEF Init
<1>3. TypeOK
  BY <1>1, <1>2 DEF Init, TypeOK
<1>4. ExecutedOverlapsGrant
  BY <1>1, <1>2 DEF ExecutedOverlapsGrant
<1> QED
  BY <1>1, <1>3, <1>4 DEF IInv

(* A command executed is one more of the record's key, and overlaps its    *)
(* grant.                                                                  *)
LEMMA KeepsOverlap ==
  ASSUME IInv, NEW p \in Packets, NEW s \in SenderRecord, Known(p, s), s.key = p.pubkey,
         Granted(p, s),
         sender' = [s EXCEPT !.last = p.seq],
         executed' = Append(executed, p)
  PROVE  ExecutedOverlapsGrant' /\ sender' \in SenderRecord /\ executed' \in Seq(Packets)
<1>1. /\ executed \in Seq(Packets) /\ p \in PacketType
      /\ p.seq \in Nat /\ s.last \in Nat
  BY PureCoreAssumption DEF IInv, TypeOK, PacketType, SenderRecord
<1>2. s.last = sender.last /\ Len(executed) = sender.last
  BY DEF IInv, Known, EnrolledBy, ExecutedOverlapsGrant
<1>3. /\ sender' \in SenderRecord
      /\ sender'.last = p.seq /\ sender'.key = s.key
      /\ sender'.level = s.level /\ sender'.nodes = s.nodes
  BY <1>1 DEF SenderRecord
<1>4. /\ executed' \in Seq(Packets)
      /\ Len(executed') = Len(executed) + 1
      /\ executed'[Len(executed) + 1] = p
      /\ \A j \in 1 .. Len(executed) : executed'[j] = executed[j]
  BY <1>1
<1>5. Len(executed') = sender'.last
  BY <1>1, <1>2, <1>3, <1>4 DEF Granted
<1>6. ASSUME NEW i \in 1 .. Len(executed')
      PROVE  /\ executed'[i].seq = i
             /\ executed'[i].pubkey = sender'.key
             /\ executed'[i].level <= sender'.level
             /\ executed'[i].nodes \cap sender'.nodes # {}
             /\ executed'[i].type \notin 240 .. 247
  <2>1. CASE i = Len(executed) + 1
    BY <1>2, <1>3, <1>4, <2>1 DEF Granted
  <2>2. CASE i \in 1 .. Len(executed)
    <3>1. sender.used /\ s = sender
      BY <1>1, <1>2, <2>2 DEF IInv, Known
    <3> QED
      BY <1>3, <1>4, <2>2, <3>1 DEF IInv, ExecutedOverlapsGrant
  <2> QED
    BY <1>1, <1>4, <2>1, <2>2
<1> QED
  BY <1>3, <1>4, <1>5, <1>6 DEF ExecutedOverlapsGrant

LEMMA InvariantNext == IInv /\ [Next]_vars => IInv'
<1> SUFFICES ASSUME IInv, [Next]_vars PROVE IInv'
  OBVIOUS
<1>1. ASSUME NEW p \in Packets, NEW now \in Times, Evaluate(p, now) PROVE IInv'
  <2>1. PICK s \in SenderRecord :
          /\ Known(p, s) /\ s.used /\ s.key = p.pubkey
          /\ \/ sender' = s /\ executed' = executed
             \/ /\ Granted(p, s)
                /\ sender' = [s EXCEPT !.last = p.seq]
                /\ executed' = Append(executed, p)
    BY <1>1, EvaluateStep DEF IInv
  <2>2. unsafe' \in BOOLEAN
    BY <1>1, EvaluateStep DEF IInv, TypeOK
  <2>3. result' \in Rejections \cup {"OK"}
    BY <1>1, EvaluateStep DEF IInv
  <2>4. CASE sender' = s /\ executed' = executed
    <3>1. executed \in Seq(Packets) /\ TypeOK'
      BY <2>2, <2>3, <2>4 DEF IInv, TypeOK, Rejections
    <3>2. CASE s = sender
      BY <2>4, <3>1, <3>2 DEF IInv, ExecutedOverlapsGrant
    <3>3. CASE ~sender.used /\ s = EnrolledBy(p)
      <4>1. Len(executed) = 0 /\ s.last = 0
        BY <3>1, <3>3 DEF IInv, ExecutedOverlapsGrant, EnrolledBy
      <4> QED
        BY <2>1, <2>4, <3>1, <4>1 DEF IInv, ExecutedOverlapsGrant
    <3> QED
      BY <2>1, <3>2, <3>3 DEF Known
  <2>5. CASE /\ Granted(p, s)
             /\ sender' = [s EXCEPT !.last = p.seq]
             /\ executed' = Append(executed, p)
    <3>1. ExecutedOverlapsGrant' /\ sender' \in SenderRecord /\ executed' \in Seq(Packets)
      BY <2>1, <2>5, KeepsOverlap
    <3>2. sender'.used
      BY <2>1, <2>5 DEF SenderRecord
    <3>3. TypeOK'
      BY <2>2, <2>3, <3>1 DEF TypeOK, Rejections
    <3> QED
      BY <3>1, <3>2, <3>3 DEF IInv
  <2> QED
    BY <2>1, <2>4, <2>5
<1>2. ASSUME UNCHANGED <<sender, executed>>, TypeOK' PROVE IInv'
  BY <1>2 DEF IInv, ExecutedOverlapsGrant
<1>3. ASSUME NEW p \in Packets, BadSignature(p) \/ UnknownSender(p) PROVE IInv'
  <2>1. TypeOK' /\ UNCHANGED <<sender, executed>>
    BY <1>3 DEF BadSignature, UnknownSender, IInv, TypeOK
  <2> QED
    BY <1>2, <2>1
<1>4. ASSUME NEW b \in BOOLEAN, SetUnsafe(b) PROVE IInv'
  <2>1. TypeOK' /\ UNCHANGED <<sender, executed>>
    BY <1>4 DEF SetUnsafe, IInv, TypeOK
  <2> QED
    BY <1>2, <2>1
<1>5. CASE UNCHANGED vars
  <2>1. TypeOK' /\ UNCHANGED <<sender, executed>>
    BY <1>5 DEF vars, IInv, TypeOK
  <2> QED
    BY <1>2, <2>1
<1> QED
  BY <1>1, <1>3, <1>4, <1>5 DEF Next

LEMMA Inductive == Spec => []IInv
  BY InvariantInit, InvariantNext, PTL DEF Spec
(* The record, the answers and the history only ever hold what they can.   *)
THEOREM TypeCorrect == Spec => []TypeOK
  BY Inductive, PTL DEF IInv

(* Whatever is executed is the next number of the one sender, not above    *)
(* the authority granted to it, and shares a node with the grant.          *)
THEOREM OverlapsGrant == Spec => []ExecutedOverlapsGrant
  BY Inductive, PTL DEF IInv

(* A first packet for no node closes the gate for good.                    *)
THEOREM NoNodeNothing == Spec => []NoNodeClosesTheGate
<1>1. IInv => NoNodeClosesTheGate
  <2> SUFFICES ASSUME IInv, sender.nodes = {}, executed # <<>> PROVE FALSE
    BY DEF NoNodeClosesTheGate
  <2>1. 1 \in 1 .. Len(executed)
    BY DEF IInv, TypeOK
  <2>2. executed[1].nodes \cap sender.nodes # {}
    BY <2>1 DEF IInv, ExecutedOverlapsGrant
  <2> QED
    BY <2>2
<1> QED
  BY <1>1, Inductive, PTL

(* While an interlock is unsafe a step can only execute a command for the  *)
(* safe state.                                                             *)
THEOREM OnlySafeState == Spec => OnlySafeStateWhileUnsafe
<1>1. IInv /\ [Next]_vars =>
        [unsafe /\ executed' # executed => executed'[Len(executed')].type = SafeState]_vars
  <2> SUFFICES ASSUME IInv, Next, unsafe, executed' # executed
               PROVE  executed'[Len(executed')].type = SafeState
    OBVIOUS
  <2>1. PICK p \in Packets, now \in Times : Evaluate(p, now)
    BY DEF Next, BadSignature, UnknownSender, SetUnsafe
  <2>2. p.type = SafeState /\ executed' = Append(executed, p)
    BY <2>1, EvaluateStep DEF IInv, Granted
  <2> QED
    BY <2>2 DEF IInv, TypeOK
<1> QED
  BY <1>1, Inductive, PTL DEF Spec, OnlySafeStateWhileUnsafe

-----------------------------------------------------------------------------
(* The refinement: the evaluator as the abstract gate sees it. *)
LEMMA GateInit == Init => Gate!Init
  BY DEF Init, Gate!Init, EnrolledKeys, ExecutedCommands

(* A table of one record has room for any one key. *)
LEMMA OneKeyFits ==
  ASSUME NEW k
  PROVE  Gate!Fit({k})
<1>1. [x \in {k} |-> 1] \in [{k} -> 1 .. 1]
  OBVIOUS
<1> QED
  BY <1>1 DEF Gate!Fit

LEMMA GateStep == IInv /\ [Next]_vars => [Gate!Next]_(Gate!vars)
<1> SUFFICES ASSUME IInv, [Next]_vars
             PROVE  [Gate!Next]_(Gate!vars)
  OBVIOUS
<1>1. CASE UNCHANGED <<sender, executed>>
  BY <1>1 DEF Gate!vars, EnrolledKeys, ExecutedCommands
<1>2. ASSUME NEW p \in Packets, NEW now \in Times, Evaluate(p, now)
      PROVE  [Gate!Next]_(Gate!vars)
  <2>1. PICK s \in SenderRecord :
          /\ Known(p, s) /\ s.used /\ s.key = p.pubkey
          /\ \/ sender' = s /\ executed' = executed
             \/ /\ Granted(p, s)
                /\ sender' = [s EXCEPT !.last = p.seq]
                /\ executed' = Append(executed, p)
    BY <1>2, EvaluateStep DEF IInv
  <2> PICK key, n : key = p.pubkey /\ n = p.seq
    OBVIOUS
  <2>2. key \in Key /\ n \in {q.seq : q \in Packets} /\ n \in Nat
    BY PureCoreAssumption DEF PacketType
  <2>3. EnrolledKeys \cup {key} = {key} /\ EnrolledKeys' = {key}
    BY <2>1 DEF EnrolledKeys, Known, SenderRecord
  <2>4. Gate!Fit(EnrolledKeys \cup {key}) /\ EnrolledKeys' = EnrolledKeys \cup {key}
    BY <2>3, OneKeyFits
  <2>5. CASE sender' = s /\ executed' = executed
    <3>1. UNCHANGED ExecutedCommands
      BY <2>5 DEF ExecutedCommands
    <3>2. CASE s = sender
      BY <1>1, <2>5, <3>2
    <3>3. CASE ~sender.used
      <4>1. Gate!Enrol(key)
        BY <2>4, <3>1, <3>3 DEF Gate!Enrol, EnrolledKeys
      <4> QED
        BY <2>2, <4>1 DEF Gate!Next
    <3> QED
      BY <2>1, <3>2, <3>3 DEF Known
  <2>6. CASE Granted(p, s) /\ executed' = Append(executed, p)
    <3>1. /\ executed \in Seq(Packets)
          /\ n > 0 /\ Len(executed) = n - 1
      BY <2>1, <2>2, <2>6
      DEF IInv, TypeOK, Known, EnrolledBy, Granted, SenderRecord, ExecutedOverlapsGrant
    <3>2. Len(ExecutedCommands) = n - 1
      BY <2>2, <3>1 DEF ExecutedCommands
    <3>3. ASSUME NEW i \in 1 .. (n - 1)
          PROVE  ExecutedCommands[i] = [key |-> key, seq |-> i]
      <4>1. i \in 1 .. Len(executed) /\ sender.last # 0
        BY <2>2, <3>1 DEF IInv, ExecutedOverlapsGrant
      <4>2. sender.key = key
        BY <2>1, <4>1 DEF IInv, Known
      <4>3. executed[i].seq = i /\ executed[i].pubkey = key
        BY <4>1, <4>2 DEF IInv, ExecutedOverlapsGrant
      <4> QED
        BY <4>1, <4>3 DEF ExecutedCommands
    <3>4. ExecutedCommands' = Append(ExecutedCommands, [key |-> key, seq |-> n])
      <4>1. /\ Len(executed') = Len(executed) + 1
            /\ executed'[Len(executed) + 1] = p
            /\ \A j \in 1 .. Len(executed) : executed'[j] = executed[j]
        BY <2>6, <3>1
      <4> QED
        BY <3>1, <4>1 DEF ExecutedCommands
    <3>5. ASSUME NEW i \in 1 .. Len(ExecutedCommands)
          PROVE  ExecutedCommands[i].seq < n
      <4>1. i \in 1 .. (n - 1) /\ i < n
        BY <2>2, <3>2
      <4>2. ExecutedCommands[i] = [key |-> key, seq |-> i]
        BY <4>1, <3>3, Zenon
      <4> QED
        BY <4>1, <4>2
    <3>6. ASSUME NEW m \in 1 .. (n - 1)
          PROVE  Gate!Done(key, m)
      <4>1. m \in 1 .. Len(ExecutedCommands) /\ ExecutedCommands[m] = [key |-> key, seq |-> m]
        BY <3>2, <3>3
      <4> QED
        BY <4>1, Zenon DEF Gate!Done
    <3>7. Gate!Execute(key, n)
      BY <2>4, <3>1, <3>4, <3>5, <3>6, Zenon DEF Gate!Execute
    <3> QED
      BY <2>2, <3>7 DEF Gate!Next
  <2> QED
    BY <2>1, <2>5, <2>6
<1> QED
  BY <1>1, <1>2 DEF Next, BadSignature, UnknownSender, SetUnsafe, vars

(* The evaluator is a gapless gate of one key.                             *)
THEOREM Implements == Spec => ImplementsGate
  BY Inductive, GateInit, GateStep, PTL DEF Spec, ImplementsGate, Gate!Spec
=============================================================================
