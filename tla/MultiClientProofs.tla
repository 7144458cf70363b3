-------------------------- MODULE MultiClientProofs --------------------------
(***************************************************************************)
(* Theorems about the multi-client evaluator for every set of keys and     *)
(* packets, every length of the table and any clock: no sender ever has    *)
(* two records, none disturbs another's, each one's commands only rise.    *)
(***************************************************************************)
EXTENDS MultiClient, FiniteSetTheorems, WellFoundedInduction, TLAPS

(* The scans stop at the first slot that fits: Min is defined, since among *)
(* the intervals up to the members of a set one is contained in no other.  *)
LEMMA FirstOf ==
  ASSUME NEW S, S \subseteq Nat, S # {}
  PROVE  Min(S) \in S /\ \A i \in S : Min(S) <= i
<1> DEFINE T == {1 .. n : n \in S}
<1>1. T \subseteq FiniteSubsetsOf(Nat) /\ T # {}
  <2>1. ASSUME NEW n \in S PROVE 1 .. n \in SUBSET Nat /\ IsFiniteSet(1 .. n)
    BY FS_Interval
  <2> QED
    BY <2>1 DEF FiniteSubsetsOf
<1>2. PICK t \in T : \A u \in T : ~ (<<u, t>> \in StrictSubsetOrdering(Nat))
  BY <1>1, FS_StrictSubsetOrderingWellFounded, WFMin, Zenon
<1>3. PICK m \in S : t = 1 .. m
  OBVIOUS
<1>4. ASSUME NEW i \in S, i < m PROVE FALSE
  <2>1. 1 .. i \in T /\ 1 .. i \subseteq 1 .. m /\ m \in 1 .. m /\ m \notin 1 .. i
    BY <1>4
  <2>2. <<1 .. i, 1 .. m>> \in StrictSubsetOrdering(Nat)
    BY <2>1 DEF StrictSubsetOrdering
  <2> QED
    BY <1>2, <1>3, <2>1, <2>2
<1>5. \A i \in S : m <= i
  BY <1>4
<1> QED
  BY <1>5 DEF Min

-----------------------------------------------------------------------------
(* A call finds the sender's own record, or the first free one when there  *)
(* is none.                                                                *)
LEMMA FoundSlot ==
  ASSUME NEW p, SlotFor(p) # 0
  PROVE  /\ SlotFor(p) \in Slots
         /\ \/ senders[SlotFor(p)].used /\ senders[SlotFor(p)].key = p.pubkey
            \/ /\ ~senders[SlotFor(p)].used
               /\ \A j \in Slots : senders[j].used => senders[j].key # p.pubkey
               /\ \A j \in Slots : j < SlotFor(p) => senders[j].used
<1>1. Matching(p) \subseteq Nat /\ FreeSlots \subseteq Nat
  BY DEF Matching, FreeSlots, Slots
<1>2. CASE Matching(p) # {}
  <2>1. SlotFor(p) = Min(Matching(p)) /\ Min(Matching(p)) \in Matching(p)
    BY <1>1, <1>2, FirstOf DEF SlotFor
  <2> QED
    BY <2>1 DEF Matching
<1>3. CASE Matching(p) = {} /\ FreeSlots # {}
  <2>1. SlotFor(p) = Min(FreeSlots)
    BY <1>3 DEF SlotFor
  <2>2. SlotFor(p) \in FreeSlots /\ \A j \in FreeSlots : SlotFor(p) <= j
    BY <1>1, <1>3, <2>1, FirstOf
  <2> QED
    BY <1>3, <2>2 DEF Matching, FreeSlots, Slots
<1> QED
  BY <1>2, <1>3 DEF SlotFor

(* What an evaluation does: it settles on the sender's record or a new one *)
(* for it, and may count and execute a higher number signed by the sender. *)
Settled(p, i, s) ==
  \/ senders[i].used /\ senders[i].key = p.pubkey /\ s = senders[i]
  \/ /\ ~senders[i].used
     /\ \A j \in Slots : senders[j].used => senders[j].key # p.pubkey
     /\ \A j \in Slots : j < i => senders[j].used
     /\ s = [used |-> TRUE, key |-> p.pubkey, last |-> 0]

Answered(p, s, t) ==
  \/ t = s /\ executed' = executed
  \/ /\ p.seq > s.last /\ t.last = p.seq
     /\ Verifies(p, p.pubkey)
     /\ executed' = Append(executed, p)

LEMMA CheckedCommand ==
  ASSUME NEW p \in PacketType, NEW s \in SenderRecord, NEW now \in Nat
  PROVE  /\ CheckCommand(p, s, now) \in {"OK", "SIGNATURE_INVALID", "EXPIRED", "SEQUENCE_INVALID"}
         /\ CheckCommand(p, s, now) = "OK" => p.seq > s.last /\ Verifies(p, s.key)
BY DEF CheckCommand, PacketType, SenderRecord

LEMMA EvaluateStep ==
  ASSUME TypeOK, NEW p \in Packets, NEW now \in Times, Evaluate(p, now)
  PROVE  /\ ~interlocked /\ interlocked' = interlocked
         /\ result' \in {"OK", "SIGNATURE_INVALID", "EXPIRED", "SEQUENCE_INVALID"}
         /\ \E i \in Slots, s \in SenderRecord, t \in SenderRecord :
              /\ Settled(p, i, s)
              /\ t.used /\ t.key = p.pubkey
              /\ Answered(p, s, t)
              /\ senders' = [senders EXCEPT ![i] = t]
<1> DEFINE i == SlotFor(p)
           s == IF senders[i].used THEN senders[i]
                ELSE [used |-> TRUE, key |-> p.pubkey, last |-> 0]
           r == CheckCommand(p, s, now)
<1>1. /\ ~interlocked /\ interlocked' = interlocked
      /\ i # 0
      /\ result' = r
      /\ senders' = [senders EXCEPT ![i] = IF r = "OK" THEN [s EXCEPT !.last = p.seq] ELSE s]
      /\ executed' = IF r = "OK" THEN Append(executed, p) ELSE executed
  BY Zenon DEF Evaluate
<1>2. p \in PacketType /\ p.pubkey \in Key /\ now \in Nat
  BY MultiClientAssumption DEF PacketType
<1>3. i \in Slots /\ s \in SenderRecord /\ Settled(p, i, s)
  BY <1>1, <1>2, FoundSlot DEF TypeOK, SenderRecord, Settled
<1>4. s.used /\ s.key = p.pubkey
  BY <1>3 DEF Settled
<1>5. /\ r \in {"OK", "SIGNATURE_INVALID", "EXPIRED", "SEQUENCE_INVALID"}
      /\ r = "OK" => p.seq > s.last /\ Verifies(p, s.key)
  BY <1>2, <1>3, CheckedCommand
<1> HIDE DEF i, s, r
<1>6. CASE r = "OK"
  <2> DEFINE t == [s EXCEPT !.last = p.seq]
  <2>1. t \in SenderRecord /\ t.used /\ t.key = p.pubkey /\ t.last = p.seq
    BY <1>2, <1>3, <1>4 DEF SenderRecord, PacketType
  <2>2. Answered(p, s, t) /\ senders' = [senders EXCEPT ![i] = t]
    BY <1>1, <1>4, <1>5, <1>6, <2>1 DEF Answered
  <2> QED
    BY <1>1, <1>3, <1>5, <2>1, <2>2
<1>7. CASE r # "OK"
  <2>1. Answered(p, s, s) /\ senders' = [senders EXCEPT ![i] = s]
    BY <1>1, <1>7 DEF Answered
  <2> QED
    BY <1>1, <1>3, <1>4, <1>5, <2>1
<1> QED
  BY <1>6, <1>7

-----------------------------------------------------------------------------
IInv == TypeOK /\ OneRecordPerKey /\ ExecutedRising

LEMMA InvariantInit == Init => IInv
<1> SUFFICES ASSUME Init PROVE IInv
  OBVIOUS
<1>1. senders \in [Slots -> SenderRecord] /\ \A i \in Slots : ~senders[i].used /\ senders[i].key = NoKey
  BY DEF Init, SenderRecord
<1>2. executed \in Seq(Packets) /\ Len(executed) = 0
  BY DEF Init
<1>3. TypeOK
  BY <1>1, <1>2 DEF Init, TypeOK
<1>4. OneRecordPerKey
  BY <1>1 DEF OneRecordPerKey
<1>5. ExecutedRising
  BY <1>2 DEF ExecutedRising
<1> QED
  BY <1>3, <1>4, <1>5 DEF IInv

(* A new record takes the next slot of the prefix in use, for a key that   *)
(* has none.                                                               *)
LEMMA KeepsOneRecord ==
  ASSUME IInv, NEW p \in Packets, NEW i \in Slots, NEW s, NEW t \in SenderRecord,
         Settled(p, i, s), t.used, t.key = p.pubkey,
         senders' = [senders EXCEPT ![i] = t]
  PROVE  OneRecordPerKey'
<1>1. p.pubkey \in Key /\ p.pubkey # NoKey
  BY MultiClientAssumption DEF PacketType
<1>2. /\ senders'[i] = t
      /\ \A j \in Slots : j # i => senders'[j] = senders[j]
  BY DEF IInv, TypeOK
<1>3. ASSUME NEW j \in Slots PROVE senders'[j].used <=> senders'[j].key # NoKey
  BY <1>1, <1>2 DEF IInv, OneRecordPerKey
<1>4. ASSUME NEW j \in Slots, NEW k \in Slots, j < k, senders'[k].used
      PROVE  senders'[j].used /\ senders'[j].key # senders'[k].key
  <2>1. CASE j # i /\ k # i
    BY <1>2, <1>4, <2>1 DEF IInv, OneRecordPerKey
  <2>2. CASE j = i
    <3>1. k # i /\ senders[k].used
      BY <1>2, <1>4, <2>2 DEF Slots
    <3>2. senders[i].used /\ senders[i].key # senders[k].key
      BY <1>4, <2>2, <3>1 DEF IInv, OneRecordPerKey
    <3> QED
      BY <1>2, <2>2, <3>1, <3>2 DEF Settled
  <2>3. CASE k = i
    <3>1. j # i /\ senders'[j] = senders[j]
      BY <1>2, <1>4, <2>3 DEF Slots
    <3>2. CASE senders[i].used
      BY <1>2, <1>4, <2>3, <3>1, <3>2 DEF IInv, OneRecordPerKey, Settled
    <3>3. CASE ~senders[i].used
      BY <1>2, <1>4, <2>3, <3>1, <3>3 DEF Settled
    <3> QED
      BY <3>2, <3>3
  <2> QED
    BY <2>1, <2>2, <2>3
<1> QED
  BY <1>3, <1>4 DEF OneRecordPerKey, Slots

(* What the sender executed so far lies below the number in the record     *)
(* that a call settles on.                                                 *)
LEMMA BelowTheRecord ==
  ASSUME IInv, NEW p \in Packets, NEW i \in Slots, NEW s \in SenderRecord,
         Settled(p, i, s),
         NEW j \in 1 .. Len(executed), executed[j].pubkey = p.pubkey
  PROVE  executed[j].seq <= s.last
<1>1. p.pubkey # NoKey
  BY MultiClientAssumption DEF PacketType
<1>2. PICK k \in Slots : senders[k].key = p.pubkey /\ executed[j].seq <= senders[k].last
  BY DEF IInv, ExecutedRising
<1>3. senders[k].used
  BY <1>1, <1>2 DEF IInv, OneRecordPerKey
<1>4. senders[i].used /\ senders[i].key = p.pubkey /\ s = senders[i]
  BY <1>2, <1>3 DEF Settled
<1>5. ~(i < k) /\ ~(k < i)
  BY <1>2, <1>3, <1>4 DEF IInv, OneRecordPerKey
<1> QED
  BY <1>2, <1>4, <1>5 DEF Slots

(* A call adds at most one command, above all of its sender's.             *)
LEMMA KeepsRising ==
  ASSUME IInv, NEW p \in Packets, NEW i \in Slots,
         NEW s \in SenderRecord, NEW t \in SenderRecord,
         Settled(p, i, s), t.used, t.key = p.pubkey, Answered(p, s, t),
         senders' = [senders EXCEPT ![i] = t]
  PROVE  ExecutedRising'
<1>1. /\ executed \in Seq(Packets) /\ senders \in [Slots -> SenderRecord]
      /\ Packets \subseteq PacketType
      /\ senders'[i] = t
      /\ \A k \in Slots : k # i => senders'[k] = senders[k]
  BY MultiClientAssumption DEF IInv, TypeOK
<1>2. s.last <= t.last /\ s.last \in Nat /\ t.last \in Nat /\ p.seq \in Nat
  BY <1>1 DEF Answered, SenderRecord, PacketType
<1>3. ASSUME NEW j \in 1 .. Len(executed)
      PROVE  \E k \in Slots :
               senders'[k].key = executed[j].pubkey /\ executed[j].seq <= senders'[k].last
  <2>1. executed[j] \in PacketType /\ executed[j].pubkey # NoKey /\ executed[j].seq \in Nat
    BY <1>1, MultiClientAssumption DEF PacketType
  <2>2. PICK k \in Slots : senders[k].key = executed[j].pubkey /\ executed[j].seq <= senders[k].last
    BY DEF IInv, ExecutedRising
  <2>3. CASE k = i
    <3>1. senders[i].used /\ executed[j].pubkey = p.pubkey
      BY <2>1, <2>2, <2>3 DEF IInv, OneRecordPerKey, Settled
    <3>2. executed[j].seq <= s.last
      BY <3>1, BelowTheRecord
    <3> QED
      BY <1>1, <1>2, <2>1, <3>1, <3>2
  <2>4. CASE k # i
    BY <1>1, <2>2, <2>4
  <2> QED
    BY <2>3, <2>4
<1>4. CASE executed' = executed
  BY <1>3, <1>4 DEF IInv, ExecutedRising
<1>5. CASE /\ p.seq > s.last /\ t.last = p.seq
           /\ Verifies(p, p.pubkey)
           /\ executed' = Append(executed, p)
  <2>1. /\ Len(executed') = Len(executed) + 1
        /\ executed'[Len(executed) + 1] = p
        /\ \A j \in 1 .. Len(executed) : executed'[j] = executed[j]
    BY <1>1, <1>5
  <2>2. ASSUME NEW j \in 1 .. Len(executed')
        PROVE  /\ Verifies(executed'[j], executed'[j].pubkey)
               /\ \E k \in Slots :
                    senders'[k].key = executed'[j].pubkey /\ executed'[j].seq <= senders'[k].last
               /\ \A m \in 1 .. (j - 1) :
                    executed'[m].pubkey = executed'[j].pubkey => executed'[m].seq < executed'[j].seq
    <3>1. CASE j \in 1 .. Len(executed)
      <4>1. executed'[j] = executed[j] /\ \A m \in 1 .. (j - 1) : executed'[m] = executed[m]
        BY <2>1, <3>1
      <4>2. \E k \in Slots :
              senders'[k].key = executed'[j].pubkey /\ executed'[j].seq <= senders'[k].last
        BY <1>3, <3>1, <4>1
      <4>3. /\ Verifies(executed[j], executed[j].pubkey)
            /\ \A m \in 1 .. (j - 1) :
                 executed[m].pubkey = executed[j].pubkey => executed[m].seq < executed[j].seq
        BY <3>1 DEF IInv, ExecutedRising
      <4> QED
        BY <4>1, <4>2, <4>3
    <3>2. CASE j = Len(executed) + 1
      <4>1. executed'[j] = p /\ p.seq <= t.last
        BY <1>2, <1>5, <2>1, <3>2
      <4>2. ASSUME NEW m \in 1 .. (j - 1), executed'[m].pubkey = p.pubkey
            PROVE  executed'[m].seq < p.seq
        <5>1. m \in 1 .. Len(executed) /\ executed'[m] = executed[m]
          BY <1>1, <2>1, <3>2
        <5>2. executed[m].seq <= s.last
          BY <4>2, <5>1, BelowTheRecord
        <5>3. executed[m].seq \in Nat
          BY <1>1, <5>1 DEF PacketType
        <5> QED
          BY <1>2, <1>5, <5>1, <5>2, <5>3
      <4> QED
        BY <1>1, <1>5, <4>1, <4>2
    <3> QED
      BY <1>1, <2>1, <3>1, <3>2
  <2> QED
    BY <2>2 DEF ExecutedRising
<1> QED
  BY <1>4, <1>5 DEF Answered

LEMMA InvariantNext == IInv /\ [Next]_vars => IInv'
<1> SUFFICES ASSUME IInv, [Next]_vars PROVE IInv'
  OBVIOUS
<1>1. ASSUME NEW p \in Packets, NEW now \in Times, Evaluate(p, now) PROVE IInv'
  <2>1. PICK i \in Slots, s \in SenderRecord, t \in SenderRecord :
          /\ Settled(p, i, s)
          /\ t.used /\ t.key = p.pubkey
          /\ Answered(p, s, t)
          /\ senders' = [senders EXCEPT ![i] = t]
    BY <1>1, EvaluateStep DEF IInv
  <2>2. /\ interlocked' = interlocked
        /\ result' \in {"OK", "SIGNATURE_INVALID", "EXPIRED", "SEQUENCE_INVALID"}
    BY <1>1, EvaluateStep DEF IInv
  <2>3. senders' \in [Slots -> SenderRecord] /\ executed' \in Seq(Packets)
    BY <2>1 DEF IInv, TypeOK, Answered
  <2>4. TypeOK'
    BY <2>2, <2>3 DEF IInv, TypeOK
  <2> QED
    BY <2>1, <2>4, KeepsOneRecord, KeepsRising DEF IInv
<1>2. ASSUME UNCHANGED <<senders, executed>>, TypeOK' PROVE IInv'
  BY <1>2 DEF IInv, OneRecordPerKey, ExecutedRising
<1>3. CASE Interlocked
  <2>1. TypeOK' /\ UNCHANGED <<senders, executed>>
    BY <1>3 DEF Interlocked, IInv, TypeOK
  <2> QED
    BY <1>2, <2>1
<1>4. ASSUME NEW p \in Packets, TableFull(p) PROVE IInv'
  <2>1. TypeOK' /\ UNCHANGED <<senders, executed>>
    BY <1>4 DEF TableFull, IInv, TypeOK
  <2> QED
    BY <1>2, <2>1
<1>5. ASSUME NEW b \in BOOLEAN, SetInterlock(b) PROVE IInv'
  <2>1. TypeOK' /\ UNCHANGED <<senders, executed>>
    BY <1>5 DEF SetInterlock, IInv, TypeOK
  <2> QED
    BY <1>2, <2>1
<1>6. CASE UNCHANGED vars
  <2>1. TypeOK' /\ UNCHANGED <<senders, executed>>
    BY <1>6 DEF vars, IInv, TypeOK
  <2> QED
    BY <1>2, <2>1
<1> QED
  BY <1>1, <1>3, <1>4, <1>5, <1>6 DEF Next

LEMMA Inductive == Spec => []IInv
  BY InvariantInit, InvariantNext, PTL DEF Spec
(* The table, the answers and the history only ever hold what they can.    *)
THEOREM TypeCorrect == Spec => []TypeOK
  BY Inductive, PTL DEF IInv

(* No key ever has two records, and the records in use are a prefix of the *)
(* table, for any number of senders that compete for it.                   *)
THEOREM OneRecord == Spec => []OneRecordPerKey
  BY Inductive, PTL DEF IInv

(* Every sender's commands execute under its own signature, in rising      *)
(* order, none above the number in its record.                             *)
THEOREM Rising == Spec => []ExecutedRising
  BY Inductive, PTL DEF IInv

(* No call takes a record from its sender, lowers a counter, or writes two *)
(* records.                                                                *)
THEOREM Isolated == Spec => SendersIsolated
<1>1. IInv /\ [Next]_vars =>
        [/\ \A i \in Slots : senders[i].used =>
               senders'[i].key = senders[i].key /\ senders'[i].last >= senders[i].last
         /\ \A i, j \in Slots : senders'[i] # senders[i] /\ senders'[j] # senders[j] => i = j
        ]_vars
  <2> SUFFICES ASSUME IInv, Next
               PROVE  /\ \A i \in Slots : senders[i].used =>
                           senders'[i].key = senders[i].key /\ senders'[i].last >= senders[i].last
                      /\ \A i, j \in Slots :
                           senders'[i] # senders[i] /\ senders'[j] # senders[j] => i = j
    OBVIOUS
  <2>1. ASSUME NEW p \in Packets, NEW now \in Times, Evaluate(p, now)
        PROVE  /\ \A i \in Slots : senders[i].used =>
                    senders'[i].key = senders[i].key /\ senders'[i].last >= senders[i].last
               /\ \A i, j \in Slots :
                    senders'[i] # senders[i] /\ senders'[j] # senders[j] => i = j
    <3>1. PICK i \in Slots, s \in SenderRecord, t \in SenderRecord :
            /\ Settled(p, i, s)
            /\ t.used /\ t.key = p.pubkey
            /\ Answered(p, s, t)
            /\ senders' = [senders EXCEPT ![i] = t]
      BY <2>1, EvaluateStep DEF IInv
    <3>2. s.last <= t.last
      BY <3>1, MultiClientAssumption DEF Answered, SenderRecord, PacketType
    <3>3. /\ senders'[i] = t
          /\ \A j \in Slots : j # i => senders'[j] = senders[j]
          /\ \A j \in Slots : senders[j].last \in Nat
      BY <3>1 DEF IInv, TypeOK, SenderRecord
    <3>4. senders[i].used => t.key = senders[i].key /\ t.last >= senders[i].last
      BY <3>1, <3>2, <3>3 DEF Settled, SenderRecord
    <3> QED
      BY <3>3, <3>4
  <2>2. CASE UNCHANGED senders
    BY <2>2 DEF IInv, TypeOK, SenderRecord
  <2> QED
    BY <2>1, <2>2 DEF Next, Interlocked, TableFull, SetInterlock
<1> QED
  BY <1>1, Inductive, PTL DEF Spec, SendersIsolated
-----------------------------------------------------------------------------
(* The refinement: the table as the abstract gate sees it. *)
LEMMA GateInit == Init => Gate!Init
  BY DEF Init, Gate!Init, EnrolledKeys, ExecutedCommands

(* Keys that have records in the table fit into as many slots as it has.   *)
LEMMA RecordsFit ==
  ASSUME NEW f \in [Slots -> SenderRecord]
  PROVE  Gate!Fit({f[i].key : i \in {j \in Slots : f[j].used}})
<1> DEFINE keys == {f[i].key : i \in {j \in Slots : f[j].used}}
           slot == [k \in keys |-> CHOOSE i \in Slots : f[i].key = k]
<1>1. ASSUME NEW k \in keys PROVE slot[k] \in Slots /\ f[slot[k]].key = k
  <2>1. \E i \in Slots : f[i].key = k
    OBVIOUS
  <2> QED
    BY <2>1
<1> HIDE DEF slot
<1>2. slot \in [keys -> 1 .. MaxSenders]
  BY <1>1 DEF slot, Slots
<1>3. \A a, b \in keys : slot[a] = slot[b] => a = b
  BY <1>1
<1> QED
  BY <1>2, <1>3, Zenon DEF Gate!Fit

(* A call leaves its sender enrolled, and the other senders as they were.  *)
LEMMA EnrolledAfter ==
  ASSUME TypeOK, NEW p \in Packets, NEW i \in Slots, NEW s, NEW t \in SenderRecord,
         Settled(p, i, s), t.used, t.key = p.pubkey,
         senders' = [senders EXCEPT ![i] = t]
  PROVE  /\ EnrolledKeys' = EnrolledKeys \cup {p.pubkey}
         /\ Gate!Fit(EnrolledKeys \cup {p.pubkey})
         /\ ~senders[i].used => p.pubkey \notin EnrolledKeys
<1>1. /\ senders' \in [Slots -> SenderRecord]
      /\ senders'[i] = t
      /\ \A j \in Slots : j # i => senders'[j] = senders[j]
  BY DEF TypeOK
<1>2. EnrolledKeys' = EnrolledKeys \cup {p.pubkey}
  <2>1. ASSUME NEW k \in EnrolledKeys' PROVE k \in EnrolledKeys \cup {p.pubkey}
    BY <1>1 DEF EnrolledKeys
  <2>2. p.pubkey \in EnrolledKeys'
    BY <1>1 DEF EnrolledKeys
  <2>3. ASSUME NEW k \in EnrolledKeys PROVE k \in EnrolledKeys'
    <3>1. PICK j \in Slots : senders[j].used /\ senders[j].key = k
      BY DEF EnrolledKeys
    <3>2. CASE j = i
      BY <2>2, <3>1, <3>2 DEF Settled
    <3>3. CASE j # i
      BY <1>1, <3>1, <3>3 DEF EnrolledKeys
    <3> QED
      BY <3>2, <3>3
  <2> QED
    BY <2>1, <2>2, <2>3
<1>3. Gate!Fit(EnrolledKeys')
  BY <1>1, RecordsFit DEF EnrolledKeys
<1>4. ~senders[i].used => p.pubkey \notin EnrolledKeys
  BY DEF Settled, EnrolledKeys
<1> QED
  BY <1>2, <1>3, <1>4

LEMMA GateStep == IInv /\ [Next]_vars => [Gate!Next]_(Gate!vars)
<1> SUFFICES ASSUME IInv, [Next]_vars
             PROVE  [Gate!Next]_(Gate!vars)
  OBVIOUS
<1>1. CASE UNCHANGED <<senders, executed>>
  BY <1>1 DEF Gate!vars, EnrolledKeys, ExecutedCommands
<1>2. ASSUME NEW p \in Packets, NEW now \in Times, Evaluate(p, now)
      PROVE  [Gate!Next]_(Gate!vars)
  <2>1. PICK i \in Slots, s \in SenderRecord, t \in SenderRecord :
          /\ Settled(p, i, s)
          /\ t.used /\ t.key = p.pubkey
          /\ Answered(p, s, t)
          /\ senders' = [senders EXCEPT ![i] = t]
    BY <1>2, EvaluateStep DEF IInv
  <2>2. /\ EnrolledKeys' = EnrolledKeys \cup {p.pubkey}
        /\ Gate!Fit(EnrolledKeys \cup {p.pubkey})
        /\ ~senders[i].used => p.pubkey \notin EnrolledKeys
    BY <2>1, EnrolledAfter DEF IInv
  <2> PICK key, n : key = p.pubkey /\ n = p.seq
    OBVIOUS
  <2>3. key \in Key /\ n \in {q.seq : q \in Packets} /\ n \in Nat /\ s.last \in Nat
    BY MultiClientAssumption DEF PacketType, SenderRecord
  <2>4. CASE executed' = executed /\ t = s
    <3>1. UNCHANGED ExecutedCommands
      BY <2>4 DEF ExecutedCommands
    <3>2. CASE senders[i].used
      <4>1. UNCHANGED EnrolledKeys
        BY <2>1, <2>2, <3>2 DEF Settled, EnrolledKeys
      <4> QED
        BY <3>1, <4>1 DEF Gate!vars
    <3>3. CASE ~senders[i].used
      <4>1. Gate!Enrol(key)
        BY <2>2, <3>1, <3>3 DEF Gate!Enrol
      <4> QED
        BY <2>3, <4>1 DEF Gate!Next
    <3> QED
      BY <3>2, <3>3
  <2>5. CASE p.seq > s.last /\ executed' = Append(executed, p)
    <3>1. n > 0 /\ executed \in Seq(Packets)
      BY <2>3, <2>5 DEF IInv, TypeOK
    <3>2. Len(ExecutedCommands) = Len(executed)
      BY <3>1 DEF ExecutedCommands
    <3>3. ExecutedCommands' = Append(ExecutedCommands, [key |-> key, seq |-> n])
      <4>1. /\ Len(executed') = Len(executed) + 1
            /\ executed'[Len(executed) + 1] = p
            /\ \A j \in 1 .. Len(executed) : executed'[j] = executed[j]
        BY <2>5, <3>1
      <4> QED
        BY <3>1, <4>1 DEF ExecutedCommands
    <3>4. ASSUME NEW j \in 1 .. Len(ExecutedCommands), ExecutedCommands[j].key = key
          PROVE  ExecutedCommands[j].seq < n
      <4>1. /\ j \in 1 .. Len(executed)
            /\ executed[j].pubkey = p.pubkey
            /\ ExecutedCommands[j].seq = executed[j].seq
        BY <3>2, <3>4 DEF ExecutedCommands
      <4>2. executed[j].seq <= s.last
        BY <2>1, <4>1, BelowTheRecord
      <4>3. executed[j].seq \in Nat
        BY <3>1, <4>1, MultiClientAssumption DEF PacketType
      <4> QED
        BY <2>3, <2>5, <4>1, <4>2, <4>3
    <3>5. Gate!Execute(key, n)
      BY <2>2, <3>1, <3>3, <3>4, Zenon DEF Gate!Execute
    <3> QED
      BY <2>3, <3>5 DEF Gate!Next
  <2> QED
    BY <2>1, <2>4, <2>5 DEF Answered
<1> QED
  BY <1>1, <1>2 DEF Next, Interlocked, TableFull, SetInterlock, vars

(* The table is a gate of as many keys as it has records: no key gets two, *)
(* and each one's numbers only rise.                                       *)
THEOREM Implements == Spec => ImplementsGate
  BY Inductive, GateInit, GateStep, PTL DEF Spec, ImplementsGate, Gate!Spec
=============================================================================
