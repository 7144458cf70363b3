------------------------------- MODULE LogsProofs -------------------------------
(***************************************************************************)
(* Theorems about what the gate writes down, for rings of every capacity,  *)
(* files of any length and any number of appends, torn writes, crashes and *)
(* restarts, and trees of every depth.                                     *)
(***************************************************************************)
EXTENDS Logs, SequenceTheorems, FiniteSetTheorems, WellFoundedInduction, TLAPS

-----------------------------------------------------------------------------
(* Remainders. *)
LEMMA Remainder ==
  ASSUME NEW n \in Nat, NEW c \in Nat \ {0}
  PROVE  /\ n % c \in 0 .. (c - 1)
         /\ n \div c \in Nat
         /\ n = c * (n \div c) + (n % c)
OBVIOUS

LEMMA TimesGrows ==
  ASSUME NEW c \in Nat, NEW a \in Nat, NEW b \in Nat, a < b
  PROVE  c * a + c <= c * b
<1>1. PICK d \in Nat : b = a + 1 + d
  <2>1. b - a - 1 \in Nat /\ b = a + 1 + (b - a - 1)
    OBVIOUS
  <2> QED
    BY <2>1
<1>2. c * b = c * a + c + c * d
  BY <1>1
<1>3. c * d \in Nat /\ c * a \in Nat /\ c * b \in Nat
  BY <1>1
<1> QED
  BY <1>2, <1>3

(* Numbers less than c apart have different remainders. *)
LEMMA Apart ==
  ASSUME NEW c \in Nat \ {0}, NEW a \in Nat, NEW b \in Nat, a < b, b < a + c
  PROVE  a % c # b % c
<1> DEFINE p == a \div c
           q == b \div c
<1>1. /\ p \in Nat /\ q \in Nat /\ a = c * p + (a % c) /\ b = c * q + (b % c)
      /\ a % c \in 0 .. (c - 1) /\ b % c \in 0 .. (c - 1)
  BY Remainder
<1> HIDE DEF p, q
<1>2. c * p \in Nat /\ c * q \in Nat
  BY <1>1
<1>3. CASE p < q
  <2>1. c * p + c <= c * q
    BY <1>1, <1>3, TimesGrows
  <2> QED
    BY <1>1, <1>2, <2>1
<1>4. CASE q < p
  <2>1. c * q + c <= c * p
    BY <1>1, <1>4, TimesGrows
  <2> QED
    BY <1>1, <1>2, <2>1
<1>5. CASE p = q
  BY <1>1, <1>2, <1>5
<1> QED
  BY <1>1, <1>3, <1>4, <1>5

-----------------------------------------------------------------------------
(* wal.c: the log in memory. *)
Place == 0 .. (WAL_CAPACITY - 1)

WalInv ==
  /\ g_wal_head \in Nat
  /\ g_wal_buffer = [i \in Place |-> g_wal_buffer[i]]
  /\ appended \in Seq([action : Action, timestamp : WalTime])
  /\ HoldsTheLatest
  /\ ChainUnbroken

LEMMA WalStarts == WalInit => WalInv
<1> SUFFICES ASSUME WalInit PROVE WalInv
  OBVIOUS
<1>1. g_wal_head = 0 /\ appended = <<>> /\ g_wal_buffer = EmptyBuffer
  BY DEF WalInit
<1>2. Held = {}
  BY <1>1, WalAssumption DEF Held
<1> QED
  BY <1>1, <1>2 DEF WalInv, HoldsTheLatest, ChainUnbroken, EmptyBuffer, Place

(* The record appended, field by field. *)
LEMMA AppendStores ==
  ASSUME NEW action, NEW t, wal_append(action, t), g_wal_buffer = [i \in Place |-> g_wal_buffer[i]],
         Slot \in Place
  PROVE  /\ g_wal_buffer' = [i \in Place |-> g_wal_buffer'[i]]
         /\ \A i \in Place : i # Slot => g_wal_buffer'[i] = g_wal_buffer[i]
         /\ g_wal_buffer'[Slot].sequence = g_wal_head
         /\ g_wal_buffer'[Slot].action = action
         /\ g_wal_buffer'[Slot].timestamp = t
         /\ g_wal_buffer'[Slot].prev_hash = g_latest_hash
         /\ g_wal_buffer'[Slot].entry_hash = g_latest_hash'
<1> DEFINE rec == [sequence |-> g_wal_head, timestamp |-> t, prev_hash |-> g_latest_hash,
                   entry_hash |-> g_wal_buffer[Slot].entry_hash, action |-> action]
           stored == [rec EXCEPT !.entry_hash = Hash(rec)]
<1>1. /\ g_wal_buffer' = [g_wal_buffer EXCEPT ![Slot] = stored]
      /\ g_latest_hash' = Hash(rec)
  BY DEF wal_append
<1>2. /\ stored.sequence = g_wal_head /\ stored.action = action /\ stored.timestamp = t
      /\ stored.prev_hash = g_latest_hash /\ stored.entry_hash = Hash(rec)
  BY Zenon
<1> HIDE DEF stored, rec
<1>3. g_wal_buffer' = [i \in Place |-> IF i = Slot THEN stored ELSE g_wal_buffer[i]]
  BY <1>1
<1> QED
  BY <1>1, <1>2, <1>3

LEMMA WalStep == WalInv /\ WalNext => WalInv'
<1> SUFFICES ASSUME WalInv, WalNext PROVE WalInv'
  OBVIOUS
<1>1. ASSUME NEW action \in Action, NEW t \in WalTime, wal_append(action, t) PROVE WalInv'
  <2> PICK h : h = g_wal_head
    OBVIOUS
  <2>1. /\ h \in Nat /\ g_wal_head = h /\ g_wal_head' = h + 1
        /\ appended \in Seq([action : Action, timestamp : WalTime])
        /\ appended' = Append(appended, [action |-> action, timestamp |-> t])
        /\ h = Len(appended)
        /\ WAL_CAPACITY \in Nat \ {0}
    BY <1>1, WalAssumption DEF wal_append, WalInv, HoldsTheLatest
  <2>2. /\ appended' \in Seq([action : Action, timestamp : WalTime])
        /\ g_wal_head' = Len(appended')
        /\ \A n \in 0 .. (h - 1) : appended'[n + 1] = appended[n + 1]
        /\ appended'[h + 1] = [action |-> action, timestamp |-> t]
    BY <2>1
  <2>3. Slot \in Place /\ Slot = h % WAL_CAPACITY
    <3>1. h % WAL_CAPACITY \in 0 .. (WAL_CAPACITY - 1)
      BY <2>1, Remainder, Zenon
    <3> QED
      BY <2>1, <3>1, Zenon DEF Slot, Place
  <2>4. /\ g_wal_buffer' = [i \in Place |-> g_wal_buffer'[i]]
        /\ \A i \in Place : i # Slot => g_wal_buffer'[i] = g_wal_buffer[i]
        /\ g_wal_buffer'[Slot].sequence = h
        /\ g_wal_buffer'[Slot].action = action
        /\ g_wal_buffer'[Slot].timestamp = t
        /\ g_wal_buffer'[Slot].prev_hash = g_latest_hash
        /\ g_wal_buffer'[Slot].entry_hash = g_latest_hash'
    BY <1>1, <2>3, AppendStores DEF WalInv
  <2>5. Logged(h)' = g_wal_buffer'[Slot]
    BY <2>3, <2>1 DEF Logged
  <2>6. ASSUME NEW n \in Held', n # h
        PROVE  n \in Held /\ Logged(n)' = Logged(n)
    <3>1. n \in Nat /\ n < h /\ h < n + WAL_CAPACITY /\ n \in Held
      BY <2>1, <2>6 DEF Held
    <3>2. n % WAL_CAPACITY # Slot /\ n % WAL_CAPACITY \in Place
      <4>1. n % WAL_CAPACITY # h % WAL_CAPACITY
        BY <2>1, <3>1, Apart, Zenon
      <4>2. n % WAL_CAPACITY \in 0 .. (WAL_CAPACITY - 1)
        BY <2>1, <3>1, Remainder, Zenon
      <4> QED
        BY <2>3, <4>1, <4>2, Zenon DEF Place
    <3> QED
      BY <2>4, <3>1, <3>2 DEF Logged
  <2>7. HoldsTheLatest'
    <3>1. ASSUME NEW n \in Held'
          PROVE  /\ Logged(n)'.sequence = n
                 /\ Logged(n)'.action = appended'[n + 1].action
                 /\ Logged(n)'.timestamp = appended'[n + 1].timestamp
      <4>1. CASE n = h
        BY <2>2, <2>4, <2>5, <4>1
      <4>2. CASE n # h
        <5>1. n \in Held /\ n \in 0 .. (h - 1) /\ Logged(n)' = Logged(n)
          BY <2>6, <4>2 DEF Held
        <5> QED
          BY <2>2, <5>1 DEF WalInv, HoldsTheLatest
      <4> QED
        BY <4>1, <4>2
    <3> QED
      BY <2>2, <3>1 DEF HoldsTheLatest
  <2>8. ChainUnbroken'
    <3>1. g_wal_head' > 0 /\ g_wal_head' - 1 = h
      BY <2>1
    <3>2. ASSUME NEW n \in Held', n - 1 \in Held'
          PROVE  Logged(n)'.prev_hash = Logged(n - 1)'.entry_hash
      <4>1. n \in Nat /\ n - 1 \in Nat /\ n <= h /\ n - 1 # h
        BY <2>1, <3>2 DEF Held
      <4>2. n - 1 \in Held /\ Logged(n - 1)' = Logged(n - 1)
        BY <2>6, <3>2, <4>1
      <4>3. CASE n = h
        <5>1. Logged(n - 1).entry_hash = g_latest_hash
          BY <4>1, <4>3 DEF WalInv, ChainUnbroken
        <5> QED
          BY <2>4, <2>5, <4>2, <4>3, <5>1
      <4>4. CASE n # h
        <5>1. n \in Held /\ Logged(n)' = Logged(n)
          BY <2>6, <3>2, <4>4
        <5> QED
          BY <4>2, <5>1 DEF WalInv, ChainUnbroken
      <4> QED
        BY <4>3, <4>4
    <3> QED
      BY <2>4, <2>5, <3>1, <3>2 DEF ChainUnbroken, Logged
  <2> QED
    BY <2>1, <2>2, <2>4, <2>7, <2>8 DEF WalInv
<1>2. CASE wal_init
  <2>1. g_wal_head' = 0 /\ appended' = <<>> /\ g_wal_buffer' = EmptyBuffer
    BY <1>2 DEF wal_init
  <2>2. Held' = {}
    BY <2>1, WalAssumption DEF Held
  <2> QED
    BY <2>1, <2>2 DEF WalInv, HoldsTheLatest, ChainUnbroken, EmptyBuffer, Place
<1> QED
  BY <1>1, <1>2 DEF WalNext

-----------------------------------------------------------------------------
(* persistence.c: the file ends with the newest whole record and parts of  *)
(* records that were torn, none of which is the last part of a record.     *)
Kept == newest # None

SenderFileInv ==
  /\ wal \in Seq(Nat \X (1 .. Parts))
  /\ writes \in Nat
  /\ newest \in [write : Nat, start : Nat]
  /\ Kept =>
       /\ newest.start + Parts <= Len(wal)
       /\ \A k \in 1 .. Parts : wal[newest.start + k] = <<newest.write, k>>
  /\ \A p \in 1 .. Len(wal) : wal[p][2] = Parts =>
       Kept /\ p <= newest.start + Parts

LEMMA SenderFileStarts == StorageInit => SenderFileInv
<1> SUFFICES ASSUME StorageInit PROVE SenderFileInv
  OBVIOUS
<1>1. ~Kept /\ wal = <<>> /\ writes = 0 /\ newest = [write |-> 0, start |-> 0]
  BY DEF StorageInit, Kept, None
<1> QED
  BY <1>1 DEF SenderFileInv

(* What a write of n parts leaves in the file. *)
LEMMA PartsAppended ==
  ASSUME SenderFileInv, NEW n \in 0 .. Parts, WriteRecord(n)
  PROVE  /\ wal' \in Seq(Nat \X (1 .. Parts))
         /\ Len(wal') = Len(wal) + n
         /\ \A p \in 1 .. Len(wal) : wal'[p] = wal[p]
         /\ \A k \in 1 .. n : wal'[Len(wal) + k] = <<writes + 1, k>>
<1> PICK w : w = writes + 1
  OBVIOUS
<1>1. /\ wal \in Seq(Nat \X (1 .. Parts)) /\ w \in Nat /\ n \in Nat /\ n <= Parts /\ Parts \in Nat
      /\ wal' = wal \o SubSeq(Record(w), 1, n)
  BY StorageAssumption DEF SenderFileInv, WriteRecord, Written
<1> DEFINE parts == SubSeq(Record(w), 1, n)
<1>2. parts \in Seq(Nat \X (1 .. Parts)) /\ Len(parts) = n /\ \A k \in 1 .. n : parts[k] = <<w, k>>
  <2>1. Record(w) \in Seq(Nat \X (1 .. Parts)) /\ Len(Record(w)) = Parts
    BY <1>1 DEF Record
  <2>2. \A k \in 1 .. n : Record(w)[k] = <<w, k>>
    BY <1>1 DEF Record
  <2> QED
    BY <1>1, <2>1, <2>2
<1>3. wal' = wal \o parts
  BY <1>1
<1> HIDE DEF parts
<1>4. wal' \in Seq(Nat \X (1 .. Parts)) /\ Len(wal') = Len(wal) + n
  BY <1>1, <1>2, <1>3
<1>5. \A p \in 1 .. Len(wal) : wal'[p] = wal[p]
  BY <1>1, <1>2, <1>3
<1>6. ASSUME NEW k \in 1 .. n PROVE wal'[Len(wal) + k] = <<w, k>>
  <2>1. /\ Len(wal) + k \in 1 .. (Len(wal) + Len(parts)) /\ ~(Len(wal) + k <= Len(wal))
        /\ Len(wal) + k - Len(wal) = k
    BY <1>1, <1>2
  <2>2. (wal \o parts)[Len(wal) + k] = parts[Len(wal) + k - Len(wal)]
    BY <1>1, <1>2, <2>1, ConcatProperties
  <2>3. wal'[Len(wal) + k] = parts[k]
    BY <1>3, <2>1, <2>2, Zenon
  <2> QED
    BY <1>2, <2>3, Zenon
<1> QED
  BY <1>4, <1>5, <1>6

LEMMA SenderFileStep ==
  ASSUME SenderFileInv, NEW n \in 0 .. Parts, persist_sender_state(n)
  PROVE  SenderFileInv'
<1>1. /\ wal' \in Seq(Nat \X (1 .. Parts))
      /\ Len(wal') = Len(wal) + n
      /\ \A p \in 1 .. Len(wal) : wal'[p] = wal[p]
      /\ \A k \in 1 .. n : wal'[Len(wal) + k] = <<writes + 1, k>>
  BY PartsAppended DEF persist_sender_state
<1>2. /\ writes' = writes + 1 /\ writes \in Nat /\ Len(wal) \in Nat /\ n \in Nat
      /\ newest' = IF n = Parts THEN [write |-> writes + 1, start |-> Len(wal)] ELSE newest
      /\ Parts \in Nat \ {0}
  BY StorageAssumption DEF persist_sender_state, WriteRecord, SenderFileInv
<1>3. CASE n = Parts
  <2>1. newest' \in [write : Nat, start : Nat] /\ Kept'
    <3>1. newest' = [write |-> writes + 1, start |-> Len(wal)]
      BY <1>2, <1>3
    <3>2. newest'.write # None.write
      BY <1>2, <3>1 DEF None
    <3>3. [write |-> writes + 1, start |-> Len(wal)] \in [write : Nat, start : Nat]
      BY <1>2
    <3> QED
      BY <3>1, <3>2, <3>3, Zenon DEF Kept
  <2>2. newest'.start = Len(wal) /\ newest'.write = writes + 1
    BY <1>2, <1>3
  <2>3. ASSUME NEW k \in 1 .. Parts
        PROVE  wal'[newest'.start + k] = <<newest'.write, k>>
    BY <1>1, <1>3, <2>2
  <2>4. newest'.start + Parts <= Len(wal')
    BY <1>1, <1>3, <2>2
  <2>5. \A p \in 1 .. Len(wal') : p <= newest'.start + Parts
    BY <1>1, <1>2, <1>3, <2>2
  <2>6. writes' \in Nat
    BY <1>2
  <2> QED
    BY <1>1, <2>1, <2>3, <2>4, <2>5, <2>6, Zenon DEF SenderFileInv
<1>4. CASE n # Parts
  <2>1. /\ newest' = newest /\ n < Parts /\ (Kept' <=> Kept)
        /\ newest \in [write : Nat, start : Nat]
    BY <1>2, <1>4 DEF SenderFileInv, Kept
  <2>2. Kept' =>
          /\ newest'.start + Parts <= Len(wal')
          /\ \A k \in 1 .. Parts : wal'[newest'.start + k] = <<newest'.write, k>>
    <3> SUFFICES ASSUME Kept
                 PROVE  /\ newest.start + Parts <= Len(wal')
                        /\ \A k \in 1 .. Parts : wal'[newest.start + k] = <<newest.write, k>>
      BY <2>1, Zenon
    <3>1. newest.start \in Nat /\ newest.start + Parts <= Len(wal)
      BY <2>1 DEF SenderFileInv
    <3>2. \A k \in 1 .. Parts : wal[newest.start + k] = <<newest.write, k>>
      BY Zenon DEF SenderFileInv
    <3>3. ASSUME NEW k \in 1 .. Parts PROVE newest.start + k \in 1 .. Len(wal)
      BY <1>2, <3>1
    <3>4. ASSUME NEW k \in 1 .. Parts PROVE wal'[newest.start + k] = <<newest.write, k>>
      BY <1>1, <3>2, <3>3, Zenon
    <3>5. newest.start + Parts <= Len(wal')
      BY <1>1, <1>2, <3>1
    <3> QED
      BY <3>4, <3>5, Zenon
  <2>3. ASSUME NEW p \in 1 .. Len(wal'), wal'[p][2] = Parts
        PROVE  Kept' /\ p <= newest'.start + Parts
    <3>1. CASE p <= Len(wal)
      <4>1. p \in 1 .. Len(wal)
        BY <1>1, <1>2, <3>1
      <4>2. wal[p][2] = Parts
        BY <1>1, <2>3, <4>1, Zenon
      <4>3. Kept /\ p <= newest.start + Parts
        BY <4>1, <4>2, Zenon DEF SenderFileInv
      <4> QED
        BY <2>1, <4>3, Zenon
    <3>2. CASE p > Len(wal)
      <4>1. p - Len(wal) \in 1 .. n /\ p = Len(wal) + (p - Len(wal))
        BY <1>1, <1>2, <3>2
      <4>2. wal'[p] = <<writes + 1, p - Len(wal)>>
        BY <1>1, <4>1
      <4>3. p - Len(wal) = Parts
        BY <2>3, <4>2
      <4> QED
        BY <1>2, <2>1, <4>1, <4>3
    <3> QED
      BY <1>1, <1>2, <3>1, <3>2
  <2>4. writes' \in Nat
    BY <1>2
  <2> QED
    BY <1>1, <2>1, <2>2, <2>3, <2>4, Zenon DEF SenderFileInv
<1> QED
  BY <1>3, <1>4

(* Multiples of c: where blocks of length c end.                           *)
LEMMA Multiple ==
  ASSUME NEW c \in Nat \ {0}, NEW q \in Nat
  PROVE  c * q \in Nat /\ (c * q) % c = 0
<1>1. c * q \in Nat
  OBVIOUS
<1> PICK m \in Nat : m = c * q
  BY <1>1
<1>2. /\ m \div c \in Nat /\ m % c \in 0 .. (c - 1)
      /\ m = c * (m \div c) + (m % c)
  BY Remainder
<1> PICK d, r : d = m \div c /\ r = m % c
  OBVIOUS
<1>3. d \in Nat /\ r \in Nat /\ r < c /\ c * q = c * d + r /\ c * d \in Nat
  BY <1>2
<1>4. ~(d < q)
  <2> SUFFICES ASSUME d < q PROVE FALSE
    OBVIOUS
  <2>1. c * d + c <= c * q
    BY <1>3, TimesGrows
  <2> QED
    BY <1>1, <1>3, <2>1
<1>5. ~(q < d)
  <2> SUFFICES ASSUME q < d PROVE FALSE
    OBVIOUS
  <2>1. c * q + c <= c * d
    BY <1>3, TimesGrows
  <2> QED
    BY <1>1, <1>3, <2>1
<1>6. d = q
  BY <1>3, <1>4, <1>5
<1>7. r = 0
  BY <1>1, <1>3, <1>6
<1> QED
  BY <1>1, <1>7

(* Two multiples less than c apart are equal. *)
LEMMA SameMultiple ==
  ASSUME NEW c \in Nat \ {0}, NEW a \in Nat, NEW b \in Nat,
         a % c = 0, b % c = 0, a < b + c, b < a + c
  PROVE  a = b
<1>1. ~(a < b)
  BY Apart
<1>2. ~(b < a)
  BY Apart
<1> QED
  BY <1>1, <1>2

(* What recovery reads: the last block of the file that is whole. *)
LEMMA LastBlock ==
  ASSUME SenderFileInv, Kept
  PROVE  \E e \in Nat, b \in Nat :
           /\ e = b + Parts /\ e <= Len(wal) /\ Len(wal) < e + Parts
           /\ e % Parts = 0 /\ b % Parts = 0
           /\ recover_sender_state = SubSeq(wal, b + 1, e)
<1> PICK n, q : n = Len(wal) /\ q = n \div Parts
  OBVIOUS
<1>1. n \in Nat /\ Parts \in Nat \ {0} /\ Parts <= n
  BY StorageAssumption DEF SenderFileInv
<1>2. q \in Nat /\ n = Parts * q + (n % Parts) /\ n % Parts \in 0 .. (Parts - 1)
  BY <1>1, Remainder
<1>3. q # 0
  <2> SUFFICES ASSUME q = 0 PROVE FALSE
    OBVIOUS
  <2>1. Parts * q = 0
    BY <1>1
  <2> QED
    BY <1>1, <1>2, <2>1
<1>4. q - 1 \in Nat
  BY <1>2, <1>3
<1>5. /\ Parts * q = Parts * (q - 1) + Parts
      /\ q * Parts = Parts * q /\ (q - 1) * Parts = Parts * (q - 1)
  BY <1>1, <1>2
<1>6. /\ Parts * q \in Nat /\ (Parts * q) % Parts = 0
      /\ Parts * (q - 1) \in Nat /\ (Parts * (q - 1)) % Parts = 0
  BY <1>1, <1>2, <1>4, Multiple
<1>7. recover_sender_state = SubSeq(wal, Parts * (q - 1) + 1, Parts * q)
  BY <1>3, <1>5, Zenon DEF recover_sender_state, Blocks
<1>8. Parts * q <= n /\ n < Parts * q + Parts
  BY <1>1, <1>2, <1>6
<1> QED
  BY <1>5, <1>6, <1>7, <1>8, Zenon

(* A sequence is the function of its elements. *)
LEMMA ElementByElement ==
  ASSUME NEW S, NEW q \in Seq(S), NEW g, g = [k \in 1 .. Len(q) |-> g[k]],
         \A k \in 1 .. Len(q) : q[k] = g[k]
  PROVE  q = g
<1>1. q = [k \in 1 .. Len(q) |-> q[k]]
  OBVIOUS
<1> QED
  BY <1>1

LEMMA NewestIsRecovered == SenderFileInv => RecoversTheNewest
<1> SUFFICES ASSUME SenderFileInv, Kept, Aligned, ShortTail
             PROVE  recover_sender_state = Record(newest.write)
  BY DEF RecoversTheNewest, Kept
<1>b. PICK b \in Nat, e \in Nat :
           /\ e = b + Parts /\ e <= Len(wal) /\ Len(wal) < e + Parts
           /\ e % Parts = 0 /\ b % Parts = 0
           /\ recover_sender_state = SubSeq(wal, b + 1, e)
  BY LastBlock
<1>e. b \in Nat /\ e \in Nat /\ e = b + Parts /\ e <= Len(wal) /\ Len(wal) < e + Parts
  BY <1>b, Zenon
<1> PICK s, w : s = newest.start /\ w = newest.write
  OBVIOUS
<1>1. wal \in Seq(Nat \X (1 .. Parts))
  BY DEF SenderFileInv
<1>n. /\ s \in Nat /\ Parts \in Nat \ {0} /\ Len(wal) \in Nat
      /\ s + Parts <= Len(wal) /\ Len(wal) - (s + Parts) < Parts
  BY StorageAssumption DEF SenderFileInv, ShortTail
<1>2. b = s
  <2>1. b < s + Parts /\ s < b + Parts
    BY <1>e, <1>n
  <2>2. s % Parts = 0 /\ b % Parts = 0
    BY <1>b, Zenon DEF Aligned
  <2> QED
    BY <1>e, <1>n, <2>1, <2>2, SameMultiple, Zenon
<1>3. \A k \in 1 .. Parts : wal[s + k] = <<w, k>>
  BY DEF SenderFileInv
<1>4. SubSeq(wal, b + 1, e) = [k \in 1 .. Parts |-> wal[s + k]]
  <2>1. /\ SubSeq(wal, s + 1, s + Parts) \in Seq(Nat \X (1 .. Parts))
        /\ Len(SubSeq(wal, s + 1, s + Parts)) = Parts
        /\ \A k \in 1 .. Parts : SubSeq(wal, s + 1, s + Parts)[k] = wal[s + k]
    <3> DEFINE f == s + 1
               l == s + Parts
    <3>1. /\ f \in Int /\ l \in Int /\ f <= l /\ l - f + 1 = Parts
          /\ \A k \in 1 .. Parts : f + k - 1 = s + k
          /\ f .. l \subseteq 1 .. Len(wal)
      BY <1>n
    <3> HIDE DEF f, l
    <3>5. \A i \in f .. l : wal[i] \in Nat \X (1 .. Parts)
      BY <1>1, <3>1
    <3>2. SubSeq(wal, f, l) \in Seq(Nat \X (1 .. Parts))
      BY <3>1, <3>5, SubSeqProperties
    <3>3. Len(SubSeq(wal, f, l)) = Parts
      BY <3>1, <3>5, SubSeqProperties
    <3>4. \A k \in 1 .. Parts : SubSeq(wal, f, l)[k] = wal[s + k]
      BY <3>1, <3>5, SubSeqProperties
    <3> QED
      BY <3>2, <3>3, <3>4 DEF f, l
  <2>2. SubSeq(wal, s + 1, s + Parts) = [k \in 1 .. Parts |-> wal[s + k]]
    <3> DEFINE g == [k \in 1 .. Parts |-> wal[s + k]]
               q == SubSeq(wal, s + 1, s + Parts)
    <3>1. g = [k \in 1 .. Parts |-> g[k]] /\ \A k \in 1 .. Parts : g[k] = wal[s + k]
      OBVIOUS
    <3>2. q \in Seq(Nat \X (1 .. Parts)) /\ Len(q) = Parts /\ \A k \in 1 .. Parts : q[k] = g[k]
      BY <2>1, <3>1
    <3> HIDE DEF g, q
    <3>3. q = g
      BY <3>1, <3>2, ElementByElement
    <3> QED
      BY <3>3 DEF g, q
  <2> QED
    BY <1>2, <1>e, <2>2, Zenon
<1>5. [k \in 1 .. Parts |-> wal[s + k]] = [k \in 1 .. Parts |-> <<w, k>>]
  BY <1>3
<1> QED
  BY <1>b, <1>4, <1>5, Zenon DEF Record

LEMMA TornIsNoRecord == SenderFileInv => TornWriteSpoilsRecovery
<1> SUFFICES ASSUME SenderFileInv, Kept, ~(Aligned /\ ShortTail)
             PROVE  /\ recover_sender_state # <<>>
                    /\ \A w \in 1 .. writes : recover_sender_state # Record(w)
  BY DEF TornWriteSpoilsRecovery, Kept
<1>b. PICK b \in Nat, e \in Nat :
           /\ e = b + Parts /\ e <= Len(wal) /\ Len(wal) < e + Parts
           /\ e % Parts = 0 /\ b % Parts = 0
           /\ recover_sender_state = SubSeq(wal, b + 1, e)
  BY LastBlock
<1>e. b \in Nat /\ e \in Nat /\ e = b + Parts /\ e <= Len(wal) /\ Len(wal) < e + Parts
  BY <1>b, Zenon
<1> PICK s : s = newest.start
  OBVIOUS
<1>1. wal \in Seq(Nat \X (1 .. Parts))
  BY DEF SenderFileInv
<1>n. s \in Nat /\ Parts \in Nat \ {0} /\ Len(wal) \in Nat /\ s + Parts <= Len(wal)
  BY StorageAssumption DEF SenderFileInv
<1>2. /\ Len(SubSeq(wal, b + 1, e)) = Parts
      /\ SubSeq(wal, b + 1, e)[Parts] = wal[e]
  BY <1>1, <1>e, <1>n
<1>3. recover_sender_state # <<>>
  BY <1>1, <1>2, <1>b, <1>n
<1>4. ASSUME NEW w \in 1 .. writes, recover_sender_state = Record(w)
      PROVE  FALSE
  <2>1. wal[e] = <<w, Parts>>
    <3>1. Parts \in 1 .. Parts
      BY <1>n
    <3>2. Record(w)[Parts] = <<w, Parts>>
      BY <3>1, Zenon DEF Record
    <3> QED
      BY <1>2, <1>4, <1>b, <3>2, Zenon
  <2>2. e \in 1 .. Len(wal)
    BY <1>e, <1>n
  <2>3. e <= s + Parts
    BY <2>1, <2>2 DEF SenderFileInv
  <2>4. ShortTail
    BY <1>e, <1>n, <2>3 DEF ShortTail
  <2>5. s % Parts # 0
    BY <2>4 DEF Aligned
  <2>6. s # b
    BY <1>b, <2>5, Zenon
  <2>7. e - s \in 1 .. Parts /\ e - s # Parts /\ e = s + (e - s)
    BY <1>e, <1>n, <2>3, <2>6
  <2>8. wal[e] = <<newest.write, e - s>>
    BY <2>7 DEF SenderFileInv
  <2> QED
    BY <2>1, <2>7, <2>8
<1> QED
  BY <1>3, <1>4

-----------------------------------------------------------------------------
(* audit_log.c: h holds the hashes of this run of the process, one for     *)
(* each event hashed and Zero for none, and all of them are different: a   *)
(* hash tells the one before it.                                           *)
Chain(h) ==
  /\ h[0] = Zero
  /\ \A k \in 1 .. hashed : \E event : h[k] = <<event, h[k - 1]>>
  /\ \A j, k \in 0 .. hashed : h[j] = h[k] => j = k
  /\ initialized = TRUE => last_hash = h[hashed]
  /\ \A i \in (runStart + 1) .. Len(audit) :
       /\ audit[i].n \in 1 .. hashed
       /\ audit[i].previous = h[audit[i].n - 1]
       /\ audit[i].hash = h[audit[i].n]

AuditFileInv ==
  /\ \E S : audit \in Seq(S)
  /\ hashed \in Nat /\ runStart \in Nat
  /\ initialized \in BOOLEAN
  /\ initialized = FALSE => hashed = 0
  /\ \E h : Chain(h)

LEMMA AuditFileStarts == StorageInit => AuditFileInv
<1> SUFFICES ASSUME StorageInit PROVE AuditFileInv
  OBVIOUS
<1>1. audit = <<>> /\ hashed = 0 /\ runStart = 0 /\ initialized = FALSE
  BY DEF StorageInit
<1>2. Chain([k \in {0} |-> Zero])
  BY <1>1 DEF Chain
<1>3. audit \in Seq({})
  BY <1>1
<1> QED
  BY <1>1, <1>2, <1>3 DEF AuditFileInv

(* A sequence of anything, and one element more. *)
LEMMA AppendAny ==
  ASSUME NEW S, NEW q \in Seq(S), NEW e
  PROVE  /\ Append(q, e) \in Seq(S \cup {e})
         /\ Len(Append(q, e)) = Len(q) + 1 /\ Len(q) \in Nat
         /\ \A i \in 1 .. Len(q) : Append(q, e)[i] = q[i]
         /\ Append(q, e)[Len(q) + 1] = e
<1>1. q \in Seq(S \cup {e}) /\ e \in S \cup {e}
  OBVIOUS
<1> QED
  BY <1>1, AppendProperties

LEMMA AuditStep ==
  ASSUME AuditFileInv, NEW event, NEW kept, audit_log_event(event, kept)
  PROVE  AuditFileInv'
<1> PICK S : audit \in Seq(S)
  BY DEF AuditFileInv
<1> PICK h : Chain(h)
  BY DEF AuditFileInv
<1> PICK n, r, l : n = hashed /\ r = runStart /\ l = Len(audit)
  OBVIOUS
<1> DEFINE rec == AuditRecord(event)
           stored == [rec EXCEPT !.whole = (kept = "all")]
<1>1. /\ initialized' = TRUE /\ hashed' = n + 1 /\ runStart' = r
      /\ last_hash' = rec.hash
      /\ audit' = audit \/ audit' = Append(audit, stored)
  BY DEF audit_log_event, HashAfter
<1>2. n \in Nat /\ r \in Nat /\ l \in Nat
  BY DEF AuditFileInv
<1>3. /\ rec.previous = h[n] /\ rec.hash = <<event, h[n]>>
      /\ stored.previous = h[n] /\ stored.hash = <<event, h[n]>> /\ stored.n = n + 1
  <2>1. (IF initialized THEN last_hash ELSE Zero) = h[n]
    <3>1. CASE initialized = TRUE
      BY <3>1 DEF Chain
    <3>2. CASE initialized = FALSE
      <4>1. n = 0
        BY <3>2 DEF AuditFileInv
      <4> QED
        BY <3>2, <4>1 DEF Chain
    <3> QED
      BY <3>1, <3>2 DEF AuditFileInv
  <2>2. rec = [previous |-> h[n], hash |-> <<event, h[n]>>, n |-> n + 1, whole |-> TRUE]
    BY <2>1, Zenon DEF AuditRecord
  <2>3. rec.previous = h[n] /\ rec.hash = <<event, h[n]>> /\ rec.n = n + 1
    BY <2>2
  <2>4. stored.previous = rec.previous /\ stored.hash = rec.hash /\ stored.n = rec.n
    <3> HIDE DEF rec
    <3> QED
      BY <2>2, Zenon
  <2> QED
    BY <2>3, <2>4, Zenon
<1> HIDE DEF rec, stored
<1> DEFINE new == <<event, h[n]>>
           g == [k \in 0 .. (n + 1) |-> IF k <= n THEN h[k] ELSE new]
<1>4. /\ \A k \in 0 .. n : g[k] = h[k]
      /\ g[n + 1] = new
  BY <1>2
<1>5. g[0] = Zero
  BY <1>2, <1>4 DEF Chain
<1>6. ASSUME NEW k \in 0 .. n PROVE h[k] # new
  <2>1. CASE k = 0
    <3>1. h[k] = Zero
      BY <2>1 DEF Chain
    <3>2. new # <<>>
      OBVIOUS
    <3> QED
      BY <3>1, <3>2, Zenon DEF Zero
  <2>2. CASE k # 0
    <3>1. PICK e : h[k] = <<e, h[k - 1]>>
      BY <1>2, <2>2 DEF Chain
    <3>2. k - 1 \in 0 .. n /\ n \in 0 .. n /\ k - 1 # n
      BY <1>2, <2>2
    <3>3. h[k - 1] # h[n]
      BY <3>2 DEF Chain
    <3> QED
      BY <3>1, <3>3
  <2> QED
    BY <2>1, <2>2
<1>7. ASSUME NEW k \in 1 .. (n + 1) PROVE \E e : g[k] = <<e, g[k - 1]>>
  <2>1. CASE k = n + 1
    <3>1. k - 1 = n /\ n \in 0 .. n
      BY <1>2, <2>1
    <3>2. g[k] = <<event, h[n]>> /\ g[k - 1] = h[n]
      BY <1>4, <2>1, <3>1, Zenon
    <3> QED
      BY <3>2, Zenon
  <2>2. CASE k # n + 1
    <3>1. k \in 1 .. n /\ k \in 0 .. n /\ k - 1 \in 0 .. n
      BY <1>2, <2>2
    <3>2. \E e : h[k] = <<e, h[k - 1]>>
      BY <3>1 DEF Chain
    <3> QED
      BY <1>4, <3>1, <3>2, Zenon
  <2> QED
    BY <2>1, <2>2
<1> HIDE DEF g, new
<1>8. ASSUME NEW j \in 0 .. (n + 1), NEW k \in 0 .. (n + 1), g[j] = g[k] PROVE j = k
  <2>1. CASE j \in 0 .. n /\ k \in 0 .. n
    <3>1. h[j] = h[k]
      BY <1>4, <1>8, <2>1, Zenon
    <3> QED
      BY <2>1, <3>1 DEF Chain
  <2>2. CASE j = n + 1 /\ k \in 0 .. n
    BY <1>4, <1>6, <1>8, <2>2, Zenon
  <2>3. CASE k = n + 1 /\ j \in 0 .. n
    BY <1>4, <1>6, <1>8, <2>3, Zenon
  <2>4. /\ j \in 0 .. n \/ j = n + 1
        /\ k \in 0 .. n \/ k = n + 1
    BY <1>2
  <2> QED
    BY <2>1, <2>2, <2>3, <2>4, Zenon
<1>9. ASSUME NEW i \in (r + 1) .. l
      PROVE  /\ audit[i].n \in 1 .. (n + 1)
             /\ audit[i].previous = g[audit[i].n - 1]
             /\ audit[i].hash = g[audit[i].n]
  <2> PICK m : m = audit[i].n
    OBVIOUS
  <2>1. m \in 1 .. n /\ audit[i].previous = h[m - 1] /\ audit[i].hash = h[m]
    BY DEF Chain
  <2>2. m \in 1 .. (n + 1) /\ m \in 0 .. n /\ m - 1 \in 0 .. n
    BY <1>2, <2>1
  <2> QED
    BY <1>4, <2>1, <2>2, Zenon
<1>10. ASSUME NEW i \in (r + 1) .. Len(audit')
       PROVE  /\ audit'[i].n \in 1 .. (n + 1)
              /\ audit'[i].previous = g[audit'[i].n - 1]
              /\ audit'[i].hash = g[audit'[i].n]
  <2>1. CASE audit' = audit
    BY <1>9, <2>1
  <2>2. CASE audit' = Append(audit, stored)
    <3>1. /\ Len(audit') = l + 1
          /\ \A p \in 1 .. l : audit'[p] = audit[p]
          /\ audit'[l + 1] = stored
      BY <2>2, AppendAny
    <3>2. CASE i = l + 1
      <4>1. audit'[i] = stored
        BY <3>1, <3>2
      <4>2. n + 1 \in 1 .. (n + 1) /\ (n + 1) - 1 = n /\ n \in 0 .. n
        BY <1>2
      <4>3. g[n + 1] = <<event, h[n]>> /\ g[n] = h[n]
        BY <1>4, <4>2 DEF new
      <4> QED
        BY <1>3, <4>1, <4>2, <4>3, Zenon
    <3>3. CASE i # l + 1
      <4>1. i \in (r + 1) .. l /\ i \in 1 .. l
        BY <1>2, <3>1, <3>3
      <4>2. audit'[i] = audit[i]
        BY <3>1, <4>1
      <4> QED
        BY <1>9, <4>1, <4>2, Zenon
    <3> QED
      BY <3>2, <3>3
  <2> QED
    BY <1>1, <2>1, <2>2
<1>11. Chain(g)'
  <2>1. last_hash' = g[n + 1]
    BY <1>1, <1>3, <1>4 DEF new
  <2> QED
    BY <1>1, <1>5, <1>7, <1>8, <1>10, <2>1, Zenon DEF Chain
<1>12. \E T : audit' \in Seq(T)
  <2>1. Append(audit, stored) \in Seq(S \cup {stored})
    BY AppendAny
  <2> QED
    BY <1>1, <2>1, Zenon
<1>13. hashed' \in Nat /\ runStart' \in Nat /\ initialized' = TRUE
  BY <1>1, <1>2
<1> QED
  BY <1>11, <1>12, <1>13, Zenon DEF AuditFileInv

StorageInv == SenderFileInv /\ AuditFileInv

(* The file is not touched, or not more than by the write that tore.       *)
LEMMA StorageStep == StorageInv /\ [StorageNext]_storage => StorageInv'
<1> SUFFICES ASSUME StorageInv, [StorageNext]_storage PROVE StorageInv'
  OBVIOUS
<1>1. ASSUME UNCHANGED senderFile PROVE SenderFileInv'
  BY <1>1 DEF StorageInv, SenderFileInv, senderFile, Kept
<1>2. ASSUME UNCHANGED <<auditFile, memory, runStart>> PROVE AuditFileInv'
  <2>1. \A h : Chain(h) => Chain(h)'
    BY <1>2 DEF Chain, auditFile, memory
  <2> QED
    BY <1>2, <2>1 DEF StorageInv, AuditFileInv, auditFile, memory
<1>3. ASSUME NEW n \in 0 .. Parts, persist_sender_state(n) PROVE StorageInv'
  BY <1>2, <1>3, SenderFileStep DEF StorageInv, persist_sender_state
<1>4. ASSUME NEW event \in Event, NEW kept \in {"all", "some", "none"}, audit_log_event(event, kept)
      PROVE  StorageInv'
  BY <1>1, <1>4, AuditStep DEF StorageInv, audit_log_event
<1>5. CASE Crash
  BY <1>1, <1>2, <1>5 DEF StorageInv, Crash
<1>6. CASE Restart
  <2>1. /\ audit' = audit /\ hashed' = 0 /\ initialized' = FALSE /\ runStart' = Len(audit)
        /\ UNCHANGED senderFile
    BY <1>6 DEF Restart
  <2>2. Len(audit) \in Nat
    BY DEF StorageInv, AuditFileInv
  <2>3. Chain([k \in {0} |-> Zero])'
    BY <2>1, <2>2 DEF Chain
  <2>4. AuditFileInv'
    BY <2>1, <2>2, <2>3 DEF StorageInv, AuditFileInv
  <2> QED
    BY <1>1, <2>1, <2>4 DEF StorageInv
<1>7. CASE UNCHANGED storage
  BY <1>1, <1>2, <1>7 DEF StorageInv, storage
<1> QED
  BY <1>3, <1>4, <1>5, <1>6, <1>7 DEF StorageNext

LEMMA LinksTell == AuditFileInv => LinksTellLosses
<1> SUFFICES ASSUME AuditFileInv, NEW j \in DOMAIN audit, WholeRecord(j)
             PROVE  /\ audit[j].previous = Zero <=> audit[j].n = 1
                    /\ \A i \in 1 .. (j - 1) : WholeRecord(i) =>
                         (audit[j].previous = audit[i].hash <=> audit[j].n = audit[i].n + 1)
  BY DEF LinksTellLosses
<1> PICK h : Chain(h)
  BY DEF AuditFileInv
<1> PICK n : n = audit[j].n
  OBVIOUS
<1>1. n \in 1 .. hashed /\ audit[j].previous = h[n - 1] /\ hashed \in Nat
  BY DEF Chain, WholeRecord, AuditFileInv
<1>2. n - 1 \in 0 .. hashed /\ 0 \in 0 .. hashed
  BY <1>1
<1>3. h[n - 1] = Zero <=> n - 1 = 0
  BY <1>2 DEF Chain
<1>4. ASSUME NEW i \in 1 .. (j - 1), WholeRecord(i)
      PROVE  audit[j].previous = audit[i].hash <=> n = audit[i].n + 1
  <2> PICK m : m = audit[i].n
    OBVIOUS
  <2>1. m \in 1 .. hashed /\ audit[i].hash = h[m]
    BY <1>4 DEF Chain, WholeRecord
  <2>2. m \in 0 .. hashed
    BY <1>1, <2>1
  <2>3. h[n - 1] = h[m] <=> n - 1 = m
    BY <1>2, <2>2 DEF Chain
  <2> QED
    BY <1>1, <2>1, <2>3
<1> QED
  BY <1>1, <1>3, <1>4

-----------------------------------------------------------------------------
(* telemetry.c: the ring read from the tail.                               *)
Cell == 0 .. (TELEMETRY_RING_SIZE - 1)

Turn(i) == IF i >= TELEMETRY_RING_SIZE THEN i - TELEMETRY_RING_SIZE ELSE i

TelemetryInv ==
  /\ samples = [i \in Cell |-> samples[i]]
  /\ head \in Cell /\ tail \in Cell /\ full \in BOOLEAN
  /\ pushed \in Seq(Sample)
  /\ full = FALSE => /\ tail = 0 /\ head = Len(pushed)
                     /\ \A i \in 0 .. (Len(pushed) - 1) : samples[i] = pushed[i + 1]
  /\ full = TRUE => /\ head = tail /\ Len(pushed) >= TELEMETRY_RING_SIZE
                    /\ \A d \in Cell : samples[Turn(tail + d)]
                                       = pushed[Len(pushed) - TELEMETRY_RING_SIZE + 1 + d]

LEMMA TelemetryStarts == TelemetryInit => TelemetryInv
  BY TelemetryAssumption DEF TelemetryInit, TelemetryInv, Cell

LEMMA AfterTurns ==
  /\ \A i \in Cell : After(i) = Turn(i + 1) /\ After(i) \in Cell
  /\ \A i \in Cell, k \in 1 .. TELEMETRY_RING_SIZE :
       (i + k - 1) % TELEMETRY_RING_SIZE = Turn(i + (k - 1))
  BY TelemetryAssumption DEF After, Turn, Cell

LEMMA PushStep ==
  ASSUME TelemetryInv, NEW sample \in Sample, telemetry_push(sample)
  PROVE  TelemetryInv'
<1> PICK n, c : n = Len(pushed) /\ c = TELEMETRY_RING_SIZE
  OBVIOUS
<1>1. c \in Nat \ {0} /\ n \in Nat /\ head \in Cell /\ tail \in Cell /\ Cell = 0 .. (c - 1)
  BY TelemetryAssumption DEF TelemetryInv, Cell
<1>2. /\ samples' = [samples EXCEPT ![head] = sample]
      /\ tail' = (IF full THEN After(tail) ELSE tail)
      /\ head' = After(head)
      /\ pushed' = Append(pushed, sample)
  BY DEF telemetry_push, TailAfterPush
<1>3. /\ full' \in BOOLEAN
      /\ full = TRUE => full' = TRUE
      /\ full = FALSE => (full' = TRUE <=> head' = tail')
  BY Zenon DEF telemetry_push, TelemetryInv
<1>4. /\ pushed' \in Seq(Sample) /\ Len(pushed') = n + 1
      /\ \A i \in 1 .. n : pushed'[i] = pushed[i]
      /\ pushed'[n + 1] = sample
  BY <1>2 DEF TelemetryInv
<1>5. /\ samples' = [i \in Cell |-> samples'[i]]
      /\ samples'[head] = sample
      /\ \A i \in Cell : i # head => samples'[i] = samples[i]
  <2>1. samples' = [i \in Cell |-> IF i = head THEN sample ELSE samples[i]]
    BY <1>2 DEF TelemetryInv
  <2> QED
    BY <1>1, <2>1
<1>6. head' = Turn(head + 1) /\ head' \in Cell
  BY <1>1, <1>2, AfterTurns
<1>7. CASE full = FALSE
  <2>1. /\ tail = 0 /\ head = n
        /\ \A i \in 0 .. (n - 1) : samples[i] = pushed[i + 1]
    BY <1>7, Zenon DEF TelemetryInv
  <2>2. tail' = 0
    BY <1>2, <1>7, <2>1
  <2>3. ASSUME NEW i \in 0 .. n PROVE samples'[i] = pushed'[i + 1]
    <3>1. CASE i = n
      BY <1>4, <1>5, <2>1, <3>1
    <3>2. CASE i # n
      <4>1. i \in 0 .. (n - 1) /\ i \in Cell /\ i + 1 \in 1 .. n
        BY <1>1, <2>1, <3>2
      <4> QED
        BY <1>4, <1>5, <2>1, <3>2, <4>1
    <3> QED
      BY <3>1, <3>2
  <2>4. CASE n + 1 < c
    <3>1. head' = n + 1 /\ full' = FALSE
      <4>1. head' = n + 1
        BY <1>1, <1>6, <2>1, <2>4 DEF Turn
      <4>2. head' # tail'
        BY <1>1, <2>2, <4>1
      <4> QED
        BY <1>3, <1>7, <4>1, <4>2, Zenon
    <3>2. tail' \in Cell /\ Len(pushed') - 1 = n
      BY <1>1, <1>4, <2>2
    <3> QED
      BY <1>4, <1>5, <1>6, <2>2, <2>3, <3>1, <3>2 DEF TelemetryInv
  <2>5. CASE n + 1 = c
    <3>1. head' = 0 /\ full' = TRUE
      <4>1. head' = 0
        BY <1>1, <1>6, <2>1, <2>5 DEF Turn
      <4> QED
        BY <1>3, <1>7, <2>2, <4>1, Zenon
    <3>2. tail' \in Cell /\ Len(pushed') >= c
      BY <1>1, <1>4, <2>2, <2>5
    <3>3. ASSUME NEW d \in Cell
          PROVE  samples'[Turn(tail' + d)] = pushed'[Len(pushed') - c + 1 + d]
      <4>1. Turn(tail' + d) = d /\ d \in 0 .. n /\ Len(pushed') - c + 1 + d = d + 1
        BY <1>1, <1>4, <2>2, <2>5 DEF Turn
      <4> QED
        BY <2>3, <4>1
    <3> QED
      BY <1>4, <1>5, <1>6, <2>2, <3>1, <3>2, <3>3 DEF TelemetryInv
  <2> QED
    BY <1>1, <2>1, <2>4, <2>5
<1>8. CASE full = TRUE
  <2>1. /\ head = tail /\ n >= c
        /\ \A d \in Cell : samples[Turn(tail + d)] = pushed[n - c + 1 + d]
    BY <1>8, Zenon DEF TelemetryInv
  <2>2. tail' = Turn(tail + 1) /\ head' = tail' /\ full' = TRUE
    BY <1>1, <1>2, <1>3, <1>8, <2>1, AfterTurns
  <2>3. ASSUME NEW d \in Cell
        PROVE  samples'[Turn(tail' + d)] = pushed'[n + 1 - c + 1 + d]
    <3>1. CASE d + 1 \in Cell
      <4>1. /\ Turn(tail' + d) = Turn(tail + (d + 1)) /\ Turn(tail + (d + 1)) # head
            /\ Turn(tail + (d + 1)) \in Cell
            /\ n + 1 - c + 1 + d = n - c + 1 + (d + 1) /\ n - c + 1 + (d + 1) \in 1 .. n
        BY <1>1, <2>1, <2>2, <3>1 DEF Turn
      <4>2. samples[Turn(tail + (d + 1))] = pushed[n - c + 1 + (d + 1)]
        BY <2>1, <3>1
      <4> QED
        BY <1>4, <1>5, <4>1, <4>2
    <3>2. CASE d = c - 1
      <4>1. Turn(tail' + d) = head /\ n + 1 - c + 1 + d = n + 1
        BY <1>1, <2>1, <2>2, <3>2 DEF Turn
      <4> QED
        BY <1>4, <1>5, <4>1
    <3> QED
      BY <1>1, <3>1, <3>2
  <2>4. Len(pushed') >= c
    BY <1>1, <1>4, <2>1
  <2> QED
    <3>1. TelemetryInv' <=>
            /\ samples' = [i \in Cell |-> samples'[i]]
            /\ head' \in Cell /\ tail' \in Cell /\ full' \in BOOLEAN
            /\ pushed' \in Seq(Sample)
            /\ full' = FALSE => /\ tail' = 0 /\ head' = Len(pushed')
                                /\ \A i \in 0 .. (Len(pushed') - 1) : samples'[i] = pushed'[i + 1]
            /\ full' = TRUE => /\ head' = tail' /\ Len(pushed') >= c
                               /\ \A d \in Cell : samples'[Turn(tail' + d)]
                                                  = pushed'[Len(pushed') - c + 1 + d]
      BY DEF TelemetryInv, Turn, Cell
    <3>2. \A d \in Cell : samples'[Turn(tail' + d)] = pushed'[Len(pushed') - c + 1 + d]
      BY <1>1, <1>4, <2>3
    <3>3. full' # FALSE /\ full' \in BOOLEAN /\ tail' \in Cell
      BY <1>6, <2>2, Zenon
    <3> QED
      BY <1>4, <1>5, <1>6, <2>2, <2>4, <3>1, <3>2, <3>3, Zenon
<1> QED
  <2>1. full = TRUE \/ full = FALSE
    BY Zenon DEF TelemetryInv
  <2> QED
    BY <1>7, <1>8, <2>1, Zenon

LEMMA TelemetryStep == TelemetryInv /\ [TelemetryNext]_telemetry => TelemetryInv'
<1> SUFFICES ASSUME TelemetryInv, [TelemetryNext]_telemetry PROVE TelemetryInv'
  OBVIOUS
<1>1. CASE TelemetryRestarts
  <2>1. DOMAIN samples = Cell
    BY DEF TelemetryInv
  <2>2. /\ samples' = [i \in Cell |-> NoSample] /\ pushed' = <<>>
        /\ head' = 0 /\ tail' = 0 /\ full' = FALSE
    BY <1>1, <2>1 DEF TelemetryRestarts
  <2>3. 0 \in Cell
    BY TelemetryAssumption DEF Cell
  <2> QED
    BY <2>2, <2>3 DEF TelemetryInv
<1>2. CASE UNCHANGED telemetry
  BY <1>2 DEF telemetry, TelemetryInv, Turn
<1> QED
  BY <1>1, <1>2, PushStep DEF TelemetryNext

LEMMA RingIsLatest == TelemetryInv => TelemetryHoldsTheLatest
<1> SUFFICES ASSUME TelemetryInv PROVE TelemetryHoldsTheLatest
  OBVIOUS
<1> PICK l, c : l = Len(pushed) /\ c = TELEMETRY_RING_SIZE
  OBVIOUS
<1> DEFINE n == IF l < c THEN l ELSE c
           q == SubSeq(pushed, l - n + 1, l)
<1>1. /\ c \in Nat \ {0} /\ l \in Nat /\ n \in Nat /\ n <= l /\ n <= c
      /\ tail \in Cell /\ Cell = 0 .. (c - 1) /\ pushed \in Seq(Sample)
  BY TelemetryAssumption DEF TelemetryInv, Cell
<1>2. Count = n
  <2>1. CASE full = TRUE
    BY <1>1, <2>1 DEF TelemetryInv, Count
  <2>2. CASE full = FALSE
    <3>1. tail = 0 /\ head = l /\ l < c
      BY <1>1, <2>2 DEF TelemetryInv
    <3>2. (head - tail) % c = l
      BY <1>1, <3>1
    <3> QED
      BY <2>2, <3>1, <3>2 DEF Count
  <2> QED
    BY <2>1, <2>2 DEF TelemetryInv
<1>3. ASSUME NEW k \in 1 .. n
      PROVE  samples[(tail + k - 1) % c] = pushed[l - n + k]
  <2>1. k \in 1 .. c /\ (tail + k - 1) % c = Turn(tail + (k - 1))
    BY <1>1, AfterTurns
  <2>2. CASE full = TRUE
    <3>1. n = c /\ k - 1 \in Cell /\ l - c + 1 + (k - 1) = l - n + k
      BY <1>1, <2>2 DEF TelemetryInv
    <3>2. samples[Turn(tail + (k - 1))] = pushed[l - c + 1 + (k - 1)]
      BY <2>2, <3>1 DEF TelemetryInv
    <3> QED
      BY <2>1, <3>1, <3>2
  <2>3. CASE full = FALSE
    <3>1. tail = 0 /\ l < c
      BY <1>1, <2>3 DEF TelemetryInv
    <3>2. n = l /\ k - 1 \in 0 .. (l - 1) /\ Turn(tail + (k - 1)) = k - 1
      BY <1>1, <3>1 DEF Turn
    <3>3. samples[k - 1] = pushed[k - 1 + 1]
      BY <2>3, <3>2 DEF TelemetryInv
    <3>4. k - 1 + 1 = k /\ l - n + k = k
      BY <1>1, <3>2
    <3> HIDE DEF n
    <3> QED
      BY <2>1, <3>2, <3>3, <3>4, Zenon
  <2> QED
    BY <2>2, <2>3 DEF TelemetryInv
<1>4. q \in Seq(Sample) /\ Len(q) = n /\ \A k \in 1 .. n : q[k] = pushed[l - n + k]
  <2> DEFINE f == l - n + 1
  <2> HIDE DEF n
  <2>1. /\ f \in Int /\ l \in Int /\ f >= 1 /\ l - f + 1 = n /\ (IF f <= l THEN l - f + 1 ELSE 0) = n
        /\ \A k \in 1 .. n : f + k - 1 = l - n + k
        /\ f .. l \subseteq 1 .. l
    BY <1>1
  <2> HIDE DEF f
  <2>2. \A i \in f .. l : pushed[i] \in Sample
    BY <1>1, <2>1
  <2>3. SubSeq(pushed, f, l) \in Seq(Sample)
    BY <2>1, <2>2, SubSeqProperties
  <2>4. Len(SubSeq(pushed, f, l)) = n
    BY <2>1, <2>2, SubSeqProperties
  <2>5. \A k \in 1 .. n : SubSeq(pushed, f, l)[k] = pushed[l - n + k]
    BY <2>1, <2>2, SubSeqProperties
  <2> QED
    BY <2>3, <2>4, <2>5 DEF f
<1> HIDE DEF n, q
<1>5. /\ SamplesHeld = [k \in 1 .. n |-> SamplesHeld[k]]
      /\ \A k \in 1 .. n : SamplesHeld[k] = samples[(tail + k - 1) % c]
  BY <1>2 DEF SamplesHeld
<1>6. q = SamplesHeld
  BY <1>3, <1>4, <1>5, ElementByElement
<1> QED
  BY <1>6 DEF TelemetryHoldsTheLatest, n, q

-----------------------------------------------------------------------------
(* A set of numbers has a least one: this stands for induction here. Among *)
(* the intervals up to the members of a set one is contained in no other.  *)
LEMMA FirstOf ==
  ASSUME NEW S, S \subseteq Nat, S # {}
  PROVE  Min(S) \in S /\ \A i \in S : Min(S) <= i
<1> DEFINE T == {1 .. n : n \in S}
<1>1. T \subseteq FiniteSubsetsOf(Nat) /\ T # {}
  <2>1. ASSUME NEW n \in S PROVE 1 .. n \in SUBSET Nat /\ IsFiniteSet(1 .. n)
    BY FS_Interval
  <2> QED
    BY <2>1 DEF FiniteSubsetsOf
<1>2. PICK t \in T : \A u \in T : ~ (<<u, t>> \in StrictSubsetOrdering(Nat))
  BY <1>1, FS_StrictSubsetOrderingWellFounded, WFMin, Zenon
<1>3. PICK m \in S : t = 1 .. m
  OBVIOUS
<1>4. ASSUME NEW i \in S, i < m PROVE FALSE
  <2>1. 1 .. i \in T /\ 1 .. i \subseteq 1 .. m /\ m \in 1 .. m /\ m \notin 1 .. i
    BY <1>4
  <2>2. <<1 .. i, 1 .. m>> \in StrictSubsetOrdering(Nat)
    BY <2>1 DEF StrictSubsetOrdering
  <2> QED
    BY <1>2, <1>3, <2>1, <2>2
<1>5. \A i \in S : m <= i
  BY <1>4
<1> QED
  BY <1>5 DEF Min

(* Counting down from a bound: a bounded set has a greatest number.        *)
LEMMA LastOf ==
  ASSUME NEW S, NEW k \in Nat, S \subseteq 1 .. k, S # {}
  PROVE  Max(S) \in S /\ \A x \in S : Max(S) >= x
<1> DEFINE R == {k - x : x \in S}
<1>0. \A x \in S : x \in Nat /\ k - x \in Nat
  OBVIOUS
<1>1. R \subseteq Nat /\ R # {}
  BY <1>0
<1> PICK r : r = Min(R)
  OBVIOUS
<1>2. r \in R /\ \A y \in R : r <= y
  BY <1>1, FirstOf
<1>3. PICK m \in S : r = k - m
  BY <1>2
<1>4. ASSUME NEW x \in S PROVE m >= x
  <2>1. k - m <= k - x
    BY <1>2, <1>3
  <2>2. m \in Nat /\ x \in Nat
    BY <1>0
  <2> QED
    BY <2>1, <2>2
<1> QED
  BY <1>4 DEF Max

(* Quotient and remainder are the only ones of their kind. *)
LEMMA Divided ==
  ASSUME NEW c \in Nat \ {0}, NEW h \in Nat, NEW r \in Nat, r < c,
         NEW n \in Nat, n = c * h + r
  PROVE  n \div c = h /\ n % c = r
<1> DEFINE q == n \div c
           t == n % c
<1>1. q \in Nat /\ t \in 0 .. (c - 1) /\ n = c * q + t
  BY Remainder
<1> HIDE DEF q, t
<1>2. c * h \in Nat /\ c * q \in Nat
  BY <1>1
<1>3. ~(h < q)
  <2> SUFFICES ASSUME h < q PROVE FALSE
    OBVIOUS
  <2>1. c * h + c <= c * q
    BY <1>1, TimesGrows
  <2> QED
    BY <1>1, <1>2, <2>1
<1>4. ~(q < h)
  <2> SUFFICES ASSUME q < h PROVE FALSE
    OBVIOUS
  <2>1. c * q + c <= c * h
    BY <1>1, TimesGrows
  <2> QED
    BY <1>1, <1>2, <2>1
<1>5. q = h
  BY <1>1, <1>3, <1>4
<1>6. t = r
  BY <1>1, <1>2, <1>5
<1> QED
  BY <1>5, <1>6 DEF q, t

-----------------------------------------------------------------------------
(* src/src/tree.c: its loops go up the levels.  f is a run of one of them  *)
(* over m levels, from x.                                                  *)
Passed(loop, i, y) ==
  CASE loop = "shift" -> 2 * y
    [] loop = "carry" -> Combined(i - 1, y)
    [] loop = "root"  -> IF ~Bit(leaf_count, i - 1) THEN y
                         ELSE IF y = Zero THEN frontier[i - 1]
                         ELSE Combined(i - 1, y)

IsLoop(loop, f, x, m) ==
  f = [i \in 0 .. m |-> IF i = 0 THEN x ELSE Passed(loop, i, f[i - 1])]

LEMMA LoopRuns == ASSUME NEW loop, NEW x, NEW m \in Nat PROVE \E f : IsLoop(loop, f, x, m)
<1> DEFINE Bad == {k \in Nat : ~\E f : IsLoop(loop, f, x, k)}
<1>1. ASSUME Bad # {} PROVE FALSE
  <2> PICK k : k = Min(Bad)
    OBVIOUS
  <2>1. k \in Bad /\ k \in Nat /\ \A j \in Bad : k <= j
    BY <1>1, FirstOf
  <2>2. CASE k = 0
    <3> DEFINE f == [i \in 0 .. 0 |-> x]
    <3>1. f = [i \in 0 .. 0 |-> IF i = 0 THEN x ELSE Passed(loop, i, f[i - 1])]
      OBVIOUS
    <3> QED
      BY <2>1, <2>2, <3>1 DEF IsLoop
  <2>3. CASE k # 0
    <3>1. k - 1 \in Nat /\ k - 1 \notin Bad
      <4> HIDE DEF Bad
      <4>1. k - 1 \in Nat /\ ~ (k <= k - 1)
        BY <2>1, <2>3
      <4> QED
        BY <2>1, <4>1
    <3>2. PICK f : IsLoop(loop, f, x, k - 1)
      BY <3>1
    <3> DEFINE g == [i \in 0 .. k |-> IF i < k THEN f[i] ELSE Passed(loop, k, f[k - 1])]
    <3>3. /\ \A i \in 0 .. (k - 1) : g[i] = f[i]
          /\ g[k] = Passed(loop, k, f[k - 1])
      <4>1. k \in Nat
        BY <2>1
      <4>2. \A i \in 0 .. (k - 1) : i \in 0 .. k /\ i < k
        BY <4>1
      <4>3. k \in 0 .. k /\ ~ (k < k)
        BY <4>1
      <4> QED
        BY <4>2, <4>3, Zenon
    <3>4. \A i \in 0 .. (k - 1) : f[i] = IF i = 0 THEN x ELSE Passed(loop, i, f[i - 1])
      BY <3>2, Zenon DEF IsLoop
    <3>5. ASSUME NEW i \in 0 .. k
          PROVE  g[i] = IF i = 0 THEN x ELSE Passed(loop, i, g[i - 1])
      <4> HIDE DEF g
      <4>1. CASE i = k
        <5>1. k - 1 \in 0 .. (k - 1)
          BY <2>1, <2>3
        <5> QED
          BY <2>3, <3>3, <4>1, <5>1, Zenon
      <4>2. CASE i = 0
        <5>1. 0 \in 0 .. (k - 1)
          BY <2>1, <2>3
        <5> QED
          BY <3>3, <3>4, <4>2, <5>1, Zenon
      <4>3. CASE i # k /\ i # 0
        <5>1. i \in 0 .. (k - 1) /\ i - 1 \in 0 .. (k - 1)
          BY <2>1, <4>3
        <5> QED
          BY <3>3, <3>4, <4>3, <5>1, Zenon
      <4> QED
        BY <4>1, <4>2, <4>3
    <3>6. g = [i \in 0 .. k |-> IF i = 0 THEN x ELSE Passed(loop, i, g[i - 1])]
      BY <3>5
    <3>7. IsLoop(loop, g, x, k)
      BY <3>6, Zenon DEF IsLoop
    <3> QED
      BY <2>1, <3>7
  <2> QED
    BY <2>2, <2>3
<1> QED
  BY <1>1

LEMMA WeightIsLoop == IsLoop("shift", Weight, 1, MERKLE_MAX_DEPTH)
<1>1. MERKLE_MAX_DEPTH \in Nat
  BY MerkleAssumption
<1>2. PICK f : IsLoop("shift", f, 1, MERKLE_MAX_DEPTH)
  BY <1>1, LoopRuns
<1>3. f = [i \in 0 .. MERKLE_MAX_DEPTH |-> IF i = 0 THEN 1 ELSE 2 * f[i - 1]]
  BY <1>2 DEF IsLoop, Passed
<1>4. Weight = [i \in 0 .. MERKLE_MAX_DEPTH |-> IF i = 0 THEN 1 ELSE 2 * Weight[i - 1]]
  BY <1>3 DEF Weight
<1> QED
  BY <1>4 DEF IsLoop, Passed

LEMMA Weights ==
  /\ Weight[0] = 1
  /\ \A i \in 0 .. MERKLE_MAX_DEPTH : Weight[i] \in Nat \ {0}
  /\ \A i \in Levels : Weight[i + 1] = 2 * Weight[i]
<1> DEFINE D == MERKLE_MAX_DEPTH
<1>1. D \in Nat \ {0}
  BY MerkleAssumption
<1> HIDE DEF D
<1>2. \A i \in 0 .. D : Weight[i] = IF i = 0 THEN 1 ELSE Passed("shift", i, Weight[i - 1])
  BY WeightIsLoop, Zenon DEF IsLoop, D
<1>3. \A i \in 0 .. D : Weight[i] = IF i = 0 THEN 1 ELSE 2 * Weight[i - 1]
  BY <1>2 DEF Passed
<1>4. Weight[0] = 1
  BY <1>1, <1>3
<1> DEFINE Bad == {i \in 0 .. D : Weight[i] \notin Nat \ {0}}
<1>5. ASSUME Bad # {} PROVE FALSE
  <2> PICK k : k = Min(Bad)
    OBVIOUS
  <2>1. Bad \subseteq Nat
    BY <1>1
  <2>2. k \in Bad /\ \A j \in Bad : k <= j
    BY <1>5, <2>1, FirstOf
  <2>3. k \in 0 .. D /\ Weight[k] \notin Nat \ {0}
    BY <2>2
  <2> HIDE DEF Bad
  <2>4. k # 0
    BY <1>4, <2>3
  <2>5. k - 1 \in 0 .. D /\ ~ (k <= k - 1)
    BY <1>1, <2>3, <2>4
  <2>6. Weight[k - 1] \in Nat \ {0}
    BY <2>2, <2>5 DEF Bad
  <2>7. Weight[k] = 2 * Weight[k - 1]
    BY <1>3, <2>3, <2>4
  <2> QED
    BY <2>3, <2>6, <2>7
<1>6. ASSUME NEW i \in Levels PROVE Weight[i + 1] = 2 * Weight[i]
  <2>1. i + 1 \in 0 .. D /\ i + 1 # 0 /\ (i + 1) - 1 = i
    BY <1>1 DEF Levels, D
  <2> QED
    BY <1>3, <2>1
<1> QED
  BY <1>4, <1>5, <1>6 DEF D

(* The weight of a level is at least twice that of any below. *)
LEMMA WeightsGrow ==
  ASSUME NEW i \in 0 .. MERKLE_MAX_DEPTH, NEW j \in 0 .. MERKLE_MAX_DEPTH, i < j
  PROVE  2 * Weight[i] <= Weight[j]
<1> DEFINE D == MERKLE_MAX_DEPTH
<1>1. D \in Nat \ {0}
  BY MerkleAssumption
<1> HIDE DEF D
<1>i. i \in 0 .. D /\ j \in 0 .. D
  BY DEF D
<1> DEFINE Bad == {n \in 0 .. D : i < n /\ ~ (2 * Weight[i] <= Weight[n])}
<1>2. ASSUME Bad # {} PROVE FALSE
  <2> PICK k : k = Min(Bad)
    OBVIOUS
  <2>1. Bad \subseteq Nat
    BY <1>1
  <2>2. k \in Bad /\ \A n \in Bad : k <= n
    BY <1>2, <2>1, FirstOf
  <2>3. k \in 0 .. D /\ i < k /\ ~ (2 * Weight[i] <= Weight[k])
    BY <2>2
  <2> HIDE DEF Bad
  <2>4. k - 1 \in 0 .. D /\ ~ (k <= k - 1) /\ k - 1 \in 0 .. (D - 1) /\ (k - 1) + 1 = k
    BY <1>1, <1>i, <2>3
  <2>5. Weight[k] = 2 * Weight[k - 1]
    <3>1. k - 1 \in Levels
      BY <2>4 DEF Levels, D
    <3> QED
      BY <2>4, <3>1, Weights
  <2>6. Weight[k] \in Nat \ {0} /\ Weight[k - 1] \in Nat \ {0} /\ Weight[i] \in Nat \ {0}
    BY <1>i, <2>3, <2>4, Weights DEF D
  <2>7. CASE i = k - 1
    BY <2>3, <2>5, <2>6, <2>7
  <2>8. CASE i # k - 1
    <3>1. i < k - 1
      BY <1>i, <2>3, <2>4, <2>8
    <3>2. 2 * Weight[i] <= Weight[k - 1]
      BY <2>2, <2>4, <3>1 DEF Bad
    <3> QED
      BY <2>3, <2>5, <2>6, <3>2
  <2> QED
    BY <2>7, <2>8
<1> QED
  BY <1>2, <1>i

(* A number, halved: the bit of a level is what goes into the remainder of *)
(* the next.                                                               *)
Splits(n, c, q, r) == n = c * q + r /\ r < c

LEMMA OddHalf ==
  ASSUME NEW c \in Nat \ {0}, NEW q \in Nat, NEW r \in Nat,
         NEW n \in Nat, Splits(n, c, q, r), q % 2 = 1
  PROVE  q = 2 * (n \div (2 * c)) + 1 /\ n % (2 * c) = r + c
<1> USE DEF Splits
<1> PICK d : d = 2 * c
  OBVIOUS
<1>1. d \in Nat \ {0} /\ r + c \in Nat /\ r + c < d
  OBVIOUS
<1> PICK h \in Nat : q = 2 * h + 1
  OBVIOUS
<1>2. c * q = d * h + c
  OBVIOUS
<1>3. d * h \in Nat /\ c * q \in Nat
  BY <1>1
<1>4. n = d * h + (r + c)
  BY <1>2, <1>3
<1>5. n \div d = h /\ n % d = r + c
  BY <1>1, <1>4, Divided
<1> QED
  BY <1>5

LEMMA EvenHalf ==
  ASSUME NEW c \in Nat \ {0}, NEW q \in Nat, NEW r \in Nat,
         NEW n \in Nat, Splits(n, c, q, r), q % 2 # 1
  PROVE  q = 2 * (n \div (2 * c)) /\ n % (2 * c) = r
<1> USE DEF Splits
<1> PICK d : d = 2 * c
  OBVIOUS
<1>1. d \in Nat \ {0} /\ r < d
  OBVIOUS
<1> PICK h \in Nat : q = 2 * h
  OBVIOUS
<1>2. c * q = d * h
  OBVIOUS
<1>3. n = d * h + r
  BY <1>2
<1>4. n \div d = h /\ n % d = r
  BY <1>1, <1>3, Divided
<1> QED
  BY <1>4

LEMMA Halved ==
  ASSUME NEW n \in Nat, NEW i \in Levels
  PROVE  /\ n \div Weight[i] \in Nat /\ n % Weight[i] \in Nat /\ n % Weight[i] < Weight[i]
         /\ n = Weight[i] * (n \div Weight[i]) + (n % Weight[i])
         /\ Bit(n, i) => /\ n \div Weight[i] = 2 * (n \div Weight[i + 1]) + 1
                         /\ n % Weight[i + 1] = (n % Weight[i]) + Weight[i]
         /\ ~Bit(n, i) => /\ n \div Weight[i] = 2 * (n \div Weight[i + 1])
                          /\ n % Weight[i + 1] = n % Weight[i]
<1>1. Weight[i] \in Nat \ {0} /\ Weight[i + 1] = 2 * Weight[i]
  <2>1. i \in 0 .. MERKLE_MAX_DEPTH
    BY MerkleAssumption DEF Levels
  <2> QED
    BY <2>1, Weights
<1>2. ASSUME NEW c \in Nat \ {0}
      PROVE  /\ n \div c \in Nat /\ n % c \in Nat /\ n % c < c
             /\ n = c * (n \div c) + (n % c)
             /\ (n \div c) % 2 = 1 => /\ n \div c = 2 * (n \div (2 * c)) + 1
                                      /\ n % (2 * c) = (n % c) + c
             /\ (n \div c) % 2 # 1 => /\ n \div c = 2 * (n \div (2 * c))
                                      /\ n % (2 * c) = n % c
  <2>1. n \div c \in Nat /\ n % c \in 0 .. (c - 1) /\ n = c * (n \div c) + (n % c)
    BY Remainder
  <2>2. n % c \in Nat /\ n % c < c
    BY <2>1
  <2>3. Splits(n, c, n \div c, n % c)
    BY <2>1, <2>2 DEF Splits
  <2>4. ASSUME NEW q \in Nat, NEW r \in Nat, Splits(n, c, q, r), q % 2 = 1
        PROVE  q = 2 * (n \div (2 * c)) + 1 /\ n % (2 * c) = r + c
    BY <2>4, OddHalf
  <2>5. ASSUME NEW q \in Nat, NEW r \in Nat, Splits(n, c, q, r), q % 2 # 1
        PROVE  q = 2 * (n \div (2 * c)) /\ n % (2 * c) = r
    BY <2>5, EvenHalf
  <2> QED
    BY <2>1, <2>2, <2>3, <2>4, <2>5, Zenon
<1> QED
  BY <1>1, <1>2 DEF Bit

-----------------------------------------------------------------------------
(* What there is to the left in a tree. *)
LEMMA LeftIn ==
  ASSUME NEW n \in Nat, n > 1
  PROVE  Left(n) \in 1 .. (n - 1) /\ n - Left(n) \in 1 .. (n - 1)
<1> DEFINE S == {Weight[i] : i \in 0 .. MERKLE_MAX_DEPTH} \cap 1 .. (n - 1)
<1>1. Weight[0] \in S
  <2>1. 0 \in 0 .. MERKLE_MAX_DEPTH /\ Weight[0] = 1 /\ 1 \in 1 .. (n - 1)
    BY MerkleAssumption, Weights
  <2> QED
    BY <2>1
<1>2. S \subseteq 1 .. (n - 1) /\ n - 1 \in Nat /\ Left(n) = Max(S)
  BY DEF Left
<1> HIDE DEF S
<1>3. Max(S) \in S
  BY <1>1, <1>2, LastOf
<1>4. Left(n) \in 1 .. (n - 1)
  BY <1>2, <1>3
<1> QED
  BY <1>4

LEMMA LeftIs ==
  ASSUME NEW i \in 0 .. MERKLE_MAX_DEPTH, NEW n \in Nat, Weight[i] < n, n <= 2 * Weight[i]
  PROVE  Left(n) = Weight[i]
<1> DEFINE S == {Weight[j] : j \in 0 .. MERKLE_MAX_DEPTH} \cap 1 .. (n - 1)
<1>1. Weight[i] \in Nat \ {0}
  BY Weights
<1>2. Weight[i] \in S
  <2>1. Weight[i] \in 1 .. (n - 1)
    BY <1>1
  <2> QED
    BY <2>1
<1>3. S \subseteq 1 .. (n - 1) /\ n - 1 \in Nat /\ Left(n) = Max(S)
  <2>1. n - 1 \in Nat
    BY <1>1
  <2> QED
    BY <2>1 DEF Left
<1>4. ASSUME NEW j \in 0 .. MERKLE_MAX_DEPTH, Weight[j] \in 1 .. (n - 1), Weight[j] > Weight[i]
      PROVE  FALSE
  <2>1. Weight[j] \in Nat
    BY <1>4
  <2>2. ~ (i < j)
    <3> SUFFICES ASSUME i < j PROVE FALSE
      OBVIOUS
    <3>1. 2 * Weight[i] <= Weight[j]
      BY WeightsGrow
    <3> QED
      BY <1>1, <1>4, <2>1, <3>1
  <2>3. ~ (j < i)
    <3> SUFFICES ASSUME j < i PROVE FALSE
      OBVIOUS
    <3>1. 2 * Weight[j] <= Weight[i]
      BY WeightsGrow
    <3> QED
      BY <1>1, <1>4, <2>1, <3>1
  <2>4. i = j
    BY <2>2, <2>3
  <2> QED
    BY <1>1, <1>4, <2>4
<1>5. \A x \in S : ~ (x > Weight[i])
  BY <1>4
<1> HIDE DEF S
<1>6. Max(S) \in S /\ Max(S) >= Weight[i]
  BY <1>2, <1>3, LastOf
<1>7. Max(S) \in Nat
  <2>1. Max(S) \in 1 .. (n - 1)
    BY <1>3, <1>6, Zenon
  <2> QED
    BY <2>1
<1> QED
  BY <1>1, <1>3, <1>5, <1>6, <1>7

(* A table of the trees of up to m leaves of s. *)
TreesOf(f, s, n) ==
  [from \in Nat |->
     IF n = 1 THEN LeafHash(s[from + 1])
              ELSE <<f[Left(n)][from], f[n - Left(n)][from + Left(n)]>>]

IsTrees(f, s, m) == f = [n \in 1 .. m |-> TreesOf(f, s, n)]

LEMMA TreesExist == ASSUME NEW s, NEW m \in Nat PROVE \E f : IsTrees(f, s, m)
<1> DEFINE Bad == {k \in Nat : ~\E f : IsTrees(f, s, k)}
<1>1. ASSUME Bad # {} PROVE FALSE
  <2> PICK k : k = Min(Bad)
    OBVIOUS
  <2>1. k \in Bad /\ k \in Nat /\ \A j \in Bad : k <= j
    BY <1>1, FirstOf
  <2>2. CASE k = 0
    <3> DEFINE f == [n \in 1 .. 0 |-> n]
    <3>1. 1 .. 0 = {}
      OBVIOUS
    <3>2. f = [n \in 1 .. 0 |-> TreesOf(f, s, n)]
      BY <3>1
    <3> QED
      BY <2>1, <2>2, <3>2 DEF IsTrees
  <2>3. CASE k # 0
    <3>1. k - 1 \in Nat /\ k - 1 \notin Bad
      <4> HIDE DEF Bad
      <4>1. k - 1 \in Nat /\ ~ (k <= k - 1)
        BY <2>1, <2>3
      <4> QED
        BY <2>1, <4>1
    <3>2. PICK f : IsTrees(f, s, k - 1)
      BY <3>1
    <3> DEFINE g == [n \in 1 .. k |-> IF n < k THEN f[n] ELSE TreesOf(f, s, k)]
    <3>3. /\ \A n \in 1 .. (k - 1) : g[n] = f[n]
          /\ g[k] = TreesOf(f, s, k)
      <4>1. k \in Nat
        BY <2>1
      <4>2. \A n \in 1 .. (k - 1) : n \in 1 .. k /\ n < k
        BY <4>1
      <4>3. k \in 1 .. k /\ ~ (k < k)
        BY <2>3, <4>1
      <4> QED
        BY <4>2, <4>3, Zenon
    <3>4. \A n \in 1 .. (k - 1) : f[n] = TreesOf(f, s, n)
      BY <3>2, Zenon DEF IsTrees
    <3>5. ASSUME NEW n \in 1 .. k PROVE TreesOf(g, s, n) = TreesOf(f, s, n)
      <4> HIDE DEF g
      <4>1. CASE n = 1
        BY <4>1 DEF TreesOf
      <4>2. CASE n # 1
        <5>1. n \in Nat /\ n > 1 /\ n - 1 <= k - 1
          BY <2>1, <4>2
        <5>2. Left(n) \in 1 .. (n - 1) /\ n - Left(n) \in 1 .. (n - 1)
          BY <5>1, LeftIn
        <5>3. Left(n) \in 1 .. (k - 1) /\ n - Left(n) \in 1 .. (k - 1)
          BY <2>1, <5>1, <5>2
        <5>4. g[Left(n)] = f[Left(n)] /\ g[n - Left(n)] = f[n - Left(n)]
          BY <3>3, <5>3
        <5> QED
          BY <5>4, Zenon DEF TreesOf
      <4> QED
        BY <4>1, <4>2
    <3>6. ASSUME NEW n \in 1 .. k PROVE g[n] = TreesOf(g, s, n)
      <4> HIDE DEF g
      <4>1. CASE n = k
        BY <3>3, <3>5, <4>1
      <4>2. CASE n # k
        <5>1. n \in 1 .. (k - 1)
          BY <2>1, <4>2
        <5> QED
          BY <3>3, <3>4, <3>5, <5>1, Zenon
      <4> QED
        BY <4>1, <4>2
    <3>7. g = [n \in 1 .. k |-> TreesOf(g, s, n)]
      BY <3>6
    <3>8. IsTrees(g, s, k)
      BY <3>7, Zenon DEF IsTrees
    <3> QED
      BY <2>1, <3>8
  <2> QED
    BY <2>2, <2>3
<1> QED
  BY <1>1

LEMMA TreeIsOf ==
  ASSUME NEW s, s # <<>>, Len(s) \in Nat
  PROVE  \E f : IsTrees(f, s, Len(s)) /\ Tree(s) = f[Len(s)][0]
<1> DEFINE tree == CHOOSE tree : IsTrees(tree, s, Len(s))
<1>1. IsTrees(tree, s, Len(s))
  BY TreesExist
<1>2. Tree(s) = tree[Len(s)][0]
  BY DEF Tree, IsTrees, TreesOf
<1> QED
  BY <1>1, <1>2

(* Equal leaves have equal trees, wherever they stand. *)
Alike(s, a, t, b, n) == \A j \in 1 .. n : s[a + j] = t[b + j]

LEMMA TreesAgree ==
  ASSUME NEW s, NEW t, NEW f, NEW g, NEW m \in Nat, NEW k \in Nat,
         IsTrees(f, s, m), IsTrees(g, t, k),
         NEW n \in 1 .. m, n <= k, NEW a \in Nat, NEW b \in Nat, Alike(s, a, t, b, n)
  PROVE  f[n][a] = g[n][b]
<1> DEFINE Bad == {i \in 1 .. m : /\ i <= k
                                  /\ \E c, d \in Nat : Alike(s, c, t, d, i) /\ f[i][c] # g[i][d]}
<1>1. /\ \A i \in 1 .. m : f[i] = TreesOf(f, s, i)
      /\ \A i \in 1 .. k : g[i] = TreesOf(g, t, i)
  BY Zenon DEF IsTrees
<1>2. ASSUME Bad # {} PROVE FALSE
  <2> PICK i : i = Min(Bad)
    OBVIOUS
  <2>1. Bad \subseteq Nat
    OBVIOUS
  <2>2. i \in Bad /\ \A j \in Bad : i <= j
    BY <1>2, <2>1, FirstOf
  <2>3. i \in 1 .. m /\ i <= k
    BY <2>2
  <2>4. PICK c, d \in Nat : Alike(s, c, t, d, i) /\ f[i][c] # g[i][d]
    BY <2>2
  <2>5. ASSUME NEW j \in 1 .. m, j < i, NEW x \in Nat, NEW y \in Nat, Alike(s, x, t, y, j)
        PROVE  f[j][x] = g[j][y]
    <3>1. j <= k /\ ~ (i <= j)
      BY <2>3, <2>5
    <3> HIDE DEF Bad
    <3>2. j \notin Bad
      BY <2>2, <3>1
    <3> QED
      BY <2>5, <3>1, <3>2 DEF Bad
  <2> HIDE DEF Bad
  <2>6. i \in 1 .. k
    BY <2>3
  <2>7. f[i][c] = TreesOf(f, s, i)[c] /\ g[i][d] = TreesOf(g, t, i)[d]
    BY <1>1, <2>3, <2>6
  <2>8. CASE i = 1
    <3>1. f[i][c] = LeafHash(s[c + 1]) /\ g[i][d] = LeafHash(t[d + 1])
      BY <2>7, <2>8 DEF TreesOf
    <3>2. s[c + 1] = t[d + 1]
      BY <2>4, <2>8 DEF Alike
    <3> QED
      BY <2>4, <3>1, <3>2
  <2>9. CASE i # 1
    <3> PICK l, r : l = Left(i) /\ r = i - Left(i)
      OBVIOUS
    <3>1. /\ f[i][c] = <<f[l][c], f[r][c + l]>>
          /\ g[i][d] = <<g[l][d], g[r][d + l]>>
      BY <2>7, <2>9 DEF TreesOf
    <3>2. i \in Nat /\ i > 1
      BY <2>3, <2>9
    <3>3. l \in 1 .. (i - 1) /\ r \in 1 .. (i - 1) /\ r = i - l
      BY <3>2, LeftIn
    <3>4. l \in 1 .. m /\ r \in 1 .. m /\ l < i /\ r < i /\ c + l \in Nat /\ d + l \in Nat
      BY <2>3, <3>3
    <3>5. Alike(s, c, t, d, l)
      <4>1. \A j \in 1 .. l : j \in 1 .. i
        BY <3>2, <3>3
      <4> QED
        BY <2>4, <4>1 DEF Alike
    <3>6. Alike(s, c + l, t, d + l, r)
      <4>1. \A j \in 1 .. r : l + j \in 1 .. i /\ c + (l + j) = (c + l) + j /\ d + (l + j) = (d + l) + j
        BY <3>2, <3>3
      <4>2. \A j \in 1 .. i : s[c + j] = t[d + j]
        BY <2>4 DEF Alike
      <4>3. ASSUME NEW j \in 1 .. r PROVE s[(c + l) + j] = t[(d + l) + j]
        BY <4>1, <4>2, Zenon
      <4> QED
        BY <4>3 DEF Alike
    <3>7. f[l][c] = g[l][d] /\ f[r][c + l] = g[r][d + l]
      BY <2>5, <3>4, <3>5, <3>6
    <3> QED
      BY <2>4, <3>1, <3>7
  <2> QED
    BY <2>8, <2>9
<1> QED
  BY <1>2

-----------------------------------------------------------------------------
(* The elements of s from a + 1 up to b. *)
Stretch(s, a, b) == SubSeq(s, a + 1, b)

LEMMA StretchIs ==
  ASSUME NEW S, NEW s \in Seq(S), NEW a \in Nat, NEW b \in Nat, a <= b, b <= Len(s)
  PROVE  /\ Stretch(s, a, b) \in Seq(S)
         /\ Len(Stretch(s, a, b)) = b - a
         /\ \A j \in 1 .. (b - a) : Stretch(s, a, b)[j] = s[a + j]
<1>1. ASSUME NEW x \in Nat, x = a + 1
      PROVE  /\ SubSeq(s, x, b) \in Seq(S)
             /\ Len(SubSeq(s, x, b)) = b - a
             /\ \A j \in 1 .. (b - a) : SubSeq(s, x, b)[j] = s[a + j]
  <2>1. \A j \in x .. b : s[j] \in S
    BY <1>1
  <2>2. SubSeq(s, x, b) \in Seq(S) /\ Len(SubSeq(s, x, b)) = b - a
    BY <1>1
  <2>3. ASSUME NEW j \in 1 .. (b - a) PROVE SubSeq(s, x, b)[j] = s[a + j]
    BY <1>1
  <2> QED
    BY <2>2, <2>3
<1> QED
  BY <1>1 DEF Stretch

LEMMA TreesOfTwo ==
  ASSUME NEW s, NEW u, NEW v,
         NEW l \in Nat \ {0}, NEW r \in Nat \ {0}, NEW n \in Nat, n = l + r, Left(n) = l,
         Len(s) = n, Len(u) = l, Len(v) = r, s # <<>>, u # <<>>, v # <<>>,
         Alike(s, 0, u, 0, l), Alike(s, l, v, 0, r)
  PROVE  Tree(s) = <<Tree(u), Tree(v)>>
<1>6. PICK f : IsTrees(f, s, n) /\ Tree(s) = f[n][0]
  BY TreeIsOf
<1>7. PICK g : IsTrees(g, u, l) /\ Tree(u) = g[l][0]
  BY TreeIsOf
<1>8. PICK h : IsTrees(h, v, r) /\ Tree(v) = h[r][0]
  BY TreeIsOf
<1>1. /\ l \in 1 .. n /\ r \in 1 .. n /\ n \in 1 .. n /\ n - l = r /\ n # 1 /\ 0 + l = l
      /\ l <= l /\ r <= r /\ 0 \in Nat /\ l \in Nat /\ r \in Nat
  OBVIOUS
<1>2. f[n] = TreesOf(f, s, n)
  BY <1>1, <1>6, Zenon DEF IsTrees
<1>3. TreesOf(f, s, n)[0] = <<f[Left(n)][0], f[n - Left(n)][0 + Left(n)]>>
  BY <1>1 DEF TreesOf
<1>4. f[n][0] = <<f[l][0], f[r][l]>>
  BY <1>1, <1>2, <1>3, Zenon
<1>5. f[l][0] = g[l][0]
  BY <1>1, <1>6, <1>7, TreesAgree
<1>9. f[r][l] = h[r][0]
  BY <1>1, <1>6, <1>8, TreesAgree
<1> QED
  BY <1>4, <1>5, <1>6, <1>7, <1>8, <1>9

Joins(s, u, v) == /\ Len(s) = Len(u) + Len(v)
                  /\ \A j \in 1 .. Len(u) : s[j] = u[j]
                  /\ \A j \in 1 .. Len(v) : s[Len(u) + j] = v[j]

(* The tree of two sequences, the left one as long as a level is heavy and *)
(* the right one no longer, is the pair of their trees.                    *)
LEMMA TreeOfTwo ==
  ASSUME NEW S, NEW s \in Seq(S), NEW u \in Seq(S), NEW v \in Seq(S),
         NEW i \in 0 .. MERKLE_MAX_DEPTH, Len(u) = Weight[i],
         Len(v) # 0, Len(v) <= Len(u), Joins(s, u, v)
  PROVE  Tree(s) = <<Tree(u), Tree(v)>>
<1> USE DEF Joins
<1>1. PICK n, l, r : n = Len(s) /\ l = Len(u) /\ r = Len(v)
  OBVIOUS
<1>2. l \in Nat \ {0} /\ r \in Nat \ {0} /\ n \in Nat /\ n = l + r /\ r <= l /\ l = Weight[i]
  <2>1. l = Weight[i] /\ Weight[i] \in Nat \ {0}
    BY <1>1, Weights
  <2>2. r \in Nat /\ r # 0 /\ n \in Nat
    BY <1>1
  <2> QED
    BY <1>1, <2>1, <2>2
<1>3. l < n /\ n <= 2 * l
  BY <1>2
<1>4. Left(n) = l
  BY <1>2, <1>3, LeftIs
<1>5. s # <<>> /\ u # <<>> /\ v # <<>>
  BY <1>1, <1>2
<1>9. Alike(s, 0, u, 0, l)
  <2>1. ASSUME NEW j \in 1 .. l PROVE s[0 + j] = u[0 + j]
    <3>1. 0 + j = j
      OBVIOUS
    <3> QED
      BY <1>1, <3>1
  <2> QED
    BY <2>1 DEF Alike
<1>10. Alike(s, l, v, 0, r)
  <2>1. ASSUME NEW j \in 1 .. r PROVE s[l + j] = v[0 + j]
    <3>1. 0 + j = j
      OBVIOUS
    <3> QED
      BY <1>1, <3>1
  <2> QED
    BY <2>1 DEF Alike
<1> QED
  BY <1>1, <1>2, <1>4, <1>5, <1>9, <1>10, TreesOfTwo

LEMMA TreeOfOne ==
  ASSUME NEW S, NEW s \in Seq(S), Len(s) = 1
  PROVE  Tree(s) = LeafHash(s[1])
<1>1. s # <<>> /\ Len(s) \in Nat /\ 1 \in 1 .. 1 /\ 0 \in Nat
  OBVIOUS
<1>2. PICK f : IsTrees(f, s, Len(s)) /\ Tree(s) = f[Len(s)][0]
  BY <1>1, TreeIsOf
<1>3. IsTrees(f, s, 1) /\ Tree(s) = f[1][0]
  BY <1>2
<1>4. f[1] = TreesOf(f, s, 1)
  BY <1>1, <1>3, Zenon DEF IsTrees
<1>5. TreesOf(f, s, 1)[0] = LeafHash(s[0 + 1])
  BY <1>1 DEF TreesOf
<1> QED
  BY <1>3, <1>4, <1>5

(* No leaves have the tree that no others have. *)
LEMMA TreeOfNone ==
  ASSUME NEW S, NEW s \in Seq(S)
  PROVE  Tree(s) = Zero <=> Len(s) = 0
<1>1. CASE s = <<>>
  BY <1>1 DEF Tree
<1>2. CASE s # <<>>
  <2>1. Len(s) \in Nat /\ Len(s) # 0 /\ Len(s) \in 1 .. Len(s) /\ 0 \in Nat
    BY <1>2
  <2>2. PICK f : IsTrees(f, s, Len(s)) /\ Tree(s) = f[Len(s)][0]
    BY <1>2, <2>1, TreeIsOf
  <2>3. f[Len(s)] = TreesOf(f, s, Len(s))
    BY <2>1, <2>2, Zenon DEF IsTrees
  <2>4. TreesOf(f, s, Len(s))[0] # Zero
    <3>1. CASE Len(s) = 1
      <4>1. TreesOf(f, s, Len(s))[0] = LeafHash(s[0 + 1])
        BY <2>1, <3>1 DEF TreesOf
      <4> QED
        BY <4>1 DEF LeafHash, Zero
    <3>2. CASE Len(s) # 1
      <4> PICK x, y : x = f[Left(Len(s))][0] /\ y = f[Len(s) - Left(Len(s))][0 + Left(Len(s))]
        OBVIOUS
      <4>1. TreesOf(f, s, Len(s))[0] = <<x, y>>
        BY <2>1, <3>2 DEF TreesOf
      <4> QED
        BY <4>1 DEF Zero
    <3> QED
      BY <3>1, <3>2
  <2> QED
    BY <2>1, <2>2, <2>3, <2>4
<1> QED
  BY <1>1, <1>2

-----------------------------------------------------------------------------
LEMMA RemainderLeq ==
  ASSUME NEW n \in Nat, NEW c \in Nat \ {0}
  PROVE  n % c \in Nat /\ n % c <= n
<1>1. n \div c \in Nat /\ n % c \in 0 .. (c - 1) /\ n = c * (n \div c) + (n % c)
  BY Remainder
<1>2. c * (n \div c) \in Nat
  BY <1>1
<1>3. n % c \in Nat
  BY <1>1
<1>4. ASSUME NEW p \in Nat, NEW r \in Nat, n = p + r PROVE r <= n
  BY <1>4
<1> QED
  BY <1>1, <1>2, <1>3, <1>4, Zenon

(* Counting one leaf more. *)
LEMMA AddOne ==
  ASSUME NEW n \in Nat, NEW c \in Nat \ {0}
  PROVE  /\ n % c = c - 1 => (n + 1) \div c = n \div c + 1 /\ (n + 1) % c = 0
         /\ (n % c) + 1 < c => (n + 1) \div c = n \div c /\ (n + 1) % c = (n % c) + 1
<1>1. ASSUME NEW q \in Nat, NEW r \in Nat, n = c * q + r, r = c - 1
      PROVE  (n + 1) \div c = q + 1 /\ (n + 1) % c = 0
  <2>1. c * (q + 1) = c * q + c /\ c * q \in Nat
    OBVIOUS
  <2>2. n + 1 = c * (q + 1) + 0 /\ n + 1 \in Nat /\ q + 1 \in Nat /\ 0 \in Nat /\ 0 < c
    BY <1>1, <2>1
  <2> QED
    BY <2>2, Divided
<1>2. ASSUME NEW q \in Nat, NEW r \in Nat, n = c * q + r, r + 1 < c
      PROVE  (n + 1) \div c = q /\ (n + 1) % c = r + 1
  <2>1. c * q \in Nat
    OBVIOUS
  <2>2. n + 1 = c * q + (r + 1) /\ n + 1 \in Nat /\ r + 1 \in Nat
    BY <1>2, <2>1
  <2> QED
    BY <1>2, <2>2, Divided
<1>3. n \div c \in Nat /\ n % c \in Nat /\ n = c * (n \div c) + (n % c)
  <2>1. n \div c \in Nat /\ n % c \in 0 .. (c - 1) /\ n = c * (n \div c) + (n % c)
    BY Remainder
  <2> QED
    BY <2>1
<1> QED
  BY <1>1, <1>2, <1>3, Zenon

LEMMA DepthIs ==
  /\ MERKLE_MAX_DEPTH \in Nat \ {0}
  /\ \A i \in Levels : /\ i \in 0 .. MERKLE_MAX_DEPTH /\ i + 1 \in 0 .. MERKLE_MAX_DEPTH
                       /\ i \in Nat
                       /\ Weight[i] \in Nat \ {0} /\ Weight[i + 1] = 2 * Weight[i]
<1>1. MERKLE_MAX_DEPTH \in Nat \ {0}
  BY MerkleAssumption
<1>2. \A i \in Levels : i \in 0 .. MERKLE_MAX_DEPTH /\ i + 1 \in 0 .. MERKLE_MAX_DEPTH /\ i \in Nat
  BY <1>1 DEF Levels
<1> QED
  BY <1>1, <1>2, Weights

(* Below a run of ones the remainders are as large as they can be. *)
LEMMA LowOnes ==
  ASSUME NEW n \in Nat, NEW m \in 0 .. MERKLE_MAX_DEPTH,
         \A i \in Levels : i < m => Bit(n, i),
         NEW j \in 0 .. m
  PROVE  n % Weight[j] = Weight[j] - 1
<1> DEFINE Bad == {i \in 0 .. m : n % Weight[i] # Weight[i] - 1}
<1>1. ASSUME Bad # {} PROVE FALSE
  <2> PICK k : k = Min(Bad)
    OBVIOUS
  <2>1. Bad \subseteq Nat
    OBVIOUS
  <2>2. k \in Bad /\ \A i \in Bad : k <= i
    BY <1>1, <2>1, FirstOf
  <2>3. k \in 0 .. m /\ n % Weight[k] # Weight[k] - 1
    BY <2>2
  <2> HIDE DEF Bad
  <2>4. k # 0
    <3>1. n % 1 = 0
      OBVIOUS
    <3> QED
      BY <2>3, <3>1, Weights
  <2>5. k - 1 \in 0 .. m /\ k - 1 \in 0 .. (MERKLE_MAX_DEPTH - 1) /\ ~ (k <= k - 1)
        /\ (k - 1) + 1 = k /\ k - 1 < m
    BY <2>3, <2>4, DepthIs
  <2>6. k - 1 \in Levels /\ Bit(n, k - 1)
    BY <2>5 DEF Levels
  <2>7. n % Weight[k - 1] = Weight[k - 1] - 1
    BY <2>2, <2>5 DEF Bad
  <2>8. n % Weight[k] = (n % Weight[k - 1]) + Weight[k - 1]
    BY <2>5, <2>6, Halved
  <2>9. Weight[k - 1] \in Nat \ {0} /\ Weight[k] = 2 * Weight[k - 1]
    BY <2>5, <2>6, DepthIs
  <2>10. ASSUME NEW w \in Nat \ {0} PROVE (w - 1) + w = 2 * w - 1
    OBVIOUS
  <2> QED
    BY <2>3, <2>7, <2>8, <2>9, <2>10
<1> QED
  BY <1>1

(* Above a zero they are smaller. *)
LEMMA HighRoom ==
  ASSUME NEW n \in Nat, NEW m \in Levels, ~Bit(n, m),
         NEW j \in 0 .. MERKLE_MAX_DEPTH, m < j
  PROVE  (n % Weight[j]) + 1 < Weight[j]
<1> DEFINE Bad == {i \in 0 .. MERKLE_MAX_DEPTH : m < i /\ ~ ((n % Weight[i]) + 1 < Weight[i])}
<1>0. m \in Nat
  BY DepthIs
<1>1. ASSUME Bad # {} PROVE FALSE
  <2> PICK k : k = Min(Bad)
    OBVIOUS
  <2>1. Bad \subseteq Nat
    BY DepthIs
  <2>2. k \in Bad /\ \A i \in Bad : k <= i
    BY <1>1, <2>1, FirstOf
  <2>3. k \in 0 .. MERKLE_MAX_DEPTH /\ m < k /\ ~ ((n % Weight[k]) + 1 < Weight[k])
    BY <2>2
  <2> HIDE DEF Bad
  <2>4. k - 1 \in 0 .. MERKLE_MAX_DEPTH /\ k - 1 \in 0 .. (MERKLE_MAX_DEPTH - 1)
        /\ ~ (k <= k - 1) /\ (k - 1) + 1 = k /\ (k - 1 = m \/ m < k - 1)
    BY <1>0, <2>3, DepthIs
  <2>5. k - 1 \in Levels
    BY <2>4 DEF Levels
  <2> PICK c : c = k - 1
    OBVIOUS
  <2>6. /\ Weight[c] \in Nat \ {0} /\ Weight[c + 1] = 2 * Weight[c]
        /\ n % Weight[c] \in Nat /\ n % Weight[c] < Weight[c]
        /\ Bit(n, c) => n % Weight[c + 1] = (n % Weight[c]) + Weight[c]
        /\ ~Bit(n, c) => n % Weight[c + 1] = n % Weight[c]
    BY <2>5, DepthIs, Halved
  <2>7. k = c + 1
    BY <2>4
  <2>8. ASSUME NEW w \in Nat \ {0}, NEW r \in Nat, r < w PROVE r + 1 < 2 * w
    BY <2>8
  <2>9. ASSUME NEW w \in Nat \ {0}, NEW r \in Nat, r + 1 < w PROVE (r + w) + 1 < 2 * w
    BY <2>9
  <2>10. CASE ~Bit(n, c)
    BY <2>3, <2>6, <2>7, <2>8, <2>10
  <2>11. CASE Bit(n, c)
    <3>1. m < c /\ c \in 0 .. MERKLE_MAX_DEPTH /\ ~ (k <= c)
      BY <2>4, <2>11
    <3>2. (n % Weight[c]) + 1 < Weight[c]
      BY <2>2, <3>1 DEF Bad
    <3> QED
      BY <2>3, <2>6, <2>7, <2>9, <2>11, <3>2
  <2> QED
    BY <2>10, <2>11
<1> QED
  BY <1>1

(* The leaves of the subtrees of level i and above come first. *)
Above(n, i) == n - (n % Weight[i])

LEMMA AboveIs ==
  ASSUME NEW n \in Nat, NEW i \in Levels
  PROVE  /\ Above(n, i) \in Nat /\ Above(n, i + 1) \in Nat
         /\ Above(n, i + 1) <= Above(n, i) /\ Above(n, i) <= n
         /\ n - Above(n, i) = n % Weight[i]
         /\ Bit(n, i) => Above(n, i) = Above(n, i + 1) + Weight[i]
         /\ ~Bit(n, i) => Above(n, i) = Above(n, i + 1)
<1>1. ASSUME NEW w \in Nat \ {0}
      PROVE  /\ n % w \in Nat
             /\ n - (n % w) \in Nat /\ n - (n % w) <= n
             /\ n - (n - (n % w)) = n % w
  <2>1. ASSUME NEW r \in Nat, r <= n
        PROVE  n - r \in Nat /\ n - r <= n /\ n - (n - r) = r
    BY <2>1
  <2>2. n % w \in Nat /\ n % w <= n
    BY RemainderLeq
  <2> QED
    BY <2>1, <2>2, Zenon
<1>2. ASSUME NEW c \in 0 .. MERKLE_MAX_DEPTH
      PROVE  /\ Above(n, c) \in Nat /\ Above(n, c) <= n /\ n - Above(n, c) = n % Weight[c]
             /\ n % Weight[c] \in Nat
  <2>1. Weight[c] \in Nat \ {0}
    BY Weights
  <2> QED
    BY <1>1, <2>1, Zenon DEF Above
<1>3. i \in 0 .. MERKLE_MAX_DEPTH /\ i + 1 \in 0 .. MERKLE_MAX_DEPTH /\ Weight[i] \in Nat \ {0}
  BY DepthIs
<1>4. /\ Bit(n, i) => n % Weight[i + 1] = (n % Weight[i]) + Weight[i]
      /\ ~Bit(n, i) => n % Weight[i + 1] = n % Weight[i]
  BY Halved
<1>5. ASSUME NEW r \in Nat, NEW w \in Nat PROVE n - r = (n - (r + w)) + w /\ n - (r + w) <= n - r
  OBVIOUS
<1>6. CASE Bit(n, i)
  <2>1. Above(n, i) = Above(n, i + 1) + Weight[i] /\ Above(n, i + 1) <= Above(n, i)
    BY <1>2, <1>3, <1>4, <1>5, <1>6 DEF Above
  <2> QED
    BY <1>2, <1>3, <1>6, <2>1
<1>7. CASE ~Bit(n, i)
  <2>1. Above(n, i) = Above(n, i + 1)
    BY <1>4, <1>7 DEF Above
  <2> QED
    BY <1>2, <1>3, <1>7, <2>1
<1> QED
  BY <1>6, <1>7

MerkleInv ==
  /\ leaf_count \in Nat
  /\ leaves \in Seq(Leaf)
  /\ Len(leaves) = leaf_count
  /\ frontier = [i \in Levels |-> frontier[i]]
  /\ \A i \in Levels : Bit(leaf_count, i) =>
       frontier[i] = Tree(Stretch(leaves, Above(leaf_count, i + 1), Above(leaf_count, i)))

LEMMA RootIsLoop == \E f : IsLoop("root", f, Zero, MERKLE_MAX_DEPTH) /\ Root = f[MERKLE_MAX_DEPTH]
<1> DEFINE below == CHOOSE g : IsLoop("root", g, Zero, MERKLE_MAX_DEPTH)
<1>1. IsLoop("root", below, Zero, MERKLE_MAX_DEPTH)
  BY LoopRuns, MerkleAssumption
<1>2. ASSUME NEW g
      PROVE  IsLoop("root", g, Zero, MERKLE_MAX_DEPTH) <=>
        g = [i \in 0 .. MERKLE_MAX_DEPTH |->
               IF i = 0 THEN Zero
               ELSE IF ~Bit(leaf_count, i - 1) THEN g[i - 1]
               ELSE IF g[i - 1] = Zero THEN frontier[i - 1]
               ELSE Combined(i - 1, g[i - 1])]
  BY DEF IsLoop, Passed
<1>3. below = CHOOSE g : g =
        [i \in 0 .. MERKLE_MAX_DEPTH |->
           IF i = 0 THEN Zero
           ELSE IF ~Bit(leaf_count, i - 1) THEN g[i - 1]
           ELSE IF g[i - 1] = Zero THEN frontier[i - 1]
           ELSE Combined(i - 1, g[i - 1])]
  BY <1>2
<1>4. Root = below[MERKLE_MAX_DEPTH]
  BY <1>3 DEF Root
<1> QED
  BY <1>1, <1>4

(* The tree of a stretch that is as long as a level is heavy and one after *)
(* it that is no longer.                                                   *)
LEMMA TwoStretches ==
  ASSUME NEW S, NEW s \in Seq(S), NEW a \in Nat, NEW b \in Nat, NEW n \in Nat,
         a <= b, b <= n, b # n, n <= Len(s),
         NEW i \in 0 .. MERKLE_MAX_DEPTH, b - a = Weight[i], n - b <= Weight[i]
  PROVE  Tree(Stretch(s, a, n)) = <<Tree(Stretch(s, a, b)), Tree(Stretch(s, b, n))>>
<1> DEFINE t == Stretch(s, a, n)
           u == Stretch(s, a, b)
           v == Stretch(s, b, n)
<1>1. b <= Len(s) /\ a <= n /\ Len(s) \in Nat
  OBVIOUS
<1>2. u \in Seq(S) /\ Len(u) = b - a /\ \A j \in 1 .. (b - a) : u[j] = s[a + j]
  BY <1>1, StretchIs
<1>3. v \in Seq(S) /\ Len(v) = n - b /\ \A j \in 1 .. (n - b) : v[j] = s[b + j]
  BY <1>1, StretchIs
<1>4. t \in Seq(S) /\ Len(t) = n - a /\ \A j \in 1 .. (n - a) : t[j] = s[a + j]
  BY <1>1, StretchIs
<1> HIDE DEF t, u, v
<1>5. n - a = (b - a) + (n - b) /\ n - b # 0
  OBVIOUS
<1>6. \A j \in 1 .. (b - a) : j \in 1 .. (n - a)
  OBVIOUS
<1>7. \A j \in 1 .. (n - b) : (b - a) + j \in 1 .. (n - a) /\ a + ((b - a) + j) = b + j
  OBVIOUS
<1>8. /\ Len(u) = Weight[i] /\ Len(v) # 0 /\ Len(v) <= Len(u) /\ Len(t) = Len(u) + Len(v)
  BY <1>2, <1>3, <1>4, <1>5
<1>9. \A j \in 1 .. Len(u) : t[j] = u[j]
  BY <1>2, <1>4, <1>6, Zenon
<1>10. \A j \in 1 .. Len(v) : t[Len(u) + j] = v[j]
  BY <1>2, <1>3, <1>4, <1>7, Zenon
<1>11. Joins(t, u, v)
  BY <1>8, <1>9, <1>10, Zenon DEF Joins
<1>12. u \in Seq(S) /\ v \in Seq(S) /\ t \in Seq(S)
  BY <1>2, <1>3, <1>4
<1>13. Tree(t) = <<Tree(u), Tree(v)>>
  BY <1>8, <1>11, <1>12, TreeOfTwo
<1> QED
  BY <1>13 DEF t, u, v

(* The stretch of a level and what comes after it. *)
LEMMA BelowStep ==
  ASSUME MerkleInv, NEW i \in Levels, Bit(leaf_count, i)
  PROVE  LET rest == Stretch(leaves, Above(leaf_count, i), leaf_count)
         IN  Tree(Stretch(leaves, Above(leaf_count, i + 1), leaf_count)) =
               IF Tree(rest) = Zero THEN frontier[i] ELSE <<frontier[i], Tree(rest)>>
<1> DEFINE n == leaf_count
           a == Above(n, i + 1)
           b == Above(n, i)
<1>1. leaves \in Seq(Leaf) /\ Len(leaves) = n /\ n \in Nat
  BY DEF MerkleInv
<1>2. i \in 0 .. MERKLE_MAX_DEPTH /\ Weight[i] \in Nat \ {0}
  BY DepthIs
<1>3. a \in Nat /\ b \in Nat /\ a <= b /\ b <= n /\ b = a + Weight[i]
      /\ n - b = n % Weight[i]
  BY <1>1, AboveIs
<1>4. n % Weight[i] \in Nat /\ n % Weight[i] < Weight[i]
  BY <1>1, Halved
<1>5. frontier[i] = Tree(Stretch(leaves, a, b))
  BY DEF MerkleInv
<1> HIDE DEF n, a, b
<1>6. b - a = Weight[i] /\ n - b <= Weight[i] /\ n <= Len(leaves)
  BY <1>1, <1>2, <1>3, <1>4
<1>10. leaves \in Seq(Leaf) /\ n \in Nat /\ a \in Nat /\ b \in Nat /\ a <= b /\ b <= n
       /\ n <= Len(leaves)
  BY <1>1, <1>3, <1>6
<1>7. Tree(Stretch(leaves, b, n)) = Zero <=> b = n
  <2>1. Stretch(leaves, b, n) \in Seq(Leaf) /\ Len(Stretch(leaves, b, n)) = n - b
    BY <1>10, StretchIs
  <2>2. n - b = 0 <=> b = n
    BY <1>1, <1>3
  <2> QED
    BY <2>1, <2>2, TreeOfNone
<1>8. CASE b = n
  BY <1>5, <1>7, <1>8 DEF n, a, b
<1>9. CASE b # n
  <2>1. Tree(Stretch(leaves, a, n)) = <<Tree(Stretch(leaves, a, b)), Tree(Stretch(leaves, b, n))>>
    BY <1>2, <1>6, <1>9, <1>10, TwoStretches
  <2> QED
    BY <1>5, <1>7, <1>9, <2>1 DEF n, a, b
<1> QED
  BY <1>8, <1>9

LEMMA RootIsLatest == MerkleInv => RootOfTheLatest
<1> SUFFICES ASSUME MerkleInv PROVE RootOfTheLatest
  OBVIOUS
<1> DEFINE n == leaf_count
           D == MERKLE_MAX_DEPTH
           T(i) == Tree(Stretch(leaves, Above(n, i), n))
<1>1. leaves \in Seq(Leaf) /\ Len(leaves) = n /\ n \in Nat /\ D \in Nat \ {0}
  BY DepthIs DEF MerkleInv
<1>2. PICK f : IsLoop("root", f, Zero, D) /\ Root = f[D]
  BY RootIsLoop
<1>3. \A i \in 0 .. D : f[i] = IF i = 0 THEN Zero ELSE Passed("root", i, f[i - 1])
  BY <1>2, Zenon DEF IsLoop
<1> DEFINE Bad == {i \in 0 .. D : f[i] # T(i)}
<1>4. ASSUME Bad # {} PROVE FALSE
  <2> PICK k : k = Min(Bad)
    OBVIOUS
  <2>1. Bad \subseteq Nat
    BY <1>1
  <2>2. k \in Bad /\ \A i \in Bad : k <= i
    BY <1>4, <2>1, FirstOf
  <2>3. k \in 0 .. D /\ f[k] # T(k)
    BY <2>2
  <2>4. CASE k = 0
    <3>1. n % 1 = 0 /\ n - 0 = n
      BY <1>1
    <3>2. Above(n, 0) = n
      BY <3>1, Weights DEF Above
    <3>3. Stretch(leaves, n, n) \in Seq(Leaf) /\ Len(Stretch(leaves, n, n)) = n - n
      BY <1>1, StretchIs
    <3>4. T(0) = Zero
      <4>1. n - n = 0
        BY <1>1
      <4> QED
        BY <3>2, <3>3, <4>1, TreeOfNone
    <3>5. f[0] = Zero
      BY <1>3, <2>3, <2>4
    <3> QED
      BY <2>3, <2>4, <3>4, <3>5
  <2>5. CASE k # 0
    <3> HIDE DEF Bad
    <3>1. k - 1 \in 0 .. D /\ k - 1 \in 0 .. (D - 1) /\ ~ (k <= k - 1) /\ (k - 1) + 1 = k
      BY <1>1, <2>3, <2>5
    <3>2. f[k - 1] = T(k - 1)
      BY <2>2, <3>1 DEF Bad
    <3>3. k - 1 \in Levels
      BY <3>1 DEF Levels
    <3>4. f[k] = Passed("root", k, f[k - 1])
      BY <1>3, <2>3, <2>5
    <3>5. CASE ~Bit(n, k - 1)
      <4>1. Above(n, k) = Above(n, k - 1)
        BY <1>1, <3>1, <3>3, <3>5, AboveIs
      <4>2. f[k] = f[k - 1]
        BY <3>4, <3>5 DEF Passed
      <4> QED
        BY <2>3, <3>2, <4>1, <4>2
    <3>6. CASE Bit(n, k - 1)
      <4>1. T(k) = IF T(k - 1) = Zero THEN frontier[k - 1] ELSE <<frontier[k - 1], T(k - 1)>>
        BY <3>1, <3>3, <3>6, BelowStep
      <4>2. f[k] = IF f[k - 1] = Zero THEN frontier[k - 1] ELSE <<frontier[k - 1], f[k - 1]>>
        BY <3>4, <3>6 DEF Passed, Combined
      <4> QED
        BY <2>3, <3>2, <4>1, <4>2
    <3> QED
      BY <3>5, <3>6
  <2> QED
    BY <2>4, <2>5
<1>5. D \in 0 .. D
  BY <1>1
<1>6. Root = T(D)
  BY <1>2, <1>4, <1>5
<1> QED
  BY <1>1, <1>6 DEF RootOfTheLatest, Stretch, Above

LEMMA StretchAppend ==
  ASSUME NEW S, NEW s \in Seq(S), NEW d \in S, NEW a \in Nat, NEW b \in Nat, a <= b, b <= Len(s)
  PROVE  Stretch(Append(s, d), a, b) = Stretch(s, a, b)
<1> DEFINE t == Append(s, d)
<1>1. t \in Seq(S) /\ b <= Len(t) /\ \A j \in 1 .. Len(s) : t[j] = s[j]
  OBVIOUS
<1> HIDE DEF t
<1>2. /\ Stretch(s, a, b) \in Seq(S) /\ Len(Stretch(s, a, b)) = b - a
      /\ \A j \in 1 .. (b - a) : Stretch(s, a, b)[j] = s[a + j]
  BY StretchIs
<1>3. /\ Stretch(t, a, b) \in Seq(S) /\ Len(Stretch(t, a, b)) = b - a
      /\ \A j \in 1 .. (b - a) : Stretch(t, a, b)[j] = t[a + j]
  <2>1. t \in Seq(S) /\ b <= Len(t)
    BY <1>1
  <2> HIDE <1>1
  <2> QED
    BY <2>1, StretchIs, Zenon
<1>4. \A j \in 1 .. (b - a) : a + j \in 1 .. Len(s)
  OBVIOUS
<1>5. \A j \in 1 .. (b - a) : Stretch(t, a, b)[j] = Stretch(s, a, b)[j]
  BY <1>1, <1>2, <1>3, <1>4, Zenon
<1>6. ASSUME NEW x \in Seq(S), NEW y \in Seq(S), NEW k, Len(x) = k, Len(y) = k,
             \A j \in 1 .. k : x[j] = y[j]
      PROVE  x = y
  BY <1>6
<1>7. Stretch(t, a, b) = Stretch(s, a, b)
  BY <1>2, <1>3, <1>5, <1>6, Zenon
<1> QED
  BY <1>7 DEF t

LEMMA Spans ==
  ASSUME NEW n \in Nat, NEW w \in Nat \ {0}, NEW a \in Nat, NEW b \in Nat,
         b = n - (w - 1) /\ a = n - (2 * w - 1) /\ b <= n
  PROVE  /\ b = n + 1 - w /\ a = n + 1 - 2 * w /\ b - a = w /\ (n + 1) - b = w
         /\ (n + 1) - b <= w /\ b # n + 1 /\ b <= n + 1 /\ n + 1 \in Nat
  OBVIOUS

LEMMA CarryIsLoop ==
  ASSUME NEW d, merkle_append(d)
  PROVE  \E f : /\ IsLoop("carry", f, LeafHash(d), MERKLE_MAX_DEPTH - 1)
                /\ LET free == {i \in Levels : ~Bit(leaf_count, i)}
                   IN  frontier' = IF free = {} THEN frontier
                                   ELSE [frontier EXCEPT ![Min(free)] = f[Min(free)]]
<1> DEFINE carried == CHOOSE g : IsLoop("carry", g, LeafHash(d), MERKLE_MAX_DEPTH - 1)
<1>1. IsLoop("carry", carried, LeafHash(d), MERKLE_MAX_DEPTH - 1)
  <2>1. MERKLE_MAX_DEPTH - 1 \in Nat
    BY MerkleAssumption
  <2> QED
    BY <2>1, LoopRuns
<1>2. carried = CHOOSE g : g =
        [i \in Levels |-> IF i = 0 THEN LeafHash(d) ELSE Combined(i - 1, g[i - 1])]
  BY DEF IsLoop, Passed, Levels
<1> HIDE DEF carried
<1>3. frontier' = IF {i \in Levels : ~Bit(leaf_count, i)} = {} THEN frontier
                  ELSE [frontier EXCEPT ![Min({i \in Levels : ~Bit(leaf_count, i)})] =
                          carried[Min({i \in Levels : ~Bit(leaf_count, i)})]]
  BY <1>2 DEF merkle_append
<1> QED
  BY <1>1, <1>3

(* What is carried up to a level is the tree of the newest leaves. *)
LEMMA CarryIs ==
  ASSUME MerkleInv, NEW d \in Leaf, NEW m \in Levels,
         \A i \in Levels : i < m => Bit(leaf_count, i),
         NEW f, IsLoop("carry", f, LeafHash(d), MERKLE_MAX_DEPTH - 1),
         NEW j \in 0 .. m
  PROVE  f[j] = Tree(Stretch(Append(leaves, d), leaf_count + 1 - Weight[j], leaf_count + 1))
<1> DEFINE n == leaf_count
           D == MERKLE_MAX_DEPTH
           s == Append(leaves, d)
           T(i) == Tree(Stretch(s, n + 1 - Weight[i], n + 1))
<1>1. n \in Nat /\ D \in Nat \ {0} /\ leaves \in Seq(Leaf) /\ Len(leaves) = n
  BY DepthIs DEF MerkleInv
<1>2. s \in Seq(Leaf) /\ Len(s) = n + 1 /\ s[n + 1] = d
  BY <1>1
<1>3. \A i \in 0 .. (D - 1) : f[i] = IF i = 0 THEN LeafHash(d) ELSE Passed("carry", i, f[i - 1])
  BY Zenon DEF IsLoop
<1>4. m \in 0 .. D /\ m \in 0 .. (D - 1)
  BY DepthIs DEF Levels
<1> HIDE DEF s
<1> DEFINE Bad == {i \in 0 .. m : f[i] # T(i)}
<1>5. ASSUME Bad # {} PROVE FALSE
  <2> PICK k : k = Min(Bad)
    OBVIOUS
  <2>1. Bad \subseteq Nat
    OBVIOUS
  <2>2. k \in Bad /\ \A i \in Bad : k <= i
    BY <1>5, <2>1, FirstOf
  <2>3. k \in 0 .. m /\ f[k] # T(k)
    BY <2>2
  <2>4. CASE k = 0
    <3>1. n + 1 - 1 = n /\ n <= n + 1 /\ n + 1 \in Nat /\ n + 1 <= Len(s) /\ (n + 1) - n = 1
          /\ 1 \in 1 .. 1
      BY <1>1, <1>2
    <3>2. /\ Stretch(s, n, n + 1) \in Seq(Leaf) /\ Len(Stretch(s, n, n + 1)) = (n + 1) - n
          /\ \A i \in 1 .. ((n + 1) - n) : Stretch(s, n, n + 1)[i] = s[n + i]
      <4>1. s \in Seq(Leaf) /\ n \in Nat /\ n + 1 \in Nat /\ n <= n + 1 /\ n + 1 <= Len(s)
        BY <1>1, <1>2, <3>1
      <4> QED
        BY <4>1, StretchIs, Zenon
    <3>3. Stretch(s, n, n + 1)[1] = d /\ Len(Stretch(s, n, n + 1)) = 1
      BY <1>2, <3>1, <3>2
    <3>4. Tree(Stretch(s, n, n + 1)) = LeafHash(d)
      BY <3>2, <3>3, TreeOfOne
    <3>5. f[0] = LeafHash(d)
      BY <1>1, <1>3
    <3>6. T(0) = Tree(Stretch(s, n, n + 1))
      BY <3>1, Weights
    <3> QED
      BY <2>3, <2>4, <3>4, <3>5, <3>6
  <2>5. CASE k # 0
    <3> HIDE DEF Bad
    <3> PICK c : c = k - 1
      OBVIOUS
    <3>1. c \in 0 .. m /\ c \in 0 .. (D - 1) /\ ~ (k <= c) /\ k = c + 1 /\ c < m
          /\ k \in 0 .. (D - 1) /\ c \in 0 .. D /\ k \in 0 .. D
      BY <1>1, <1>4, <2>3, <2>5
    <3>2. f[c] = T(c)
      BY <2>2, <3>1 DEF Bad
    <3>3. c \in Levels /\ Bit(n, c)
      BY <3>1 DEF Levels
    <3>4. f[k] = <<frontier[c], f[c]>>
      BY <1>3, <2>5, <3>1 DEF Passed, Combined
    <3>5. frontier[c] = Tree(Stretch(leaves, Above(n, c + 1), Above(n, c)))
      BY <3>3 DEF MerkleInv
    <3>6. /\ n % Weight[c] = Weight[c] - 1 /\ n % Weight[k] = Weight[k] - 1
          /\ Weight[c] \in Nat \ {0} /\ Weight[k] = 2 * Weight[c]
          /\ Above(n, c + 1) \in Nat /\ Above(n, c) \in Nat
          /\ Above(n, c + 1) <= Above(n, c) /\ Above(n, c) <= n
      <4>1. n % Weight[c] = Weight[c] - 1
        BY <1>1, <1>4, <3>1, LowOnes
      <4>2. n % Weight[k] = Weight[k] - 1
        BY <1>1, <1>4, <2>3, LowOnes
      <4>3. Weight[c] \in Nat \ {0} /\ Weight[k] = 2 * Weight[c]
        BY <3>1, <3>3, DepthIs
      <4> QED
        BY <1>1, <3>3, <4>1, <4>2, <4>3, AboveIs
    <3>14. PICK a, b, w : a = Above(n, c + 1) /\ b = Above(n, c) /\ w = Weight[c]
      OBVIOUS
    <3>7. /\ b = n - (w - 1) /\ a = n - (2 * w - 1)
          /\ a \in Nat /\ b \in Nat /\ w \in Nat \ {0} /\ a <= b /\ b <= n
      BY <3>1, <3>6, <3>14 DEF Above
    <3>8. /\ b = n + 1 - w /\ a = n + 1 - 2 * w /\ b - a = w /\ (n + 1) - b = w
          /\ (n + 1) - b <= w /\ b # n + 1 /\ b <= n + 1 /\ n + 1 \in Nat
      <4>1. b = n - (w - 1) /\ a = n - (2 * w - 1) /\ b <= n
        BY <3>7
      <4>2. a \in Nat /\ b \in Nat /\ w \in Nat \ {0} /\ n \in Nat
        BY <1>1, <3>7
      <4> QED
        BY <4>1, <4>2, Spans
    <3>9. n + 1 <= Len(s) /\ b <= Len(leaves)
      BY <1>1, <1>2, <3>7
    <3>10. Stretch(s, a, b) = Stretch(leaves, a, b)
      BY <1>1, <3>7, <3>9, StretchAppend DEF s
    <3>11. T(k) = Tree(Stretch(s, a, n + 1)) /\ T(c) = Tree(Stretch(s, b, n + 1))
      BY <3>6, <3>8, <3>14
    <3>12. ASSUME NEW x \in Nat, NEW y \in Nat, NEW z \in Nat,
                  x <= y, y <= z, y # z, z <= Len(s), y - x = Weight[c], z - y <= Weight[c]
           PROVE  Tree(Stretch(s, x, z)) = <<Tree(Stretch(s, x, y)), Tree(Stretch(s, y, z))>>
      BY <1>2, <3>1, <3>12, TwoStretches
    <3>13. Tree(Stretch(s, a, n + 1)) = <<Tree(Stretch(s, a, b)), Tree(Stretch(s, b, n + 1))>>
      <4>1. b - a = Weight[c] /\ (n + 1) - b <= Weight[c]
        BY <3>8, <3>14
      <4>2. a <= b /\ b <= n + 1 /\ b # n + 1 /\ n + 1 <= Len(s) /\ n + 1 \in Nat
            /\ a \in Nat /\ b \in Nat
        BY <3>7, <3>8, <3>9
      <4> QED
        BY <3>12, <4>1, <4>2, Zenon
    <3> QED
      BY <2>3, <3>2, <3>4, <3>5, <3>10, <3>11, <3>13, <3>14
  <2> QED
    BY <2>4, <2>5
<1> QED
  BY <1>5 DEF s

(* How the bits change when one is added. *)
LEMMA NextCount ==
  ASSUME NEW n \in Nat, NEW i \in Levels
  PROVE  /\ n % Weight[i] = Weight[i] - 1 => /\ Bit(n + 1, i) <=> ~Bit(n, i)
                                             /\ Above(n + 1, i) = n + 1
         /\ (n % Weight[i]) + 1 < Weight[i] => Bit(n + 1, i) <=> Bit(n, i)
<1>1. Weight[i] \in Nat \ {0}
  BY DepthIs
<1>2. n \div Weight[i] \in Nat
  BY Halved
<1>3. ASSUME NEW q \in Nat PROVE (q + 1) % 2 = 1 <=> q % 2 # 1
  OBVIOUS
<1>4. ASSUME n % Weight[i] = Weight[i] - 1
      PROVE  (Bit(n + 1, i) <=> ~Bit(n, i)) /\ Above(n + 1, i) = n + 1
  <2>1. (n + 1) \div Weight[i] = n \div Weight[i] + 1 /\ (n + 1) % Weight[i] = 0
    BY <1>1, <1>4, AddOne
  <2>2. (n + 1) - 0 = n + 1
    OBVIOUS
  <2> QED
    BY <1>2, <1>3, <2>1, <2>2, Zenon DEF Bit, Above
<1>5. ASSUME (n % Weight[i]) + 1 < Weight[i]
      PROVE  Bit(n + 1, i) <=> Bit(n, i)
  <2>1. (n + 1) \div Weight[i] = n \div Weight[i]
    BY <1>1, <1>5, AddOne
  <2> QED
    BY <2>1 DEF Bit
<1> QED
  BY <1>4, <1>5

LEMMA SameAbove ==
  ASSUME NEW n \in Nat, NEW c \in 0 .. MERKLE_MAX_DEPTH, (n % Weight[c]) + 1 < Weight[c]
  PROVE  Above(n + 1, c) = Above(n, c)
<1>1. Weight[c] \in Nat \ {0}
  BY Weights
<1>2. (n + 1) % Weight[c] = (n % Weight[c]) + 1 /\ n % Weight[c] \in Nat
  BY <1>1, AddOne, RemainderLeq
<1>3. ASSUME NEW r \in Nat PROVE (n + 1) - (r + 1) = n - r
  OBVIOUS
<1> QED
  BY <1>2, <1>3 DEF Above

(* A level between a free one and the top keeps its leaves and its bit.    *)
LEMMA HighLevel ==
  ASSUME NEW n \in Nat, NEW m \in Levels, ~Bit(n, m), NEW i \in Levels, m < i
  PROVE  /\ Bit(n + 1, i) <=> Bit(n, i)
         /\ Above(n + 1, i) = Above(n, i) /\ Above(n + 1, i + 1) = Above(n, i + 1)
<1>1. i \in 0 .. MERKLE_MAX_DEPTH /\ i + 1 \in 0 .. MERKLE_MAX_DEPTH /\ m < i + 1
  BY DepthIs
<1>2. (n % Weight[i]) + 1 < Weight[i]
  BY <1>1, HighRoom
<1>3. (n % Weight[i + 1]) + 1 < Weight[i + 1]
  BY <1>1, HighRoom
<1>4. Bit(n + 1, i) <=> Bit(n, i)
  BY <1>2, NextCount
<1>5. Above(n + 1, i) = Above(n, i)
  BY <1>1, <1>2, SameAbove
<1>6. Above(n + 1, i + 1) = Above(n, i + 1)
  BY <1>1, <1>3, SameAbove
<1> QED
  BY <1>4, <1>5, <1>6

(* Up to the first free level the bits turn over. *)
LEMMA LowLevel ==
  ASSUME NEW n \in Nat, NEW m \in 0 .. MERKLE_MAX_DEPTH,
         \A i \in Levels : i < m => Bit(n, i),
         NEW i \in Levels, i <= m
  PROVE  (Bit(n + 1, i) <=> ~Bit(n, i)) /\ Above(n + 1, i) = n + 1
<1>1. i \in 0 .. m
  BY DepthIs
<1>2. n % Weight[i] = Weight[i] - 1
  BY <1>1, LowOnes
<1> QED
  BY <1>2, NextCount

LEMMA MerkleAppend ==
  ASSUME MerkleInv, NEW d \in Leaf, merkle_append(d)
  PROVE  MerkleInv'
<1> DEFINE n == leaf_count
           s == Append(leaves, d)
           free == {i \in Levels : ~Bit(n, i)}
<1>1. n \in Nat /\ leaves \in Seq(Leaf) /\ Len(leaves) = n
  BY DEF MerkleInv
<1>2. leaf_count' = n + 1 /\ leaves' = s
  BY DEF merkle_append
<1>3. n + 1 \in Nat /\ s \in Seq(Leaf) /\ Len(s) = n + 1
  BY <1>1
<1>4. PICK f : /\ IsLoop("carry", f, LeafHash(d), MERKLE_MAX_DEPTH - 1)
               /\ frontier' = IF free = {} THEN frontier
                              ELSE [frontier EXCEPT ![Min(free)] = f[Min(free)]]
  BY CarryIsLoop
<1>5. frontier' = [i \in Levels |-> frontier'[i]]
  <2>1. frontier = [i \in Levels |-> frontier[i]]
    BY DEF MerkleInv
  <2> QED
    BY <1>4, <2>1
<1>6. ASSUME NEW i \in Levels, Bit(n + 1, i)
      PROVE  frontier'[i] = Tree(Stretch(s, Above(n + 1, i + 1), Above(n + 1, i)))
  <2>1. CASE free = {}
    <3>1. MERKLE_MAX_DEPTH \in 0 .. MERKLE_MAX_DEPTH /\ i <= MERKLE_MAX_DEPTH
      BY DepthIs
    <3>2. \A j \in Levels : Bit(n, j)
      BY <2>1
    <3>3. ~Bit(n + 1, i)
      BY <1>1, <3>1, <3>2, LowLevel
    <3> QED
      BY <1>6, <3>3
  <2>2. CASE free # {}
    <3>1. PICK m : m = Min(free)
      OBVIOUS
    <3>2. m \in free /\ \A j \in free : m <= j
      <4>1. free \subseteq Nat
        BY DepthIs
      <4> QED
        BY <2>2, <3>1, <4>1, FirstOf
    <3>3. m \in Levels /\ ~Bit(n, m) /\ m \in 0 .. MERKLE_MAX_DEPTH /\ m \in Nat /\ i \in Nat
      BY <3>2, DepthIs
    <3>4. \A j \in Levels : j < m => Bit(n, j)
      <4>1. ASSUME NEW j \in Levels, j < m, ~Bit(n, j) PROVE FALSE
        <5>1. m <= j /\ j \in Nat
          BY <3>2, <4>1, DepthIs
        <5> QED
          BY <3>3, <4>1, <5>1
      <4> QED
        BY <4>1
    <3>5. \A j \in Levels : frontier'[j] = IF j = m THEN f[m] ELSE frontier[j]
      <4>1. frontier = [j \in Levels |-> frontier[j]]
        BY DEF MerkleInv
      <4>2. frontier' = [frontier EXCEPT ![m] = f[m]]
        BY <1>4, <2>2, <3>1
      <4> QED
        BY <3>3, <4>1, <4>2
    <3> HIDE DEF free
    <3>6. CASE i < m
      <4>1. Bit(n, i) /\ i <= m
        BY <3>3, <3>4, <3>6
      <4>2. ~Bit(n + 1, i)
        BY <1>1, <3>3, <3>4, <4>1, LowLevel
      <4> QED
        BY <1>6, <4>2
    <3>7. CASE i = m
      <4>1. m \in 0 .. m /\ m <= m
        BY <3>3
      <4>2. Above(n + 1, m) = n + 1
        BY <1>1, <3>3, <3>4, <4>1, LowLevel
      <4>3. Bit(n + 1, m)
        BY <1>6, <3>7
      <4>4. Above(n + 1, m) = Above(n + 1, m + 1) + Weight[m] /\ Above(n + 1, m + 1) \in Nat
        BY <1>3, <3>3, <4>3, AboveIs
      <4>5. Weight[m] \in Nat
        BY <3>3, DepthIs
      <4>6. Above(n + 1, m + 1) = n + 1 - Weight[m]
        <5>1. n + 1 = Above(n + 1, m + 1) + Weight[m]
          BY <4>2, <4>4
        <5> QED
          BY <1>1, <4>4, <4>5, <5>1
      <4>7. f[m] = Tree(Stretch(s, n + 1 - Weight[m], n + 1))
        BY <1>4, <3>3, <3>4, <4>1, CarryIs
      <4> QED
        BY <3>3, <3>5, <3>7, <4>2, <4>6, <4>7
    <3>8. CASE m < i
      <4>1. /\ Bit(n + 1, i) <=> Bit(n, i)
            /\ Above(n + 1, i) = Above(n, i) /\ Above(n + 1, i + 1) = Above(n, i + 1)
        BY <1>1, <3>3, <3>8, HighLevel
      <4>2. frontier[i] = Tree(Stretch(leaves, Above(n, i + 1), Above(n, i)))
        BY <1>6, <4>1 DEF MerkleInv
      <4>3. /\ Above(n, i) \in Nat /\ Above(n, i + 1) \in Nat
            /\ Above(n, i + 1) <= Above(n, i) /\ Above(n, i) <= n
        BY <1>1, AboveIs
      <4>4. Above(n, i) <= Len(leaves)
        BY <1>1, <4>3
      <4>5. Stretch(s, Above(n, i + 1), Above(n, i)) = Stretch(leaves, Above(n, i + 1), Above(n, i))
        BY <1>1, <4>3, <4>4, StretchAppend
      <4>6. i # m
        BY <3>3, <3>8
      <4> QED
        BY <3>5, <4>1, <4>2, <4>5, <4>6
    <3> QED
      BY <3>3, <3>6, <3>7, <3>8
  <2> QED
    BY <2>1, <2>2
<1> HIDE DEF s
<1>7. \A i \in Levels : Bit(leaf_count', i) =>
        frontier'[i] = Tree(Stretch(leaves', Above(leaf_count', i + 1), Above(leaf_count', i)))
  BY <1>2, <1>6
<1>8. leaf_count' \in Nat /\ leaves' \in Seq(Leaf) /\ Len(leaves') = leaf_count'
  BY <1>2, <1>3
<1> QED
  BY <1>5, <1>7, <1>8 DEF MerkleInv

(* The empty tree: zero has no bit. *)
LEMMA NoBits == \A i \in Levels : ~Bit(0, i)
<1>1. 0 % 2 # 1
  OBVIOUS
<1>2. \A i \in Levels : Weight[i] \in Nat \ {0} /\ 0 = Weight[i] * 0 + 0 /\ 0 < Weight[i]
  BY DepthIs
<1> QED
  BY <1>1, <1>2, Divided DEF Bit

LEMMA MerkleEmpty == MerkleInit => MerkleInv
  BY NoBits DEF MerkleInit, MerkleInv

LEMMA MerkleStep == MerkleInv /\ MerkleNext => MerkleInv'
<1> SUFFICES ASSUME MerkleInv, MerkleNext PROVE MerkleInv'
  OBVIOUS
<1>1. ASSUME NEW d \in Leaf, merkle_append(d) PROVE MerkleInv'
  BY <1>1, MerkleAppend
<1>2. CASE merkle_init
  <2>1. frontier' = [i \in Levels |-> Zero] /\ leaf_count' = 0 /\ leaves' = <<>>
    BY <1>2 DEF merkle_init
  <2> QED
    BY <2>1, NoBits DEF MerkleInv
<1> QED
  BY <1>1, <1>2 DEF MerkleNext

LEMMA MerkleRests == MerkleInv /\ UNCHANGED merkle => MerkleInv'
BY DEF MerkleInv, merkle

-----------------------------------------------------------------------------
(* Together.  A part that does not move keeps what holds of it. *)
LogsInv == WalInv /\ StorageInv /\ MerkleInv /\ TelemetryInv

LEMMA WalRests == WalInv /\ UNCHANGED wal_vars => WalInv'
<1> SUFFICES ASSUME WalInv, UNCHANGED wal_vars PROVE WalInv'
  OBVIOUS
<1>1. UNCHANGED <<g_wal_buffer, g_wal_head, g_latest_hash, appended>>
  BY DEF wal_vars
<1>2. Held' = Held /\ \A n : Logged(n)' = Logged(n)
  BY <1>1 DEF Held, Logged
<1>3. HoldsTheLatest'
  BY <1>1, <1>2 DEF WalInv, HoldsTheLatest
<1>4. ChainUnbroken'
  BY <1>1 DEF WalInv, ChainUnbroken, Held, Logged
<1> QED
  BY <1>1, <1>3, <1>4 DEF WalInv

LEMMA LogsInvariant == Spec => []LogsInv
<1>1. Init => LogsInv
  BY WalStarts, SenderFileStarts, AuditFileStarts, MerkleEmpty, TelemetryStarts
  DEF Init, LogsInv, StorageInv
<1>2. LogsInv /\ [Next]_vars => LogsInv'
  <2> SUFFICES ASSUME LogsInv, [Next]_vars PROVE LogsInv'
    OBVIOUS
  <2>1. /\ WalNext \/ UNCHANGED wal_vars
        /\ [StorageNext]_storage
        /\ MerkleNext \/ UNCHANGED merkle
        /\ [TelemetryNext]_telemetry
    BY DEF Next, vars, WalMoves, StorageMoves, MerkleMoves, TelemetryMoves
  <2> QED
    BY <2>1, WalStep, WalRests, StorageStep, MerkleStep, MerkleRests, TelemetryStep DEF LogsInv
<1> QED
  BY <1>1, <1>2, PTL DEF Spec

(* wal.c: for every capacity, after any number of wraps, the ring holds    *)
(* exactly the last entries that were logged.                              *)
THEOREM LatestEntries == Spec => []HoldsTheLatest
<1>1. LogsInv => HoldsTheLatest
  BY DEF LogsInv, WalInv
<1> QED
  BY <1>1, LogsInvariant, PTL

(* wal.c: the chain of hashes is unbroken over all entries the ring holds. *)
THEOREM UnbrokenChain == Spec => []ChainUnbroken
<1>1. LogsInv => ChainUnbroken
  BY DEF LogsInv, WalInv
<1> QED
  BY <1>1, LogsInvariant, PTL

(* persistence.c: whatever was torn and whenever the process died, the     *)
(* newest whole record is recovered if it is aligned and nothing of a      *)
(* record's length follows it.                                             *)
THEOREM NewestRecovered == Spec => []RecoversTheNewest
<1>1. LogsInv => RecoversTheNewest
  BY NewestIsRecovered DEF LogsInv, StorageInv
<1> QED
  BY <1>1, LogsInvariant, PTL

(* persistence.c: in every other case recovery returns what was never      *)
(* written as a record.                                                    *)
THEOREM TornSpoils == Spec => []TornWriteSpoilsRecovery
<1>1. LogsInv => TornWriteSpoilsRecovery
  BY TornIsNoRecord DEF LogsInv, StorageInv
<1> QED
  BY <1>1, LogsInvariant, PTL

(* audit_log.c: the links between the whole records of one run of the      *)
(* process tell every event lost between them.                             *)
THEOREM LossesTold == Spec => []LinksTellLosses
<1>1. LogsInv => LinksTellLosses
  BY LinksTell DEF LogsInv, StorageInv
<1> QED
  BY <1>1, LogsInvariant, PTL

(* tree.c: for a tree of every depth and any number of leaves the root put *)
(* together from the frontier is the root of the tree of the leaves.       *)
THEOREM RootOfLatest == Spec => []RootOfTheLatest
<1>1. LogsInv => RootOfTheLatest
  BY RootIsLatest DEF LogsInv
<1> QED
  BY <1>1, LogsInvariant, PTL

(* telemetry.c: for every size the ring, read from its tail, is the newest *)
(* samples in the order of their pushes.                                   *)
THEOREM LatestSamples == Spec => []TelemetryHoldsTheLatest
<1>1. LogsInv => TelemetryHoldsTheLatest
  BY RingIsLatest DEF LogsInv
<1> QED
  BY <1>1, LogsInvariant, PTL
=============================================================================
