------------------------------ MODULE DecoyProofs ------------------------------
(***************************************************************************)
(* Theorems about what attackers meet, for every number of addresses,      *)
(* peers, cages and phantoms, every size of the tables and any clock: the  *)
(* shadow table by itself and as the proxy keeps it, cages and phantoms.   *)
(***************************************************************************)
EXTENDS Deception, FiniteSetTheorems, WellFoundedInduction, TLAPS

(* A set of numbers has a least one: this stands for induction here. Among *)
(* the intervals up to the members of a set one is contained in no other.  *)
LEMMA FirstOf ==
  ASSUME NEW S, S \subseteq Nat, S # {}
  PROVE  Min(S) \in S /\ \A i \in S : Min(S) <= i
<1> DEFINE T == {1 .. n : n \in S}
<1>1. T \subseteq FiniteSubsetsOf(Nat) /\ T # {}
  <2>1. ASSUME NEW n \in S PROVE 1 .. n \in SUBSET Nat /\ IsFiniteSet(1 .. n)
    BY FS_Interval
  <2> QED
    BY <2>1 DEF FiniteSubsetsOf
<1>2. PICK t \in T : \A u \in T : ~ (<<u, t>> \in StrictSubsetOrdering(Nat))
  BY <1>1, FS_StrictSubsetOrderingWellFounded, WFMin, Zenon
<1>3. PICK m \in S : t = 1 .. m
  OBVIOUS
<1>4. ASSUME NEW i \in S, i < m PROVE FALSE
  <2>1. 1 .. i \in T /\ 1 .. i \subseteq 1 .. m /\ m \in 1 .. m /\ m \notin 1 .. i
    BY <1>4
  <2>2. <<1 .. i, 1 .. m>> \in StrictSubsetOrdering(Nat)
    BY <2>1 DEF StrictSubsetOrdering
  <2> QED
    BY <1>2, <1>3, <2>1, <2>2
<1>5. \A i \in S : m <= i
  BY <1>4
<1> QED
  BY <1>5 DEF Min

-----------------------------------------------------------------------------
(* shadow.c: the loop of shadow_evict_expired.  f is a run of its passes.  *)
Start(t) == [t |-> t, i |-> 1]

IsRun(f, t, m) == f = [n \in 0 .. m |-> IF n = 0 THEN Start(t) ELSE EvictPass(f[n - 1])]

(* A loop of any number of passes has a run. *)
LEMMA RunExists == ASSUME NEW t, NEW m \in Nat PROVE \E f : IsRun(f, t, m)
<1> DEFINE Bad == {k \in Nat : ~\E f : IsRun(f, t, k)}
<1>1. ASSUME Bad # {} PROVE FALSE
  <2> PICK k : k = Min(Bad)
    OBVIOUS
  <2>1. k \in Bad /\ k \in Nat /\ \A j \in Bad : k <= j
    BY <1>1, FirstOf
  <2>2. CASE k = 0
    <3> DEFINE f == [n \in 0 .. 0 |-> Start(t)]
    <3>1. f = [n \in 0 .. 0 |-> IF n = 0 THEN Start(t) ELSE EvictPass(f[n - 1])]
      OBVIOUS
    <3> QED
      BY <2>1, <2>2, <3>1 DEF IsRun
  <2>3. CASE k # 0
    <3>1. k - 1 \in Nat /\ k - 1 \notin Bad
      <4> HIDE DEF Bad
      <4>1. k - 1 \in Nat /\ ~ (k <= k - 1)
        BY <2>1, <2>3
      <4> QED
        BY <2>1, <4>1
    <3>2. PICK f : IsRun(f, t, k - 1)
      BY <3>1
    <3> DEFINE g == [n \in 0 .. k |-> IF n < k THEN f[n] ELSE EvictPass(f[k - 1])]
    <3>3. /\ \A n \in 0 .. (k - 1) : g[n] = f[n]
          /\ g[k] = EvictPass(f[k - 1])
      <4>1. k \in Nat
        BY <2>1
      <4>2. \A n \in 0 .. (k - 1) : n \in 0 .. k /\ n < k
        BY <4>1
      <4>3. k \in 0 .. k /\ ~ (k < k)
        BY <4>1
      <4> QED
        BY <4>2, <4>3, Zenon
    <3>4. \A n \in 0 .. (k - 1) : f[n] = IF n = 0 THEN Start(t) ELSE EvictPass(f[n - 1])
      BY <3>2, Zenon DEF IsRun
    <3>5. ASSUME NEW n \in 0 .. k
          PROVE  g[n] = IF n = 0 THEN Start(t) ELSE EvictPass(g[n - 1])
      <4> HIDE DEF g
      <4>1. CASE n = k
        <5>1. k - 1 \in 0 .. (k - 1)
          BY <2>1, <2>3
        <5> QED
          BY <2>3, <3>3, <4>1, <5>1, Zenon
      <4>2. CASE n = 0
        <5>1. 0 \in 0 .. (k - 1)
          BY <2>1, <2>3
        <5> QED
          BY <3>3, <3>4, <4>2, <5>1, Zenon
      <4>3. CASE n # k /\ n # 0
        <5>1. n \in 0 .. (k - 1) /\ n - 1 \in 0 .. (k - 1)
          BY <2>1, <4>3
        <5> QED
          BY <3>3, <3>4, <4>3, <5>1, Zenon
      <4> QED
        BY <4>1, <4>2, <4>3
    <3>6. g = [n \in 0 .. k |-> IF n = 0 THEN Start(t) ELSE EvictPass(g[n - 1])]
      BY <3>5
    <3>7. IsRun(g, t, k)
      BY <3>6, Zenon DEF IsRun
    <3> QED
      BY <2>1, <3>7
  <2> QED
    BY <2>2, <2>3
<1> QED
  BY <1>1

(* What the loop computes is the end of a run. *)
LEMMA EvictedByRun ==
  ASSUME NEW t, Len(t) \in Nat
  PROVE  \E f : IsRun(f, t, Len(t)) /\ Evicted(t) = f[Len(t)].t
<1> DEFINE after == CHOOSE after : IsRun(after, t, Len(t))
<1>1. IsRun(after, t, Len(t))
  BY RunExists
<1>2. Evicted(t) = after[Len(t)].t
  BY DEF Evicted, IsRun, Start
<1> QED
  BY <1>1, <1>2

(* Moving the last entry into a gap at i. *)
Filled(u, i) == Front(ReplaceAt(u, i, Last(u)))

LEMMA FilledIs ==
  ASSUME NEW S, NEW u \in Seq(S), NEW i \in 1 .. Len(u)
  PROVE  /\ Filled(u, i) \in Seq(S)
         /\ Len(Filled(u, i)) = Len(u) - 1
         /\ \A j \in 1 .. (Len(u) - 1) : Filled(u, i)[j] = IF j = i THEN u[Len(u)] ELSE u[j]
<1> DEFINE w == [u EXCEPT ![i] = u[Len(u)]]
<1>1. Len(u) \in Nat /\ Len(u) \in 1 .. Len(u) /\ Len(u) - 1 \in Nat
  OBVIOUS
<1>2. w \in Seq(S) /\ Len(w) = Len(u)
  BY <1>1
<1>3. \A j \in 1 .. Len(u) : w[j] = IF j = i THEN u[Len(u)] ELSE u[j]
  BY <1>1
<1>4. Filled(u, i) = SubSeq(w, 1, Len(w) - 1)
  BY DEF Filled, Front, ReplaceAt, Last
<1> HIDE DEF w
<1>5. ASSUME NEW q \in Seq(S), NEW k \in Nat, k + 1 = Len(q)
      PROVE  /\ SubSeq(q, 1, k) \in Seq(S)
             /\ Len(SubSeq(q, 1, k)) = k
             /\ \A j \in 1 .. k : SubSeq(q, 1, k)[j] = q[j]
  BY <1>5
<1>6. Len(w) - 1 \in Nat /\ (Len(w) - 1) + 1 = Len(w)
  BY <1>1, <1>2
<1>7. /\ SubSeq(w, 1, Len(w) - 1) \in Seq(S)
      /\ Len(SubSeq(w, 1, Len(w) - 1)) = Len(w) - 1
      /\ \A j \in 1 .. (Len(w) - 1) : SubSeq(w, 1, Len(w) - 1)[j] = w[j]
  BY <1>2, <1>5, <1>6
<1>8. \A j \in 1 .. (Len(u) - 1) : j \in 1 .. Len(u)
  BY <1>1
<1> QED
  BY <1>2, <1>3, <1>4, <1>7, <1>8

LEMMA PlacesFinite ==
  ASSUME NEW S, NEW u \in Seq(S), NEW e
  PROVE  IsFiniteSet(Places(u, e)) /\ Cardinality(Places(u, e)) \in Nat
<1>1. Places(u, e) \subseteq 1 .. Len(u) /\ IsFiniteSet(1 .. Len(u))
  BY FS_Interval DEF Places
<1>2. IsFiniteSet(Places(u, e))
  BY <1>1, FS_Subset
<1> QED
  BY <1>2, FS_CardinalityType

(* Filling the gap of one entry moves the others and loses none of them. *)
LEMMA FillKeepsOthers ==
  ASSUME NEW S, NEW u \in Seq(S), NEW i \in 1 .. Len(u), NEW e, u[i] # e
  PROVE  Cardinality(Places(Filled(u, i), e)) = Cardinality(Places(u, e))
<1> DEFINE v == Filled(u, i)
<1> DEFINE L == Len(u)
<1>1. v \in Seq(S) /\ Len(v) = L - 1
  BY FilledIs
<1>2. \A j \in 1 .. (L - 1) : v[j] = IF j = i THEN u[L] ELSE u[j]
  BY FilledIs
<1>3. L \in Nat /\ L \in 1 .. L /\ DOMAIN u = 1 .. L /\ DOMAIN v = 1 .. (L - 1)
  BY <1>1
<1> HIDE DEF v, L
<1>i. i \in 1 .. L
  BY DEF L
<1>4. CASE u[L] # e
  <2>1. ASSUME NEW j PROVE j \in Places(v, e) <=> j \in Places(u, e)
    <3>1. j \in 1 .. L <=> j \in 1 .. (L - 1) \/ j = L
      BY <1>3
    <3> QED
      BY <1>2, <1>3, <1>4, <3>1 DEF Places
  <2>2. Places(v, e) = Places(u, e)
    BY <2>1
  <2> QED
    BY <2>2 DEF v
<1>5. CASE u[L] = e
  <2>1. i # L /\ i \in 1 .. (L - 1)
    BY <1>3, <1>5, <1>i
  <2>2. L \in Places(u, e) /\ i \notin Places(u, e)
    BY <1>3, <1>5 DEF Places
  <2>3. ASSUME NEW j PROVE j \in Places(v, e) <=> j \in (Places(u, e) \ {L}) \cup {i}
    <3>1. (j \in 1 .. L <=> j \in 1 .. (L - 1) \/ j = L) /\ L \notin 1 .. (L - 1)
      BY <1>3
    <3> QED
      BY <1>2, <1>3, <1>5, <2>1, <3>1 DEF Places
  <2>4. Places(v, e) = (Places(u, e) \ {L}) \cup {i}
    BY <2>3
  <2>5. IsFiniteSet(Places(u, e)) /\ Cardinality(Places(u, e)) \in Nat
    BY PlacesFinite
  <2>6. /\ IsFiniteSet(Places(u, e) \ {L})
        /\ Cardinality(Places(u, e) \ {L}) = Cardinality(Places(u, e)) - 1
    BY <2>2, <2>5, FS_RemoveElement
  <2>7. Cardinality((Places(u, e) \ {L}) \cup {i}) = Cardinality(Places(u, e) \ {L}) + 1
    BY <2>2, <2>6, FS_AddElement
  <2> QED
    BY <2>4, <2>5, <2>6, <2>7 DEF v
<1> QED
  BY <1>4, <1>5

(* After n passes over t: as many entries are left to look at as passes,   *)
(* those before i stay, and no entry that is not expired is lost.          *)
PassInv(S, t, n, s) ==
  /\ s.t \in Seq(S)
  /\ s.i \in Nat \ {0}
  /\ Len(s.t) + 1 + n = Len(t) + s.i
  /\ Len(s.t) <= Len(t)
  /\ \A j \in 1 .. (s.i - 1) : ~Expired(s.t[j])
  /\ \A e : ~Expired(e) => Cardinality(Places(s.t, e)) = Cardinality(Places(t, e))

LEMMA PassKeeps ==
  ASSUME NEW S, NEW t \in Seq(S), NEW n \in Nat, n < Len(t), NEW s, PassInv(S, t, n, s)
  PROVE  PassInv(S, t, n + 1, EvictPass(s))
<1> DEFINE u == s.t
<1> DEFINE i == s.i
<1> DEFINE r == EvictPass(s)
<1>1. /\ u \in Seq(S) /\ i \in Nat \ {0}
      /\ Len(u) + 1 + n = Len(t) + i /\ Len(u) <= Len(t)
      /\ \A j \in 1 .. (i - 1) : ~Expired(u[j])
      /\ \A e : ~Expired(e) => Cardinality(Places(u, e)) = Cardinality(Places(t, e))
  BY DEF PassInv
<1>2. Len(u) \in Nat /\ Len(t) \in Nat
  BY <1>1
<1>3. i \in 1 .. Len(u) /\ Len(u) - 1 \in Nat
  BY <1>1, <1>2
<1>4. CASE Expired(u[i])
  <2>1. r = [t |-> Filled(u, i), i |-> i]
    BY <1>4 DEF EvictPass, Filled
  <2>2. /\ Filled(u, i) \in Seq(S) /\ Len(Filled(u, i)) = Len(u) - 1
        /\ \A j \in 1 .. (Len(u) - 1) : Filled(u, i)[j] = IF j = i THEN u[Len(u)] ELSE u[j]
    BY <1>1, <1>3, FilledIs
  <2>3. \A e : ~Expired(e) => Cardinality(Places(Filled(u, i), e)) = Cardinality(Places(t, e))
    <3> SUFFICES ASSUME NEW e, ~Expired(e)
                 PROVE  Cardinality(Places(Filled(u, i), e)) = Cardinality(Places(t, e))
      OBVIOUS
    <3>1. u[i] # e
      BY <1>4
    <3> QED
      BY <1>1, <1>3, <3>1, FillKeepsOthers
  <2> HIDE DEF u, i, r
  <2>4. \A j \in 1 .. (i - 1) : j \in 1 .. (Len(u) - 1) /\ j # i
    BY <1>1, <1>2, <1>3
  <2>5. \A j \in 1 .. (i - 1) : ~Expired(Filled(u, i)[j])
    BY <1>1, <2>2, <2>4, Zenon
  <2>7. (Len(u) - 1) + 1 + (n + 1) = Len(t) + i /\ Len(u) - 1 <= Len(t)
    BY <1>1, <1>2
  <2>8. r.t = Filled(u, i) /\ r.i = i
    BY <2>1
  <2> QED
    BY <1>1, <2>2, <2>3, <2>5, <2>7, <2>8, Zenon DEF PassInv, r
<1>5. CASE ~Expired(u[i])
  <2>1. r = [t |-> u, i |-> i + 1]
    BY <1>5 DEF EvictPass
  <2> HIDE DEF u, i, r
  <2>2. \A j \in 1 .. i : j = i \/ j \in 1 .. (i - 1)
    BY <1>1
  <2>3. \A j \in 1 .. i : ~Expired(u[j])
    BY <1>1, <1>5, <2>2, Zenon
  <2>4. i + 1 \in Nat \ {0} /\ (i + 1) - 1 = i /\ Len(u) + 1 + (n + 1) = Len(t) + (i + 1)
    BY <1>1, <1>2
  <2>5. r.t = u /\ r.i = i + 1
    BY <2>1
  <2> QED
    BY <1>1, <2>3, <2>4, <2>5, Zenon DEF PassInv, r
<1> QED
  BY <1>4, <1>5

LEMMA RunKeeps ==
  ASSUME NEW S, NEW t \in Seq(S), NEW f, IsRun(f, t, Len(t))
  PROVE  PassInv(S, t, Len(t), f[Len(t)])
<1> DEFINE L == Len(t)
<1> DEFINE Bad == {n \in 0 .. L : ~PassInv(S, t, n, f[n])}
<1>1. L \in Nat
  OBVIOUS
<1> HIDE DEF L
<1>2. \A n \in 0 .. L : f[n] = IF n = 0 THEN Start(t) ELSE EvictPass(f[n - 1])
  BY Zenon DEF IsRun, L
<1>3. 0 \in 0 .. L /\ L \in 0 .. L
  BY <1>1
<1>4. PassInv(S, t, 0, f[0])
  <2>1. f[0] = Start(t)
    BY <1>2, <1>3
  <2>2. Start(t).t = t /\ Start(t).i = 1
    BY DEF Start
  <2>3. /\ 1 \in Nat \ {0} /\ Len(t) + 1 + 0 = Len(t) + 1 /\ Len(t) <= Len(t)
        /\ 1 .. (1 - 1) = {}
    BY <1>1 DEF L
  <2> QED
    BY <2>1, <2>2, <2>3, Zenon DEF PassInv
<1>5. ASSUME Bad # {} PROVE FALSE
  <2> PICK k : k = Min(Bad)
    OBVIOUS
  <2>1. Bad \subseteq Nat
    BY <1>1
  <2>2. k \in Bad /\ \A j \in Bad : k <= j
    BY <1>5, <2>1, FirstOf
  <2>3. k \in 0 .. L /\ ~PassInv(S, t, k, f[k])
    BY <2>2
  <2> HIDE DEF Bad
  <2>4. k # 0
    BY <1>4, <2>3
  <2>5. k - 1 \in 0 .. L /\ k - 1 \in Nat /\ k - 1 < L /\ (k - 1) + 1 = k /\ ~ (k <= k - 1)
    BY <1>1, <2>3, <2>4
  <2>6. PassInv(S, t, k - 1, f[k - 1])
    BY <2>2, <2>5 DEF Bad
  <2>7. PassInv(S, t, (k - 1) + 1, EvictPass(f[k - 1]))
    BY <2>5, <2>6, PassKeeps DEF L
  <2>8. f[k] = EvictPass(f[k - 1])
    BY <1>2, <2>3, <2>4, Zenon
  <2> QED
    BY <2>3, <2>5, <2>7, <2>8
<1> QED
  BY <1>3, <1>5 DEF L

(* What one call of shadow_evict_expired does to a table. *)
LEMMA EvictedIs ==
  ASSUME NEW S, NEW t \in Seq(S)
  PROVE  /\ Evicted(t) \in Seq(S)
         /\ Len(Evicted(t)) <= Len(t)
         /\ \A j \in 1 .. Len(Evicted(t)) : ~Expired(Evicted(t)[j])
         /\ \A e : ~Expired(e) => Cardinality(Places(Evicted(t), e)) = Cardinality(Places(t, e))
<1>1. PICK f : IsRun(f, t, Len(t)) /\ Evicted(t) = f[Len(t)].t
  BY EvictedByRun
<1>2. PassInv(S, t, Len(t), f[Len(t)])
  BY <1>1, RunKeeps
<1> DEFINE i == f[Len(t)].i
<1>3. Evicted(t) \in Seq(S) /\ i \in Nat /\ Len(Evicted(t)) + 1 + Len(t) = Len(t) + i
  BY <1>1, <1>2 DEF PassInv
<1> HIDE DEF i
<1>4. Len(Evicted(t)) \in Nat /\ Len(t) \in Nat
  BY <1>3
<1>5. Len(Evicted(t)) = i - 1
  BY <1>3, <1>4
<1> QED
  BY <1>1, <1>2, <1>3, <1>5, Zenon DEF PassInv, i

-----------------------------------------------------------------------------
(* The operations on a table keep it a table.                              *)
Entry == [addr : Address, seen : Times, refs : Nat]

LEMMA RegisteredIs ==
  ASSUME NEW t \in Seq(Entry), NEW a \in Address, clock \in Times
  PROVE  /\ Registered(t, a) \in Seq(Entry)
         /\ Len(Registered(t, a)) = Len(t) + 1
<1> DEFINE e == [addr |-> a, seen |-> clock, refs |-> 0]
<1>1. e \in Entry
  BY DEF Entry
<1>2. Registered(t, a) = Append(t, e)
  BY DEF Registered
<1> HIDE DEF e
<1> QED
  BY <1>1, <1>2

LEMMA ReferencedIs ==
  ASSUME NEW t \in Seq(Entry), NEW a \in Address
  PROVE  /\ Referenced(t, a) \in Seq(Entry)
         /\ Len(Referenced(t, a)) = Len(t)
<1>1. CASE t # <<>> /\ t[1].addr = a
  <2> DEFINE e == [t[1] EXCEPT !.refs = @ + 1]
  <2>1. 1 \in 1 .. Len(t) /\ t[1] \in Entry
    BY <1>1
  <2>2. e \in Entry
    BY <2>1 DEF Entry
  <2>3. Referenced(t, a) = [t EXCEPT ![1] = e]
    BY <1>1, <2>1 DEF Referenced
  <2> HIDE DEF e
  <2> QED
    BY <2>1, <2>2, <2>3
<1>2. CASE ~ (t # <<>> /\ t[1].addr = a)
  BY <1>2 DEF Referenced
<1> QED
  BY <1>1, <1>2

LEMMA FedIs ==
  ASSUME NEW t \in Seq(Entry), NEW i \in 1 .. Len(t), clock \in Times
  PROVE  /\ Fed(t, i) \in Seq(Entry)
         /\ Len(Fed(t, i)) = Len(t)
<1> DEFINE e == [t[i] EXCEPT !.seen = clock]
<1>1. t[i] \in Entry
  OBVIOUS
<1>2. e \in Entry
  BY <1>1 DEF Entry
<1>3. Fed(t, i) = [t EXCEPT ![i] = e]
  BY DEF Fed
<1> HIDE DEF e
<1> QED
  BY <1>2, <1>3

(* The proxy's booking makes at most one entry, the first.                 *)
LEMMA BookedIs ==
  ASSUME NEW a \in Address, table \in Seq(Entry), clock \in Times
  PROVE  /\ Booked(a) \in Seq(Entry)
         /\ Len(table) <= 1 => Len(Booked(a)) <= 1
<1> DEFINE looked == Referenced(table, a)
<1>1. looked \in Seq(Entry) /\ Len(looked) = Len(table)
  BY ReferencedIs
<1>2. CASE table # <<>>
  <2>1. Booked(a) = Fed(looked, 1)
    BY <1>2 DEF Booked, Found
  <2> HIDE DEF looked
  <2>2. 1 \in 1 .. Len(looked)
    BY <1>1, <1>2
  <2>3. Fed(looked, 1) \in Seq(Entry) /\ Len(Fed(looked, 1)) = Len(looked)
    BY <1>1, <2>2, FedIs
  <2> QED
    BY <1>1, <2>1, <2>3
<1>3. CASE table = <<>>
  <2>1. looked = <<>>
    BY <1>3 DEF Referenced
  <2>2. Booked(a) = IF Free(looked) THEN Fed(Registered(looked, a), Len(looked) + 1) ELSE looked
    BY <1>3 DEF Booked, Found
  <2> HIDE DEF looked
  <2>4. CASE Free(looked)
    <3> DEFINE r == Registered(looked, a)
    <3>1. r \in Seq(Entry) /\ Len(r) = Len(looked) + 1
      BY <1>1, RegisteredIs
    <3>2. Len(looked) = 0
      BY <2>1
    <3> HIDE DEF r
    <3>3. Len(looked) + 1 \in 1 .. Len(r)
      BY <3>1, <3>2
    <3>4. Fed(r, Len(looked) + 1) \in Seq(Entry) /\ Len(Fed(r, Len(looked) + 1)) = Len(r)
      BY <3>1, <3>3, FedIs
    <3>5. Booked(a) = Fed(r, Len(looked) + 1)
      BY <2>2, <2>4, Zenon DEF r
    <3>6. Len(Booked(a)) = 1
      BY <3>1, <3>2, <3>4, <3>5
    <3>7. Booked(a) \in Seq(Entry)
      BY <3>4, <3>5, Zenon
    <3>8. Len(Booked(a)) <= 1
      BY <3>6
    <3> QED
      BY <3>7, <3>8, Zenon
  <2>5. CASE ~Free(looked)
    BY <1>1, <2>1, <2>2, <2>5
  <2> QED
    BY <2>4, <2>5
<1> QED
  BY <1>2, <1>3

-----------------------------------------------------------------------------
(* The invariants of the parts.                                            *)
TableInv == table \in Seq(Entry) /\ clock \in Times

DaemonInv == /\ backlog \in Seq(Peer)
             /\ cfd \in Peer \cup {NoPeer}
             /\ part = "daemon" => Len(table) <= 1
             /\ part # "daemon" => closed = {}

(* Registering, looking up, feeding and evicting.                          *)
LEMMA TableStep ==
  ASSUME TableInv, ShadowNext
  PROVE  TableInv'
<1>1. table \in Seq(Entry) /\ clock \in Times
  BY DEF TableInv
<1>2. ASSUME NEW a \in Address, shadow_register(a), UNCHANGED clock PROVE TableInv'
  BY <1>1, <1>2, RegisteredIs DEF TableInv, shadow_register
<1>3. ASSUME NEW a \in Address, shadow_lookup(a), UNCHANGED clock PROVE TableInv'
  BY <1>1, <1>3, ReferencedIs DEF TableInv, shadow_lookup
<1>4. ASSUME NEW i \in DOMAIN table, shadow_feed_decoy(i), UNCHANGED clock PROVE TableInv'
  <2>1. i \in 1 .. Len(table)
    BY <1>1
  <2> QED
    BY <1>1, <1>4, <2>1, FedIs DEF TableInv, shadow_feed_decoy
<1>5. ASSUME shadow_evict_expired, UNCHANGED clock PROVE TableInv'
  BY <1>1, <1>5, EvictedIs DEF TableInv, shadow_evict_expired
<1>6. ASSUME SetClock, UNCHANGED shadow PROVE TableInv'
  BY <1>1, <1>6 DEF TableInv, SetClock, shadow
<1> QED
  BY <1>2, <1>3, <1>4, <1>5, <1>6, Zenon DEF ShadowNext

(* Connecting, sending, waking up, answering.                              *)
LEMMA DaemonStep ==
  ASSUME TableInv, DaemonInv, part = "daemon", part' = part, DaemonNext
  PROVE  TableInv' /\ DaemonInv'
<1>1. /\ table \in Seq(Entry) /\ clock \in Times
      /\ backlog \in Seq(Peer) /\ cfd \in Peer \cup {NoPeer} /\ Len(table) <= 1
  BY DEF TableInv, DaemonInv
<1>2. ASSUME table' = table, clock' \in Times, backlog' \in Seq(Peer), cfd' \in Peer \cup {NoPeer}
      PROVE  TableInv' /\ DaemonInv'
  BY <1>1, <1>2 DEF TableInv, DaemonInv
<1>3. ASSUME NEW p \in Peer, PeerConnects(p)
      PROVE  TableInv' /\ DaemonInv'
  <2>1. backlog' \in Seq(Peer)
    BY <1>1, <1>3 DEF PeerConnects
  <2> QED
    BY <1>1, <1>2, <1>3, <2>1 DEF PeerConnects, shadow
<1>4. ASSUME NEW p \in Peer, PeerActs(p)
      PROVE  TableInv' /\ DaemonInv'
  BY <1>1, <1>2, <1>4 DEF PeerActs, shadow
<1>5. ASSUME Wake PROVE TableInv' /\ DaemonInv'
  <2>1. backlog' \in Seq(Peer) /\ cfd' \in Peer \cup {NoPeer} /\ clock' = clock
    <3>1. CASE backlog = <<>>
      BY <1>1, <1>5, <3>1 DEF Wake
    <3>2. CASE backlog # <<>>
      <4>1. Head(backlog) \in Peer /\ Tail(backlog) \in Seq(Peer)
        BY <1>1, <3>2
      <4> QED
        BY <1>5, <3>2, <4>1 DEF Wake
    <3> QED
      BY <3>1, <3>2
  <2>2. CASE table' = table
    <3>1. UNCHANGED shadow
      BY <1>5, <2>2 DEF Wake, shadow
    <3> QED
      BY <1>1, <1>2, <2>1, <2>2, <3>1
  <2>3. CASE table' = Evicted(table)
    <3>1. table' \in Seq(Entry) /\ Len(table') <= Len(table)
      BY <1>1, <2>3, EvictedIs
    <3>2. Len(table') \in Nat /\ Len(table) \in Nat
      BY <1>1, <3>1
    <3>3. Len(table') <= 1
      BY <1>1, <3>1, <3>2
    <3> QED
      BY <1>1, <2>1, <3>1, <3>3 DEF TableInv, DaemonInv
  <2> QED
    BY <1>5, <2>2, <2>3 DEF Wake
<1>6. ASSUME HandleMalformed PROVE TableInv' /\ DaemonInv'
  <2>1. table' = Booked(cfd[1]) /\ cfd' = NoPeer /\ backlog' = backlog /\ clock' = clock
    BY <1>6 DEF HandleMalformed
  <2>2. cfd[1] \in Address
    BY <1>1, <1>6 DEF HandleMalformed, Peer
  <2>3. table' \in Seq(Entry) /\ Len(table') <= 1
    BY <1>1, <2>1, <2>2, BookedIs
  <2> QED
    BY <1>1, <2>1, <2>3 DEF TableInv, DaemonInv
<1>7. ASSUME HandleWhole PROVE TableInv' /\ DaemonInv'
  BY <1>1, <1>2, <1>7 DEF HandleWhole, shadow
<1>8. ASSUME SetClock, UNCHANGED <<shadow, daemon>>
      PROVE  TableInv' /\ DaemonInv'
  BY <1>1, <1>2, <1>8 DEF SetClock, shadow, daemon
<1> QED
  BY <1>3, <1>4, <1>5, <1>6, <1>7, <1>8, Zenon DEF DaemonNext, DaemonServes

-----------------------------------------------------------------------------
(* An id carries the reading it was made of.  While the readings rise, no  *)
(* id is above the last one, no two sessions share theirs, and none has    *)
(* one that was rolled away.                                               *)
Id == Attacker \X Nat \X (0 .. (Rounds - 1))

Cage == [attacker : Attacker, round : 0 .. (Rounds - 1), state : {"ACTIVE", "EMPTY"}, cage_id : Id]

Apart == /\ \A i \in DOMAIN cages : cages[i].cage_id[2] <= read /\ cages[i].cage_id \notin retired
         /\ \A i, j \in DOMAIN cages : cages[i].cage_id = cages[j].cage_id => i = j
         /\ \A id \in retired : id[2] <= read
         /\ cages = <<>> => retired = {}

CageInv == /\ cages \in Seq(Cage)
           /\ read \in Nat
           /\ ahead \in BOOLEAN
           /\ retired \subseteq Id
           /\ ahead = TRUE => Apart

LEMMA CageIdIs ==
  ASSUME NEW now \in Nat, NEW a \in Attacker, NEW r \in 0 .. (Rounds - 1),
         NEW s \in {"ACTIVE", "EMPTY"}
  PROVE  /\ [attacker |-> a, round |-> r, state |-> s, cage_id |-> CageId(a, now, r)] \in Cage
         /\ CageId(a, now, r)[2] = now
<1>1. CageId(a, now, r) \in Id /\ CageId(a, now, r)[2] = now
  BY DEF CageId, Id
<1> HIDE DEF Id
<1> QED
  BY <1>1 DEF Cage

(* An id made of a later reading is a new one. *)
LEMMA Fresh ==
  ASSUME CageInv, ahead = TRUE, NEW now \in Nat, cages # <<>> => now > read,
         NEW id, id[2] = now
  PROVE  /\ \A i \in DOMAIN cages : cages[i].cage_id # id /\ cages[i].cage_id[2] <= now
         /\ id \notin retired
         /\ \A old \in retired : old[2] <= now
<1>1. /\ cages \in Seq(Cage) /\ read \in Nat /\ retired \subseteq Id /\ Apart
  BY DEF CageInv
<1>2. CASE cages = <<>>
  BY <1>1, <1>2 DEF Apart
<1>3. CASE cages # <<>>
  <2>1. \A old \in Id : old[2] \in Nat
    BY DEF Id
  <2>2. \A i \in DOMAIN cages : cages[i].cage_id \in Id
    <3>1. \A i \in DOMAIN cages : cages[i] \in Cage
      BY <1>1
    <3>2. \A c \in Cage : c.cage_id \in Id
      BY DEF Cage
    <3> QED
      BY <3>1, <3>2, Zenon
  <2>3. \A i \in DOMAIN cages : cages[i].cage_id[2] \in Nat /\ cages[i].cage_id[2] <= read
    BY <1>1, <2>1, <2>2, Zenon DEF Apart
  <2>4. \A old \in retired : old[2] \in Nat /\ old[2] <= read
    BY <1>1, <2>1, Zenon DEF Apart
  <2>5. now > read
    BY <1>3
  <2>6. \A n \in Nat : n <= read => n <= now /\ n # now
    BY <1>1, <2>5
  <2> QED
    BY <2>3, <2>4, <2>6, Zenon
<1> QED
  BY <1>2, <1>3

LEMMA CageStep ==
  ASSUME CageInv, CageNext
  PROVE  CageInv'
<1>1. /\ cages \in Seq(Cage) /\ read \in Nat /\ ahead \in BOOLEAN /\ retired \subseteq Id
      /\ ahead = TRUE => Apart
  BY DEF CageInv
<1>2. \A i \in DOMAIN cages :
        /\ i \in 1 .. Len(cages) /\ cages[i] \in Cage /\ cages[i].cage_id \in Id
        /\ cages[i].attacker \in Attacker /\ cages[i].round \in Nat
        /\ cages[i].state \in {"ACTIVE", "EMPTY"}
  <2>1. \A i \in DOMAIN cages : i \in 1 .. Len(cages) /\ cages[i] \in Cage
    BY <1>1
  <2>2. \A c \in Cage : /\ c.attacker \in Attacker /\ c.round \in Nat /\ c.cage_id \in Id
                        /\ c.state \in {"ACTIVE", "EMPTY"}
    BY DEF Cage
  <2> QED
    BY <2>1, <2>2, Zenon
<1>3. \A now \in Readings : now \in Nat
  BY CageAssumption
<1>4. ASSUME NEW now \in Readings, NEW old \in SUBSET Id, IdMade(now, old)
      PROVE  /\ read' \in Nat /\ ahead' \in BOOLEAN /\ retired' \subseteq Id
             /\ ahead' = TRUE => /\ ahead = TRUE /\ (cages # <<>> => now > read)
                                 /\ read' = now /\ retired' = retired \cup old
  BY <1>1, <1>3, <1>4 DEF IdMade
<1>5. ASSUME NEW now \in Readings, NEW a \in Attacker, cage_open(a, now) PROVE CageInv'
  <2>1. 0 \in 0 .. (Rounds - 1) /\ now \in Nat
    BY <1>3, CageAssumption
  <2> DEFINE id == CageId(a, now, 0)
  <2> DEFINE c == [attacker |-> a, round |-> 0, state |-> "ACTIVE", cage_id |-> id]
  <2> DEFINE n == Len(cages) + 1
  <2>2. c \in Cage /\ c.cage_id = id /\ id[2] = now
    BY <2>1, CageIdIs
  <2>3. cages' = Append(cages, c) /\ IdMade(now, {})
    BY <1>5 DEF cage_open
  <2>4. /\ read' \in Nat /\ ahead' \in BOOLEAN /\ retired' \subseteq Id
        /\ ahead' = TRUE => /\ ahead = TRUE /\ (cages # <<>> => now > read)
                            /\ read' = now /\ retired' = retired
    <3>1. {} \in SUBSET Id /\ retired \cup {} = retired
      OBVIOUS
    <3> QED
      BY <1>4, <2>3, <3>1, Zenon
  <2> HIDE DEF c, id
  <2>5. /\ cages' \in Seq(Cage) /\ cages' # <<>> /\ DOMAIN cages' = DOMAIN cages \cup {n}
        /\ cages'[n] = c /\ n \notin DOMAIN cages
        /\ \A i \in DOMAIN cages : cages'[i] = cages[i]
    BY <1>1, <2>2, <2>3
  <2>6. ASSUME ahead' = TRUE PROVE Apart'
    <3>1. /\ \A i \in DOMAIN cages : cages[i].cage_id # id /\ cages[i].cage_id[2] <= now
          /\ id \notin retired
          /\ \A old \in retired : old[2] <= now
      BY <2>1, <2>2, <2>4, <2>6, Fresh
    <3>2. Apart /\ read' = now /\ retired' = retired
      BY <1>1, <2>4, <2>6
    <3>3. now <= now
      BY <2>1
    <3>4. /\ \A i \in DOMAIN cages' : cages'[i].cage_id[2] <= now /\ cages'[i].cage_id \notin retired
      BY <2>2, <2>5, <3>1, <3>2, <3>3, Zenon DEF Apart
    <3>5. \A i, j \in DOMAIN cages' : cages'[i].cage_id = cages'[j].cage_id => i = j
      BY <2>2, <2>5, <3>1, <3>2, Zenon DEF Apart
    <3> QED
      BY <2>5, <3>1, <3>2, <3>4, <3>5, Zenon DEF Apart
  <2> QED
    BY <2>4, <2>5, <2>6 DEF CageInv
<1>6. ASSUME NEW now \in Readings, NEW k \in DOMAIN cages, NEW s \in {"ACTIVE", "EMPTY"},
             Roll(k, s, now)
      PROVE  CageInv'
  <2> DEFINE a == cages[k].attacker
  <2> DEFINE r == (cages[k].round + 1) % Rounds
  <2> DEFINE old == cages[k].cage_id
  <2>1. a \in Attacker /\ k \in 1 .. Len(cages) /\ old \in Id /\ now \in Nat
    BY <1>2, <1>3
  <2>2. r \in 0 .. (Rounds - 1)
    BY <1>2, CageAssumption
  <2> DEFINE id == CageId(a, now, r)
  <2> DEFINE c == [attacker |-> a, round |-> r, state |-> s, cage_id |-> id]
  <2>3. cages' = [cages EXCEPT ![k] = c] /\ IdMade(now, {old})
    BY <1>6 DEF Roll
  <2> HIDE DEF a, r
  <2>4. c \in Cage /\ c.cage_id = id /\ id[2] = now
    BY <2>1, <2>2, CageIdIs
  <2>5. /\ read' \in Nat /\ ahead' \in BOOLEAN /\ retired' \subseteq Id
        /\ ahead' = TRUE => /\ ahead = TRUE /\ (cages # <<>> => now > read)
                            /\ read' = now /\ retired' = retired \cup {old}
    <3>1. {old} \in SUBSET Id
      BY <2>1
    <3> QED
      BY <1>4, <2>3, <3>1
  <2> HIDE DEF c, id
  <2>6. /\ cages' \in Seq(Cage) /\ DOMAIN cages' = DOMAIN cages
        /\ cages'[k] = c /\ k \in DOMAIN cages'
        /\ \A i \in DOMAIN cages : i # k => cages'[i] = cages[i]
    BY <1>1, <2>1, <2>3, <2>4
  <2>7. cages' # <<>> /\ cages # <<>>
    <3>1. DOMAIN << >> = {}
      OBVIOUS
    <3> QED
      BY <2>6, <3>1
  <2>8. ASSUME ahead' = TRUE PROVE Apart'
    <3>1. /\ \A i \in DOMAIN cages : cages[i].cage_id # id /\ cages[i].cage_id[2] <= now
          /\ id \notin retired
          /\ \A gone \in retired : gone[2] <= now
      BY <2>1, <2>4, <2>5, <2>8, Fresh
    <3>2. Apart /\ read' = now /\ retired' = retired \cup {old}
      BY <1>1, <2>5, <2>8
    <3>3. now <= now
      BY <2>1
    <3>4. \A i \in DOMAIN cages : i # k => cages[i].cage_id # old
      BY <3>2 DEF Apart
    <3>5. id # old /\ old[2] <= now
      BY <3>1
    <3>6. \A i \in DOMAIN cages : cages[i].cage_id \notin retired
      BY <3>2 DEF Apart
    <3> HIDE DEF old
    <3>7. \A i \in DOMAIN cages' : cages'[i].cage_id[2] <= now /\ cages'[i].cage_id \notin retired'
      <4>1. TAKE i \in DOMAIN cages'
      <4>2. CASE i = k
        BY <2>4, <2>6, <3>1, <3>2, <3>3, <3>5, <4>2
      <4>3. CASE i # k
        BY <2>6, <3>1, <3>2, <3>4, <3>6, <4>1, <4>3
      <4> QED
        BY <4>2, <4>3
    <3>8. \A i, j \in DOMAIN cages' : cages'[i].cage_id = cages'[j].cage_id => i = j
      BY <2>4, <2>6, <3>1, <3>2, Zenon DEF Apart
    <3>9. \A gone \in retired' : gone[2] <= now
      BY <3>1, <3>2, <3>5
    <3> QED
      BY <2>7, <3>2, <3>7, <3>8, <3>9, Zenon DEF Apart
  <2> QED
    BY <2>5, <2>6, <2>8 DEF CageInv
<1>7. ASSUME NEW k \in DOMAIN cages, cage_close(k) PROVE CageInv'
  <2> DEFINE c == [cages[k] EXCEPT !.state = "EMPTY"]
  <2>1. cages[k] \in Cage /\ k \in 1 .. Len(cages)
    BY <1>2
  <2>2. c \in Cage /\ c.cage_id = cages[k].cage_id
    BY <2>1 DEF Cage
  <2>3. cages' = [cages EXCEPT ![k] = c] /\ read' = read /\ ahead' = ahead /\ retired' = retired
    BY <1>7 DEF cage_close, cage_history
  <2> HIDE DEF c
  <2>4. /\ cages' \in Seq(Cage) /\ DOMAIN cages' = DOMAIN cages
        /\ \A i \in DOMAIN cages : cages'[i].cage_id = cages[i].cage_id
    BY <1>1, <2>1, <2>2, <2>3
  <2>5. cages' # <<>>
    <3>1. DOMAIN << >> = {}
      OBVIOUS
    <3> QED
      BY <2>4, <3>1
  <2>6. ASSUME Apart PROVE Apart'
    <3>1. /\ \A i \in DOMAIN cages' : cages'[i].cage_id[2] <= read' /\ cages'[i].cage_id \notin retired'
          /\ \A i, j \in DOMAIN cages' : cages'[i].cage_id = cages'[j].cage_id => i = j
      BY <2>3, <2>4, <2>6 DEF Apart
    <3>2. \A id \in retired' : id[2] <= read'
      BY <2>3, <2>6 DEF Apart
    <3> QED
      BY <2>5, <3>1, <3>2 DEF Apart
  <2> QED
    BY <1>1, <2>3, <2>4, <2>6 DEF CageInv
<1>8. ASSUME NEW now \in Readings, NEW i \in DOMAIN cages, cage_roll(i, now) \/ cage_recapture(i, now)
      PROVE  CageInv'
  BY <1>2, <1>6, <1>8 DEF cage_roll, cage_recapture
<1> QED
  BY <1>5, <1>7, <1>8, Zenon DEF CageNext

(* What lookup returns goes by the id asked for; 0 means that nobody does. *)
LEMMA LookupIs ==
  ASSUME CageInv, NEW id
  PROVE  /\ cage_lookup(id) # 0 => /\ cage_lookup(id) \in DOMAIN cages
                                   /\ cages[cage_lookup(id)].cage_id = id
         /\ \A i \in DOMAIN cages : cages[i].cage_id = id => cage_lookup(id) # 0
<1> DEFINE hits == {i \in DOMAIN cages : cages[i].cage_id = id}
<1>1. cages \in Seq(Cage)
  BY DEF CageInv
<1>2. hits \subseteq Nat \ {0}
  BY <1>1
<1>3. cage_lookup(id) = IF hits = {} THEN 0 ELSE Min(hits)
  BY DEF cage_lookup
<1>4. CASE hits = {}
  BY <1>3, <1>4
<1>5. CASE hits # {}
  <2>1. Min(hits) \in hits
    <3> HIDE DEF hits
    <3>1. hits \subseteq Nat
      BY <1>2
    <3> QED
      BY <1>5, <3>1, FirstOf
  <2>2. cage_lookup(id) \in DOMAIN cages /\ cages[cage_lookup(id)].cage_id = id
    BY <1>3, <1>5, <2>1
  <2>3. cage_lookup(id) # 0
    BY <1>2, <1>3, <1>5, <2>1
  <2> QED
    BY <2>2, <2>3
<1> QED
  BY <1>4, <1>5

LEMMA ByItsOwnId == CageInv => OneSessionPerId
<1> SUFFICES ASSUME CageInv, ahead = TRUE
             PROVE  /\ \A i \in DOMAIN cages : cage_lookup(cages[i].cage_id) = i
                    /\ \A id \in retired : cage_lookup(id) = 0
  BY DEF OneSessionPerId, CageInv
<1>1. Apart
  BY DEF CageInv
<1>2. ASSUME NEW i \in DOMAIN cages PROVE cage_lookup(cages[i].cage_id) = i
  BY <1>1, LookupIs DEF Apart
<1>3. ASSUME NEW id \in retired, cage_lookup(id) # 0 PROVE FALSE
  BY <1>1, <1>3, LookupIs DEF Apart
<1> QED
  BY <1>2, <1>3

-----------------------------------------------------------------------------
(* A descriptor a phantom has is that of a socket on the phantom's port.   *)
(* In the first call the phantoms still to come are idle and without a     *)
(* socket, those behind have the descriptor of every socket there is.      *)
FdInv == /\ phantom_fd \in [Farm -> Nat]
         /\ phantom_state \in [Farm -> {"IDLE", "ACTIVE", "TRIPPED"}]
         /\ sockets \in Seq(Farm)
         /\ binding \in 0 .. PHANTOM_COUNT
         /\ binds \in Nat
         /\ \A i \in Farm : phantom_fd[i] # 0 =>
              phantom_fd[i] \in DOMAIN sockets /\ sockets[phantom_fd[i]] = i

OnceInv == /\ binds = 0 => /\ sockets = <<>> /\ binding = 0
                           /\ \A i \in Farm : phantom_state[i] = "IDLE"
           /\ binds <= 1 =>
                /\ \A f \in DOMAIN sockets : phantom_fd[sockets[f]] = f
                /\ \A i \in Farm : phantom_state[i] # "IDLE" => phantom_fd[i] \in DOMAIN sockets
                /\ binding # 0 => /\ \A f \in DOMAIN sockets : sockets[f] < binding
                                  /\ \A i \in Farm : i >= binding => phantom_state[i] = "IDLE"

PhantomInv == FdInv /\ OnceInv

LEMMA ContinueIs ==
  ASSUME binding \in 1 .. PHANTOM_COUNT, Continue
  PROVE  /\ binding' \in 0 .. PHANTOM_COUNT /\ binds' = binds
         /\ binding' # 0 => binding' = binding + 1
<1>1. PHANTOM_COUNT \in Nat /\ binding' = (binding + 1) % (PHANTOM_COUNT + 1) /\ binds' = binds
  BY PhantomAssumption DEF Continue
<1>2. CASE binding = PHANTOM_COUNT
  <2>1. (PHANTOM_COUNT + 1) % (PHANTOM_COUNT + 1) = 0
    BY <1>1
  <2> QED
    BY <1>1, <1>2, <2>1
<1>3. CASE binding # PHANTOM_COUNT
  <2>1. binding + 1 \in 0 .. PHANTOM_COUNT
    BY <1>1, <1>3
  <2>2. (binding + 1) % (PHANTOM_COUNT + 1) = binding + 1
    BY <1>1, <2>1
  <2> QED
    BY <1>1, <2>1, <2>2
<1> QED
  BY <1>2, <1>3

LEMMA GetIs ==
  ASSUME FdInv, NEW f
  PROVE  /\ phantom_get(f) # 0 => phantom_get(f) \in Farm /\ phantom_fd[phantom_get(f)] = f
         /\ \A i \in Farm : phantom_fd[i] = f => phantom_get(f) # 0
<1> DEFINE hits == {i \in Farm : phantom_fd[i] = f}
<1>1. hits \subseteq Nat \ {0}
  BY DEF Farm
<1>2. phantom_get(f) = IF hits = {} THEN 0 ELSE Min(hits)
  BY DEF phantom_get
<1>3. CASE hits = {}
  BY <1>2, <1>3
<1>4. CASE hits # {}
  <2>1. Min(hits) \in hits
    <3> HIDE DEF hits
    <3>1. hits \subseteq Nat
      BY <1>1
    <3> QED
      BY <1>4, <3>1, FirstOf
  <2>2. phantom_get(f) \in Farm /\ phantom_fd[phantom_get(f)] = f
    BY <1>2, <1>4, <2>1
  <2>3. phantom_get(f) # 0
    BY <1>1, <1>2, <1>4, <2>1
  <2> QED
    BY <2>2, <2>3
<1> QED
  BY <1>3, <1>4

LEMMA Known == PhantomInv => KnownWhileBoundOnce
<1> SUFFICES ASSUME PhantomInv PROVE KnownWhileBoundOnce
  OBVIOUS
<1>1. \A f \in DOMAIN sockets : f # 0 /\ sockets[f] \in Farm
  BY DEF PhantomInv, FdInv
<1>2. ASSUME NEW f \in DOMAIN sockets
      PROVE  phantom_get(f) \in {0, sockets[f]}
  BY <1>1, GetIs DEF PhantomInv, FdInv
<1>3. ASSUME NEW f \in DOMAIN sockets, binds <= 1
      PROVE  phantom_get(f) = sockets[f]
  <2>1. phantom_fd[sockets[f]] = f
    BY <1>3 DEF PhantomInv, OnceInv
  <2>2. phantom_get(f) # 0
    BY <1>1, <2>1, GetIs DEF PhantomInv
  <2> QED
    BY <1>2, <2>2
<1> QED
  BY <1>2, <1>3 DEF KnownWhileBoundOnce, PhantomInv, OnceInv

LEMMA PhantomStep ==
  ASSUME PhantomInv, PhantomNext
  PROVE  PhantomInv'
<1>1. /\ phantom_fd \in [Farm -> Nat]
      /\ phantom_state \in [Farm -> {"IDLE", "ACTIVE", "TRIPPED"}]
      /\ sockets \in Seq(Farm) /\ binding \in 0 .. PHANTOM_COUNT /\ binds \in Nat
  BY DEF PhantomInv, FdInv
<1>2. \A i \in Farm : phantom_fd[i] # 0 =>
        phantom_fd[i] \in DOMAIN sockets /\ sockets[phantom_fd[i]] = i
  BY DEF PhantomInv, FdInv
<1>3. OnceInv
  BY DEF PhantomInv
<1>4. PHANTOM_COUNT \in Nat \ {0} /\ Farm = 1 .. PHANTOM_COUNT
  BY PhantomAssumption DEF Farm
<1>5. ASSUME phantom_bind_all PROVE PhantomInv'
  <2>1. /\ binding = 0 /\ binding' = 1 /\ binds' = binds + 1
        /\ phantom_fd' = phantom_fd /\ phantom_state' = phantom_state /\ sockets' = sockets
    BY <1>5 DEF phantom_bind_all
  <2>2. 1 \in 0 .. PHANTOM_COUNT /\ binds + 1 \in Nat
    BY <1>1, <1>4
  <2>3. FdInv'
    BY <1>1, <1>2, <2>1, <2>2 DEF FdInv
  <2>4. binds + 1 # 0 /\ (binds + 1 <= 1 => binds = 0)
    BY <1>1
  <2>5. binds = 0 => sockets = <<>> /\ \A i \in Farm : phantom_state[i] = "IDLE"
    BY <1>3 DEF OnceInv
  <2>6. DOMAIN << >> = {}
    OBVIOUS
  <2>7. OnceInv'
    BY <2>1, <2>4, <2>5, <2>6, Zenon DEF OnceInv
  <2> QED
    BY <2>3, <2>7 DEF PhantomInv
<1>6. ASSUME BindFails PROVE PhantomInv'
  <2>1. /\ binding # 0 /\ Continue /\ phantom_state' = phantom_state /\ sockets' = sockets
        /\ phantom_fd' = [phantom_fd EXCEPT ![binding] = 0]
    BY <1>6 DEF BindFails, FdAfterFailure
  <2>2. binding \in Farm
    BY <1>1, <1>4, <2>1
  <2>3. /\ binding' \in 0 .. PHANTOM_COUNT /\ binds' = binds
        /\ binding' # 0 => binding' = binding + 1
    BY <1>4, <2>1, <2>2, ContinueIs
  <2>4. /\ phantom_fd' \in [Farm -> Nat] /\ phantom_fd'[binding] = 0
        /\ \A i \in Farm : i # binding => phantom_fd'[i] = phantom_fd[i]
    BY <1>1, <2>1, <2>2
  <2>5. \A i \in Farm : phantom_fd'[i] # 0 =>
          phantom_fd'[i] \in DOMAIN sockets /\ sockets[phantom_fd'[i]] = i
    BY <1>2, <2>4, Zenon
  <2>6. FdInv'
    BY <1>1, <2>1, <2>3, <2>4, <2>5 DEF FdInv
  <2>7. binds # 0
    BY <1>3, <2>1 DEF OnceInv
  <2>8. ASSUME binds <= 1
        PROVE  /\ \A f \in DOMAIN sockets : phantom_fd'[sockets[f]] = f
               /\ \A i \in Farm : phantom_state[i] # "IDLE" => phantom_fd'[i] \in DOMAIN sockets
               /\ binding' # 0 => /\ \A f \in DOMAIN sockets : sockets[f] < binding'
                                  /\ \A i \in Farm : i >= binding' => phantom_state[i] = "IDLE"
    <3>1. /\ \A f \in DOMAIN sockets : phantom_fd[sockets[f]] = f
          /\ \A i \in Farm : phantom_state[i] # "IDLE" => phantom_fd[i] \in DOMAIN sockets
          /\ \A f \in DOMAIN sockets : sockets[f] < binding
          /\ \A i \in Farm : i >= binding => phantom_state[i] = "IDLE"
      BY <1>3, <2>1, <2>8 DEF OnceInv
    <3>2. \A f \in DOMAIN sockets : sockets[f] \in Farm
      BY <1>1
    <3>3. \A i \in Farm : /\ i < binding => i # binding /\ i < binding + 1
                          /\ i >= binding + 1 => i >= binding
                          /\ i = binding => i >= binding
      BY <1>4, <2>2
    <3>4. \A f \in DOMAIN sockets : phantom_fd'[sockets[f]] = f
      BY <2>4, <3>1, <3>2, <3>3, Zenon
    <3>5. \A i \in Farm : phantom_state[i] # "IDLE" => phantom_fd'[i] \in DOMAIN sockets
      BY <2>4, <3>1, <3>3, Zenon
    <3>6. ASSUME binding' # 0
          PROVE  /\ \A f \in DOMAIN sockets : sockets[f] < binding'
                 /\ \A i \in Farm : i >= binding' => phantom_state[i] = "IDLE"
      BY <2>3, <3>1, <3>2, <3>3, <3>6, Zenon
    <3> QED
      BY <3>4, <3>5, <3>6
  <2>9. OnceInv'
    BY <2>1, <2>3, <2>7, <2>8, Zenon DEF OnceInv
  <2> QED
    BY <2>6, <2>9 DEF PhantomInv
<1>7. ASSUME BindSucceeds PROVE PhantomInv'
  <2> DEFINE n == Len(sockets) + 1
  <2>1. /\ binding # 0 /\ Continue
        /\ \A f \in DOMAIN sockets : sockets[f] # binding
        /\ sockets' = Append(sockets, binding)
        /\ phantom_fd' = [phantom_fd EXCEPT ![binding] = Len(sockets')]
        /\ phantom_state' = [phantom_state EXCEPT ![binding] = "ACTIVE"]
    BY <1>7 DEF BindSucceeds
  <2>2. binding \in Farm
    BY <1>1, <1>4, <2>1
  <2>3. /\ binding' \in 0 .. PHANTOM_COUNT /\ binds' = binds
        /\ binding' # 0 => binding' = binding + 1
    BY <1>4, <2>1, <2>2, ContinueIs
  <2>4. /\ sockets' \in Seq(Farm) /\ Len(sockets') = n /\ sockets'[n] = binding
        /\ \A f \in DOMAIN sockets : sockets'[f] = sockets[f] /\ f # n
        /\ \A f : f \in DOMAIN sockets' <=> f \in DOMAIN sockets \/ f = n
        /\ n \in Nat \ {0}
    <3>1. Len(sockets) \in Nat /\ DOMAIN sockets = 1 .. Len(sockets)
      BY <1>1
    <3>2. sockets' \in Seq(Farm) /\ Len(sockets') = n /\ sockets'[n] = binding
          /\ \A f \in 1 .. Len(sockets) : sockets'[f] = sockets[f]
      BY <1>1, <2>1, <2>2
    <3>3. DOMAIN sockets' = 1 .. n
      BY <3>2
    <3>4. \A f : f \in 1 .. n <=> f \in 1 .. Len(sockets) \/ f = n
      BY <3>1
    <3>5. \A f \in 1 .. Len(sockets) : f # n
      BY <3>1
    <3> QED
      BY <3>1, <3>2, <3>3, <3>4, <3>5
  <2> HIDE DEF n
  <2>5. /\ phantom_fd' \in [Farm -> Nat] /\ phantom_fd'[binding] = n
        /\ \A i \in Farm : i # binding => phantom_fd'[i] = phantom_fd[i]
    BY <1>1, <2>1, <2>2, <2>4
  <2>6. /\ phantom_state' \in [Farm -> {"IDLE", "ACTIVE", "TRIPPED"}]
        /\ \A i \in Farm : i # binding => phantom_state'[i] = phantom_state[i]
    BY <1>1, <2>1, <2>2
  <2>7. ASSUME NEW i \in Farm, phantom_fd'[i] # 0
        PROVE  phantom_fd'[i] \in DOMAIN sockets' /\ sockets'[phantom_fd'[i]] = i
    <3>1. CASE i = binding
      BY <2>4, <2>5, <3>1, Zenon
    <3>2. CASE i # binding
      BY <1>2, <2>4, <2>5, <2>7, <3>2, Zenon
    <3> QED
      BY <3>1, <3>2
  <2>8. FdInv'
    BY <1>1, <2>3, <2>4, <2>5, <2>6, <2>7 DEF FdInv
  <2>9. binds # 0
    BY <1>3, <2>1 DEF OnceInv
  <2>10. ASSUME binds <= 1
         PROVE  /\ \A f \in DOMAIN sockets' : phantom_fd'[sockets'[f]] = f
                /\ \A i \in Farm : phantom_state'[i] # "IDLE" => phantom_fd'[i] \in DOMAIN sockets'
                /\ binding' # 0 => /\ \A f \in DOMAIN sockets' : sockets'[f] < binding'
                                   /\ \A i \in Farm : i >= binding' => phantom_state'[i] = "IDLE"
    <3>1. /\ \A f \in DOMAIN sockets : phantom_fd[sockets[f]] = f
          /\ \A i \in Farm : phantom_state[i] # "IDLE" => phantom_fd[i] \in DOMAIN sockets
          /\ \A f \in DOMAIN sockets : sockets[f] < binding
          /\ \A i \in Farm : i >= binding => phantom_state[i] = "IDLE"
      BY <1>3, <2>1, <2>10 DEF OnceInv
    <3>2. \A f \in DOMAIN sockets : sockets[f] \in Farm
      BY <1>1
    <3>3. /\ binding < binding + 1
          /\ \A i \in Farm : /\ i < binding => i < binding + 1
                             /\ i >= binding + 1 => i >= binding /\ i # binding
      BY <1>4, <2>2
    <3>4. ASSUME NEW f \in DOMAIN sockets' PROVE phantom_fd'[sockets'[f]] = f
      <4>1. CASE f = n
        BY <2>4, <2>5, <4>1, Zenon
      <4>2. CASE f # n
        <5>1. f \in DOMAIN sockets /\ sockets'[f] = sockets[f]
          BY <2>4, <4>2, Zenon
        <5>2. sockets[f] \in Farm /\ sockets[f] # binding /\ phantom_fd[sockets[f]] = f
          BY <2>1, <3>1, <3>2, <5>1, Zenon
        <5>3. phantom_fd'[sockets[f]] = phantom_fd[sockets[f]]
          BY <2>5, <5>2, Zenon
        <5> QED
          BY <5>1, <5>2, <5>3, Zenon
      <4> QED
        BY <4>1, <4>2
    <3>5. ASSUME NEW i \in Farm, phantom_state'[i] # "IDLE"
          PROVE  phantom_fd'[i] \in DOMAIN sockets'
      <4>1. CASE i = binding
        BY <2>4, <2>5, <4>1, Zenon
      <4>2. CASE i # binding
        BY <2>4, <2>5, <2>6, <3>1, <3>5, <4>2, Zenon
      <4> QED
        BY <4>1, <4>2
    <3>6. ASSUME binding' # 0, NEW f \in DOMAIN sockets' PROVE sockets'[f] < binding'
      <4>1. CASE f = n
        BY <2>3, <2>4, <3>3, <3>6, <4>1, Zenon
      <4>2. CASE f # n
        <5>1. f \in DOMAIN sockets /\ sockets'[f] = sockets[f]
          BY <2>4, <4>2, Zenon
        <5>2. sockets[f] < binding + 1
          BY <3>1, <3>2, <3>3, <5>1, Zenon
        <5> QED
          BY <2>3, <3>6, <5>1, <5>2, Zenon
      <4> QED
        BY <4>1, <4>2
    <3>7. ASSUME binding' # 0, NEW i \in Farm, i >= binding' PROVE phantom_state'[i] = "IDLE"
      BY <2>3, <2>6, <3>1, <3>3, <3>7, Zenon
    <3> QED
      BY <3>4, <3>5, <3>6, <3>7
  <2>11. OnceInv'
    BY <2>3, <2>9, <2>10, Zenon DEF OnceInv
  <2> QED
    BY <2>8, <2>11 DEF PhantomInv
<1>8. ASSUME NEW i \in Farm, NEW s \in {"ACTIVE", "TRIPPED"},
             binding = 0, binds # 0, binds <= 1 => phantom_fd[i] \in DOMAIN sockets,
             phantom_state' = [phantom_state EXCEPT ![i] = s],
             UNCHANGED <<phantom_fd, sockets, binding, binds>>
      PROVE  PhantomInv'
  <2>1. /\ phantom_state' \in [Farm -> {"IDLE", "ACTIVE", "TRIPPED"}]
        /\ \A j \in Farm : j # i => phantom_state'[j] = phantom_state[j]
    BY <1>1, <1>8
  <2>2. FdInv'
    BY <1>1, <1>2, <1>8, <2>1 DEF FdInv
  <2>3. /\ phantom_fd' = phantom_fd /\ sockets' = sockets /\ binding' = 0
        /\ binding' = binding /\ binds' = binds
    BY <1>8
  <2>4. ASSUME binds <= 1
        PROVE  /\ \A f \in DOMAIN sockets : phantom_fd[sockets[f]] = f
               /\ \A j \in Farm : phantom_state'[j] # "IDLE" => phantom_fd[j] \in DOMAIN sockets
    <3>1. /\ \A f \in DOMAIN sockets : phantom_fd[sockets[f]] = f
          /\ \A j \in Farm : phantom_state[j] # "IDLE" => phantom_fd[j] \in DOMAIN sockets
      BY <1>3, <2>4 DEF OnceInv
    <3> QED
      BY <1>8, <2>1, <2>4, <3>1, Zenon
  <2>5. OnceInv'
    BY <1>8, <2>3, <2>4, Zenon DEF OnceInv
  <2> QED
    BY <2>2, <2>5 DEF PhantomInv
<1>9. ASSUME NEW f \in DOMAIN sockets, phantom_trip(f) PROVE PhantomInv'
  <2>1. phantom_get(f) \in Farm /\ phantom_fd[phantom_get(f)] = f
    BY <1>9, GetIs DEF phantom_trip, PhantomInv
  <2>2. binds # 0
    BY <1>3, <1>9 DEF OnceInv
  <2> QED
    BY <1>8, <1>9, <2>1, <2>2, Zenon DEF phantom_trip
<1>10. ASSUME NEW i \in Farm, phantom_reset(i) PROVE PhantomInv'
  <2>1. phantom_state[i] # "IDLE"
    BY <1>10 DEF phantom_reset
  <2>2. binds # 0 /\ (binds <= 1 => phantom_fd[i] \in DOMAIN sockets)
    BY <1>3, <2>1 DEF OnceInv
  <2> QED
    BY <1>8, <1>10, <2>2, Zenon DEF phantom_reset
<1> QED
  BY <1>5, <1>6, <1>7, <1>9, <1>10, Zenon DEF PhantomNext

-----------------------------------------------------------------------------
DecoyInv == TableInv /\ DaemonInv /\ CageInv /\ PhantomInv

LEMMA InitEstablishes == Init => DecoyInv
<1> SUFFICES ASSUME Init PROVE DecoyInv
  OBVIOUS
<1> USE DEF Init
<1>1. TableInv
  BY DEF ShadowInit, ClockInit, TableInv
<1>2. DaemonInv
  BY DEF ShadowInit, DaemonInit, DaemonInv
<1>3. CageInv
  <2>1. DOMAIN << >> = {}
    OBVIOUS
  <2> QED
    BY <2>1 DEF CageInit, CageInv, Apart
<1>4. PHANTOM_COUNT \in Nat
  BY PhantomAssumption
<1>5. /\ phantom_fd = [i \in Farm |-> 0] /\ phantom_state = [i \in Farm |-> "IDLE"]
      /\ sockets = <<>> /\ binding = 0 /\ binds = 0
  BY DEF PhantomInit
<1>6. FdInv
  BY <1>4, <1>5 DEF FdInv
<1>7. OnceInv
  BY <1>5 DEF OnceInv
<1> QED
  BY <1>1, <1>2, <1>3, <1>6, <1>7 DEF DecoyInv, PhantomInv

(* What a part does not touch stays as it was. *)
LEMMA Untouched ==
  ASSUME DecoyInv
  PROVE  /\ UNCHANGED <<shadow, clock>> => TableInv'
         /\ UNCHANGED <<part, shadow, daemon>> => DaemonInv'
         /\ part # "daemon" /\ UNCHANGED <<part, daemon>> => DaemonInv'
         /\ UNCHANGED cage_vars => CageInv'
         /\ UNCHANGED phantom => PhantomInv'
<1>1. UNCHANGED <<shadow, clock>> => TableInv'
  BY DEF DecoyInv, TableInv, shadow
<1>2. UNCHANGED <<part, shadow, daemon>> => DaemonInv'
  BY DEF DecoyInv, DaemonInv, shadow, daemon
<1>3. part # "daemon" /\ UNCHANGED <<part, daemon>> => DaemonInv'
  BY DEF DecoyInv, DaemonInv, daemon
<1>4. UNCHANGED cage_vars => CageInv'
  BY DEF DecoyInv, CageInv, Apart, cage_vars, cage_history
<1>5. UNCHANGED phantom => PhantomInv'
  BY DEF DecoyInv, PhantomInv, FdInv, OnceInv, phantom
<1> QED
  BY <1>1, <1>2, <1>3, <1>4, <1>5

LEMMA StepPreserves ==
  ASSUME DecoyInv, [Next]_vars
  PROVE  DecoyInv'
<1>1. TableInv /\ DaemonInv /\ CageInv /\ PhantomInv
  BY DEF DecoyInv
<1>2. CASE TableMoves
  <2>1. TableInv'
    BY <1>1, <1>2, TableStep DEF TableMoves
  <2>2. DaemonInv' /\ CageInv' /\ PhantomInv'
    BY <1>2, Untouched DEF TableMoves, others
  <2> QED
    BY <2>1, <2>2 DEF DecoyInv
<1>3. CASE DaemonMoves
  <2>1. TableInv' /\ DaemonInv'
    BY <1>1, <1>3, DaemonStep DEF DaemonMoves
  <2>2. CageInv' /\ PhantomInv'
    BY <1>3, Untouched DEF DaemonMoves, others
  <2> QED
    BY <2>1, <2>2 DEF DecoyInv
<1>4. CASE CagesMove
  <2>1. CageInv'
    BY <1>1, <1>4, CageStep DEF CagesMove
  <2>2. TableInv' /\ DaemonInv' /\ PhantomInv'
    BY <1>4, Untouched DEF CagesMove
  <2> QED
    BY <2>1, <2>2 DEF DecoyInv
<1>5. CASE PhantomsMove
  <2>1. PhantomInv'
    BY <1>1, <1>5, PhantomStep DEF PhantomsMove
  <2>2. TableInv' /\ DaemonInv' /\ CageInv'
    BY <1>5, Untouched DEF PhantomsMove
  <2> QED
    BY <2>1, <2>2 DEF DecoyInv
<1>6. CASE TrapMoves \/ UNCHANGED vars
  <2>1. UNCHANGED <<part, shadow, daemon, clock, cage_vars, phantom>>
    BY <1>6 DEF TrapMoves, vars, others
  <2>2. TableInv' /\ DaemonInv' /\ CageInv' /\ PhantomInv'
    BY <2>1, Untouched
  <2> QED
    BY <2>1, <2>2 DEF DecoyInv
<1> QED
  BY <1>2, <1>3, <1>4, <1>5, <1>6 DEF Next

LEMMA Invariance == Spec => []DecoyInv
<1>1. DecoyInv /\ [Next]_vars => DecoyInv'
  BY StepPreserves
<1> QED
  BY InitEstablishes, <1>1, PTL DEF Spec

(* One call of shadow_evict_expired drops every expired entry without      *)
(* references, wherever it stands and however many there are, and keeps    *)
(* every other one as often as it was there.                               *)
THEOREM EvictsExactly == Spec => []EvictIsExact
<1>1. DecoyInv => EvictIsExact
  <2> SUFFICES ASSUME DecoyInv, NEW e
               PROVE  Cardinality(Places(Evicted(table), e)) =
                        IF Expired(e) THEN 0 ELSE Cardinality(Places(table, e))
    BY DEF EvictIsExact
  <2>1. table \in Seq(Entry)
    BY DEF DecoyInv, TableInv
  <2>2. CASE ~Expired(e)
    BY <2>1, <2>2, EvictedIs
  <2>3. CASE Expired(e)
    <3>1. /\ Evicted(table) \in Seq(Entry)
          /\ \A j \in 1 .. Len(Evicted(table)) : ~Expired(Evicted(table)[j])
      BY <2>1, EvictedIs
    <3>2. DOMAIN Evicted(table) = 1 .. Len(Evicted(table))
      BY <3>1
    <3>3. Places(Evicted(table), e) = {}
      BY <2>3, <3>1, <3>2 DEF Places
    <3> QED
      BY <2>3, <3>3, FS_EmptySet
  <2> QED
    BY <2>2, <2>3
<1> QED
  BY Invariance, <1>1, PTL

(* However many attackers the proxy has served, its table has one entry.   *)
THEOREM OneEntry == Spec => []AllOnOneEntry
<1>1. DecoyInv => AllOnOneEntry
  BY DEF DecoyInv, DaemonInv, AllOnOneEntry
<1> QED
  BY Invariance, <1>1, PTL

(* As long as every id is made at a later time than the one before, each   *)
(* session is found by its own id, and one that was rolled away finds      *)
(* nothing, after any number of sessions and rolls and whatever the round. *)
THEOREM IdsTellSessionsApart == Spec => []OneSessionPerId
<1>1. DecoyInv => OneSessionPerId
  BY ByItsOwnId DEF DecoyInv
<1> QED
  BY Invariance, <1>1, PTL

(* No socket leads to another phantom than its own; after one call of      *)
(* phantom_bind_all, whatever failed in it, each leads to its own.         *)
THEOREM SocketsLeadHome == Spec => []KnownWhileBoundOnce
<1>1. DecoyInv => KnownWhileBoundOnce
  BY Known DEF DecoyInv
<1> QED
  BY Invariance, <1>1, PTL
=============================================================================
