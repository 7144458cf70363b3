----------------------------- MODULE SharingProofs -----------------------------
(***************************************************************************)
(* Theorems about the three structures that threads share, for any number  *)
(* of readers, threads and actors, every size of the table and of the ring *)
(* and any number of rotations, events and messages.                       *)
(***************************************************************************)
EXTENDS Sharing, TLAPS

-----------------------------------------------------------------------------
(* mtk.c: while a scan has not passed the slot of a reader the key is      *)
(* whole and does not change, so what the reader copied is the key.        *)
RotationType ==
  /\ counter \in Nat
  /\ current_key \in [Half -> Nat]
  /\ hazard \in [Reader -> BOOLEAN]
  /\ scan \in Nat
  /\ written \subseteq Half
  /\ reading \subseteq Reader
  /\ late \subseteq reading
  /\ copy \in [Reader -> [Half -> Nat]]

WaitedFor(r) == r \in reading /\ r \notin late

RotationInv ==
  /\ RotationType
  /\ scan \in 1 .. Slots => written = {}
  /\ scan <= Slots => current_key["low"] = current_key["high"]
  /\ \A half \in written : scan > 0 => current_key[half] = counter
  /\ \A r \in Reader : WaitedFor(r) => scan <= r
  /\ \A r \in Reader : r \notin reading => copy[r] = Unread
  /\ \A r \in Reader : WaitedFor(r) =>
       \A half \in Half : copy[r][half] # None => copy[r][half] = current_key[half]

LEMMA RotationStarts == RotationInit => RotationInv
  BY RotationAssumption
  DEF RotationInit, RotationInv, RotationType, WaitedFor, Slots, Reader, Half, Unread, None

LEMMA RotationStep == RotationInv /\ [RotationNext]_rotation => RotationInv'
<1> SUFFICES ASSUME RotationInv, [RotationNext]_rotation PROVE RotationInv'
  OBVIOUS
<1> USE RotationAssumption DEF RotationInv, RotationType, WaitedFor, Slots, Reader
<1>1. CASE Rotate
  BY <1>1 DEF Rotate
<1>2. CASE ScanSlot
  BY <1>2 DEF ScanSlot
<1>3. ASSUME NEW half \in Half, WriteHalf(half) PROVE RotationInv'
  <2>1. \A r \in Reader : ~WaitedFor(r)
    BY <1>3 DEF WriteHalf
  <2>2. /\ current_key' \in [Half -> Nat]
        /\ \A h \in written' : current_key'[h] = counter
    BY <1>3 DEF WriteHalf
  <2>3. scan' <= Slots => current_key'["low"] = current_key'["high"]
    BY <1>3, <2>2 DEF WriteHalf, Half
  <2>4. scan' \in Nat /\ (scan' \in 1 .. Slots => written' = {})
    BY <1>3 DEF WriteHalf
  <2> QED
    BY <1>3, <2>1, <2>2, <2>3, <2>4 DEF WriteHalf
<1>4. ASSUME NEW r \in Reader, Acquire(r) PROVE RotationInv'
  BY <1>4 DEF Acquire, Unread, Half
<1>5. ASSUME NEW r \in Reader, Announced(r) PROVE RotationInv'
  BY <1>5 DEF Announced
<1>6. ASSUME NEW r \in Reader, NEW half \in Half, ReadHalf(r, half) PROVE RotationInv'
  <2>1. copy' \in [Reader -> [Half -> Nat]]
    BY <1>6 DEF ReadHalf
  <2>2. ASSUME NEW q \in Reader, WaitedFor(q), NEW h \in Half, copy'[q][h] # None
        PROVE  copy'[q][h] = current_key[h]
    BY <1>6, <2>2 DEF ReadHalf
  <2> QED
    BY <1>6, <2>1, <2>2 DEF ReadHalf
<1>7. ASSUME NEW r \in Reader, Release(r) PROVE RotationInv'
  <2>1. Unread \in [Half -> Nat]
    BY DEF Unread, None
  <2>2. copy' \in [Reader -> [Half -> Nat]] /\ hazard' \in [Reader -> BOOLEAN]
    BY <1>7, <2>1 DEF Release
  <2> QED
    BY <1>7, <2>2 DEF Release
<1>8. ASSUME NEW r \in Reader, Leaves(r) PROVE RotationInv'
  BY <1>8 DEF Leaves
<1>9. CASE UNCHANGED rotation
  BY <1>9 DEF rotation
<1> QED
  BY <1>1, <1>2, <1>3, <1>4, <1>5, <1>6, <1>7, <1>8, <1>9 DEF RotationNext, Rotating, Reads

LEMMA RotationInvIsEnough == RotationInv => TornOnlyIfLate
<1> SUFFICES ASSUME RotationInv, NEW r \in Reader, r \notin late,
                    NEW a \in Half, NEW b \in Half,
                    copy[r][a] # None, copy[r][b] # None
             PROVE  copy[r][a] = copy[r][b]
  BY DEF TornOnlyIfLate
<1>1. r \in reading
  BY DEF RotationInv, Unread
<1>2. scan <= Slots
  BY <1>1, RotationAssumption DEF RotationInv, RotationType, WaitedFor, Slots, Reader
<1> QED
  BY <1>1, <1>2 DEF RotationInv, WaitedFor, Half
-----------------------------------------------------------------------------
(* attrib.c: until two threads race, one thread at most is at a new record *)
(* and it is the one count points at; every published record is one        *)
(* actor's, whose points it adds up, and its tier is that of its score     *)
(* unless it was overtaken or the thread that stored the score is about to *)
(* store the tier.                                                         *)
Indices == 0 .. (ATTRIB_MAX_ACTORS - 1)

ThreatTier == {"UNKNOWN", "PROBING", "ACTIVE", "PERSISTENT"}

Steps == {"idle", "scan", "publish", "score", "add", "compare", "tier"}

AttributionType ==
  /\ actors \in [Indices -> [fp : Fingerprint \cup {NoFingerprint}, score : Nat, tier : ThreatTier]]
  /\ count \in Nat /\ count <= ATTRIB_MAX_ACTORS
  /\ step \in [Thread -> Steps]
  /\ event \in [Thread -> [fp : Fingerprint \cup {NoFingerprint}, points : Nat]]
  /\ local \in [Thread -> [n : Nat, score : Nat, tier : ThreatTier]]
  /\ booked \in [Fingerprint -> Nat]

Published == 0 .. (count - 1)

Reached(tier, low, high) == \E s \in low .. high : tier = Tier(s)

Recorded ==
  /\ \A i \in Published :
       /\ actors[i].fp \in Fingerprint
       /\ actors[i].score = booked[actors[i].fp]
       /\ Reached(actors[i].tier, 0, actors[i].score)
  /\ \A i, j \in Published : actors[i].fp = actors[j].fp => i = j
  /\ \A i \in Indices : i >= count => actors[i].score = 0 /\ actors[i].tier = "UNKNOWN"
  /\ \A fp \in Fingerprint : (\A i \in Published : actors[i].fp # fp) => booked[fp] = 0

(* What a thread in the middle of a call relies on. *)
InCall(t) ==
  /\ step[t] # "idle" => event[t].fp \in Fingerprint
  /\ step[t] = "scan" => local[t].n <= count
  /\ step[t] = "publish" =>
       /\ local[t].n = count /\ count < ATTRIB_MAX_ACTORS
       /\ actors[count].fp = event[t].fp
       /\ \A i \in Published : actors[i].fp # event[t].fp
  /\ step[t] \in {"score", "add", "compare", "tier"} =>
       local[t].n \in Published /\ actors[local[t].n].fp = event[t].fp
  /\ step[t] \in {"compare", "tier"} => local[t].score <= actors[local[t].n].score
  /\ step[t] = "tier" => Reached(local[t].tier, local[t].score, actors[local[t].n].score)

(* The thread that stored the score of record i last has its tier to store. *)
Due(t, i) == /\ step[t] \in {"compare", "tier"}
             /\ local[t].n = i /\ local[t].score = actors[i].score

Tiers == \A i \in Published : \/ i \in overtaken
                              \/ actors[i].tier = Tier(actors[i].score)
                              \/ \E t \in Thread : Due(t, i)

OneCreates == \A t, u \in Thread : step[t] = "publish" /\ step[u] = "publish" => t = u

AttributionInv ==
  /\ raced \in BOOLEAN
  /\ raced = FALSE => /\ AttributionType /\ Recorded /\ OneCreates /\ Tiers
                       /\ \A t \in Thread : InCall(t)

LEMMA AttributionStarts == AttributionInit => AttributionInv
<1> SUFFICES ASSUME AttributionInit PROVE AttributionInv
  OBVIOUS
<1> USE AttributionAssumption
<1>1. AttributionType
  BY DEF AttributionInit, AttributionType, Indices, Unused, NoEvent, NoLocal, Steps, ThreatTier
<1>2. Recorded
  BY DEF AttributionInit, Recorded, Published, Indices, Unused
<1>3. OneCreates /\ Tiers /\ \A t \in Thread : InCall(t)
  BY DEF AttributionInit, OneCreates, InCall, Tiers, Published
<1> QED
  BY <1>1, <1>2, <1>3 DEF AttributionInit, AttributionInv

(* A score grows: what it reached it has reached, and below the first tier *)
(* there is none.                                                          *)
LEMMA ReachedGrows ==
  ASSUME NEW tier, NEW low \in Nat, NEW high \in Nat, NEW l \in Nat, NEW h \in Nat,
         l <= low, high <= h, Reached(tier, low, high)
  PROVE  Reached(tier, l, h) /\ tier \in ThreatTier
<1>1. PICK s \in low .. high : tier = Tier(s)
  BY DEF Reached
<1>2. s \in l .. h
  BY <1>1
<1> QED
  BY <1>1, <1>2 DEF Reached, Tier, ThreatTier

LEMMA ReachedNow ==
  ASSUME NEW score \in Nat
  PROVE  /\ Reached(Tier(score), 0, score)
         /\ \A tier : Reached(tier, score, score) => tier = Tier(score)
         /\ \A tier : Reached(tier, 0, score) /\ Tier(score) = "UNKNOWN" => tier = "UNKNOWN"
BY DEF Reached, Tier

(* Other steps than those that store a score or a tier leave Tiers alone.  *)
LEMMA TiersRest ==
  ASSUME Tiers, NEW t \in Thread, step[t] \notin {"compare", "tier"},
         \A u \in Thread : u # t => step'[u] = step[u] /\ local'[u] = local[u],
         count' = count, overtaken' = overtaken, \A i \in Published : actors'[i] = actors[i]
  PROVE  Tiers'
<1> SUFFICES ASSUME NEW i \in Published
             PROVE  (\/ i \in overtaken
                     \/ actors[i].tier = Tier(actors[i].score)
                     \/ \E u \in Thread : Due(u, i))'
  BY DEF Tiers, Published
<1>1. ASSUME NEW u \in Thread, Due(u, i) PROVE Due(u, i)'
  BY <1>1 DEF Due
<1> QED
  BY <1>1 DEF Tiers

(* The scan finds a record of the fingerprint among those published.       *)
LEMMA FindHits ==
  ASSUME AttributionInv, raced = FALSE, NEW t \in Thread, Hits(t) # {}, step[t] = "scan"
  PROVE  LET i == CHOOSE i \in Hits(t) : \A j \in Hits(t) : i <= j
         IN  i \in Published /\ actors[i].fp = event[t].fp
<1>1. Hits(t) \subseteq Published
  BY DEF Hits, Published, AttributionInv, AttributionType, InCall
<1>2. \A i, j \in Hits(t) : i = j
  BY <1>1 DEF Hits, AttributionInv, Recorded
<1>3. \E i \in Hits(t) : \A j \in Hits(t) : i <= j
  BY <1>1, <1>2 DEF Published, AttributionInv, AttributionType
<1>4. (CHOOSE i \in Hits(t) : \A j \in Hits(t) : i <= j) \in Hits(t)
  BY <1>3, Zenon
<1> QED
  BY <1>1, <1>4 DEF Hits
LEMMA AttributionStep == AttributionInv /\ [AttributionNext]_attribution => AttributionInv'
<1> SUFFICES ASSUME AttributionInv, [AttributionNext]_attribution PROVE AttributionInv'
  OBVIOUS
<1>1. CASE UNCHANGED attribution
  BY <1>1
  DEF attribution, AttributionInv, AttributionType, Recorded, Published, InCall, OneCreates,
      Tiers, Due, Reached
<1>2. ASSUME NEW t \in Thread,
             \/ Load(t) \/ Find(t) \/ Full(t) \/ Create(t) \/ Publish(t)
             \/ LoadScore(t) \/ StoreScore(t) \/ Compare(t) \/ StoreNoTier(t) \/ StoreTier(t)
      PROVE  AttributionInv'
  <2>1. raced = FALSE
    BY <1>2 DEF AttributionInv, Load, Find, Full, Create, Publish, LoadScore, StoreScore,
                Compare, StoreNoTier, StoreTier, Goes
  <2>2. /\ AttributionType /\ Recorded /\ OneCreates /\ Tiers /\ (\A u \in Thread : InCall(u))
        /\ Published \subseteq Indices
    BY <2>1, AttributionAssumption DEF AttributionInv, AttributionType, Published, Indices
  <2>3. /\ step' \in [Thread -> Steps]
        /\ \A u \in Thread : u # t => step'[u] = step[u]
    BY <1>2, <2>2
    DEF Load, Find, Full, Create, Publish, LoadScore, StoreScore, Compare, StoreNoTier, StoreTier,
        Goes, AttributionType, Steps
  <2>a. \A u \in Thread : u # t => local'[u] = local[u] /\ event'[u] = event[u]
    BY <1>2, <2>2
    DEF Load, Find, Full, Create, Publish, LoadScore, StoreScore, Compare, StoreNoTier, StoreTier,
        Ends, AttributionType
  <2>4. CASE Load(t)
    <3>1. PICK fp \in Fingerprint, points \in Points :
            event' = [event EXCEPT ![t] = [fp |-> fp, points |-> points]]
      BY <2>4 DEF Load
    <3>2. /\ step[t] = "idle" /\ step'[t] = "scan" /\ local' = [local EXCEPT ![t].n = count]
          /\ UNCHANGED <<actors, count, booked, raced, overtaken>>
      BY <2>2, <2>4 DEF Load, Goes, AttributionType
    <3>3. AttributionType'
      BY <2>2, <2>3, <3>1, <3>2, AttributionAssumption DEF AttributionType
    <3>4. Recorded' /\ OneCreates'
      BY <2>2, <2>3, <3>2 DEF Recorded, Published, OneCreates
    <3>t. Tiers'
      BY <2>2, <2>3, <2>a, <3>2, TiersRest
    <3>5. ASSUME NEW u \in Thread PROVE InCall(u)'
      <4>1. CASE u = t
        BY <2>2, <3>1, <3>2, <4>1 DEF InCall, AttributionType
      <4>2. CASE u # t
        BY <2>2, <2>3, <3>1, <3>2, <4>2 DEF InCall, AttributionType, Published
      <4> QED
        BY <4>1, <4>2
    <3> QED
      BY <2>1, <3>2, <3>3, <3>4, <3>5, <3>t DEF AttributionInv
  <2>5. CASE Find(t)
    <3>1. PICK i : /\ local' = [local EXCEPT ![t].n = i]
                   /\ i \in Published /\ actors[i].fp = event[t].fp
      BY <2>1, <2>5, FindHits DEF Find, Goes
    <3>2. /\ step[t] = "scan" /\ step'[t] = "score"
          /\ UNCHANGED <<actors, count, event, booked, raced, overtaken>>
      BY <2>2, <2>5 DEF Find, Goes, AttributionType
    <3>3. AttributionType'
      BY <2>2, <2>3, <3>1, <3>2 DEF AttributionType, Published
    <3>4. Recorded' /\ OneCreates'
      BY <2>2, <2>3, <3>2 DEF Recorded, Published, OneCreates
    <3>t. Tiers'
      BY <2>2, <2>3, <2>a, <3>2, TiersRest
    <3>5. ASSUME NEW u \in Thread PROVE InCall(u)'
      <4>1. CASE u = t
        <5>1. step[t] = "scan"
          BY <2>5 DEF Find, Goes
        <5> QED
          BY <2>2, <3>1, <3>2, <4>1, <5>1 DEF InCall, AttributionType, Published
      <4>2. CASE u # t
        BY <2>2, <2>3, <3>1, <3>2, <4>2 DEF InCall, AttributionType, Published
      <4> QED
        BY <4>1, <4>2
    <3> QED
      BY <2>1, <3>2, <3>3, <3>4, <3>5, <3>t DEF AttributionInv
  <2>6. CASE Full(t)
    <3>1. /\ step[t] = "scan" /\ step'[t] = "idle"
          /\ UNCHANGED <<actors, count, booked, raced, overtaken>>
          /\ event' = [event EXCEPT ![t] = NoEvent] /\ local' = [local EXCEPT ![t] = NoLocal]
      BY <2>2, <2>6 DEF Full, Goes, Ends, AttributionType
    <3>2. AttributionType'
      BY <2>2, <2>3, <3>1 DEF AttributionType, NoEvent, NoLocal, ThreatTier
    <3>3. Recorded' /\ OneCreates'
      BY <2>2, <2>3, <3>1 DEF Recorded, Published, OneCreates
    <3>t. Tiers'
      BY <2>2, <2>3, <2>a, <3>1, TiersRest
    <3>4. ASSUME NEW u \in Thread PROVE InCall(u)'
      <4>1. CASE u = t
        BY <3>1, <4>1 DEF InCall
      <4>2. CASE u # t
        BY <2>2, <2>3, <3>1, <4>2 DEF InCall, AttributionType, Published
      <4> QED
        BY <4>1, <4>2
    <3> QED
      BY <2>1, <3>1, <3>2, <3>3, <3>4, <3>t DEF AttributionInv
  <2>7. CASE Create(t)
    <3>1. CASE Racing(t)
      BY <2>7, <3>1 DEF Create, AttributionInv
    <3>2. CASE ~Racing(t)
      <4>1. /\ count = local[t].n
            /\ count < ATTRIB_MAX_ACTORS
            /\ \A u \in Thread : u # t => step[u] # "publish"
            /\ count \in Indices
        BY <2>2, <2>7, <3>2, AttributionAssumption DEF Racing, Create, AttributionType, Indices
      <4>2. /\ step[t] = "scan" /\ step'[t] = "publish"
            /\ UNCHANGED <<count, event, local, booked, overtaken>> /\ raced' = FALSE
        BY <2>2, <2>7, <3>2 DEF Create, Goes, AttributionType
      <4>3. actors' = [actors EXCEPT ![count].fp = event[t].fp, ![count].tier = "UNKNOWN"]
        BY <2>7, <4>1 DEF Create
      <4>4. /\ \A i \in Indices : i # count => actors'[i] = actors[i]
            /\ actors'[count].fp = event[t].fp
            /\ actors'[count].score = actors[count].score
            /\ actors'[count].tier = "UNKNOWN"
            /\ actors' \in [Indices -> [fp : Fingerprint \cup {NoFingerprint}, score : Nat,
                                        tier : ThreatTier]]
        BY <2>2, <4>1, <4>3 DEF AttributionType, ThreatTier
      <4>5. \A i \in Published : i \in Indices /\ i # count /\ actors'[i] = actors[i]
        BY <2>2, <4>1, <4>4 DEF Published, AttributionType
      <4>6. AttributionType'
        BY <2>2, <2>3, <4>2, <4>4 DEF AttributionType
      <4>7. Recorded'
        <5>1. \A i \in Indices : i >= count => actors'[i].score = 0 /\ actors'[i].tier = "UNKNOWN"
          BY <2>2, <4>1, <4>4 DEF Recorded, AttributionType
        <5> QED
          BY <2>2, <4>2, <4>5, <5>1 DEF Recorded, Published
      <4>8. OneCreates'
        BY <2>3, <4>1, <4>2 DEF OneCreates
      <4>9. ASSUME NEW u \in Thread PROVE InCall(u)'
        <5>1. CASE u = t
          <6>1. \A i \in Published : actors[i].fp # event[t].fp
            BY <2>7, <4>1 DEF Create, Hits, Published
          <6> QED
            BY <2>2, <4>1, <4>2, <4>4, <4>5, <5>1, <6>1 DEF InCall, Published
        <5>2. CASE u # t
          BY <2>2, <2>3, <4>1, <4>2, <4>5, <5>2 DEF InCall, AttributionType, Published
        <5> QED
          BY <5>1, <5>2
      <4>10. Tiers'
        BY <2>2, <2>3, <2>a, <4>2, <4>5, TiersRest
      <4> QED
        BY <4>2, <4>6, <4>7, <4>8, <4>9, <4>10 DEF AttributionInv
    <3> QED
      BY <3>1, <3>2
  <2>8. CASE Publish(t)
    <3>1. /\ step[t] = "publish" /\ step'[t] = "score" /\ count' = count + 1
          /\ UNCHANGED <<actors, event, local, booked, raced, overtaken>>
      BY <2>2, <2>8 DEF Publish, Goes, AttributionType
    <3>2. /\ local[t].n = count /\ count < ATTRIB_MAX_ACTORS
          /\ actors[count].fp = event[t].fp /\ event[t].fp \in Fingerprint
          /\ \A i \in Published : actors[i].fp # event[t].fp
          /\ \A u \in Thread : u # t => step[u] # "publish"
      BY <2>2, <3>1 DEF InCall, OneCreates
    <3>3. /\ count \in Nat /\ count \in Indices /\ count \in Published'
          /\ \A i \in Published' : i = count \/ i \in Published
          /\ \A i \in Published : i \in Published' /\ i # count
      BY <2>2, <3>1, <3>2, AttributionAssumption DEF AttributionType, Published, Indices
    <3>4. AttributionType'
      BY <2>2, <2>3, <3>1, <3>2, AttributionAssumption DEF AttributionType
    <3>5. /\ actors[count].score = 0 /\ actors[count].tier = "UNKNOWN"
          /\ booked[actors[count].fp] = 0
      BY <2>2, <3>2, <3>3 DEF Recorded
    <3>6. Recorded'
      <4>1. ASSUME NEW i \in Published'
            PROVE  /\ actors[i].fp \in Fingerprint
                   /\ actors[i].score = booked[actors[i].fp]
                   /\ Reached(actors[i].tier, 0, actors[i].score)
        <5>1. CASE i = count
          BY <3>2, <3>5, <5>1, ReachedNow DEF Tier
        <5> QED
          BY <2>2, <3>3, <4>1, <5>1 DEF Recorded
      <4>2. ASSUME NEW i \in Published', NEW j \in Published', actors[i].fp = actors[j].fp
            PROVE  i = j
        BY <2>2, <3>2, <3>3, <4>2 DEF Recorded
      <4>3. ASSUME NEW i \in Indices, i >= count + 1
            PROVE  actors[i].score = 0 /\ actors[i].tier = "UNKNOWN"
        BY <2>2, <3>3, <4>3 DEF Recorded, Indices
      <4>4. ASSUME NEW fp \in Fingerprint, \A i \in Published' : actors[i].fp # fp
            PROVE  booked[fp] = 0
        BY <2>2, <3>3, <4>4 DEF Recorded
      <4> QED
        BY <3>1, <4>1, <4>2, <4>3, <4>4 DEF Recorded
    <3>7. OneCreates'
      BY <2>3, <3>1, <3>2 DEF OneCreates
    <3>8. ASSUME NEW u \in Thread PROVE InCall(u)'
      <4>1. CASE u = t
        BY <3>1, <3>2, <3>3, <4>1 DEF InCall
      <4>2. CASE u # t
        BY <2>2, <2>3, <3>1, <3>2, <3>3, <4>2 DEF InCall, AttributionType
      <4> QED
        BY <4>1, <4>2
    <3>9. Tiers'
      <4> SUFFICES ASSUME NEW i \in Published'
                   PROVE  (\/ i \in overtaken
                           \/ actors[i].tier = Tier(actors[i].score)
                           \/ \E u \in Thread : Due(u, i))'
        BY DEF Tiers
      <4>1. CASE i = count
        BY <3>1, <3>5, <4>1 DEF Tier
      <4>2. ASSUME NEW u \in Thread, Due(u, i) PROVE Due(u, i)'
        BY <2>3, <2>a, <3>1, <4>2 DEF Due
      <4> QED
        BY <2>2, <3>1, <3>3, <4>1, <4>2 DEF Tiers
    <3> QED
      BY <2>1, <3>1, <3>4, <3>6, <3>7, <3>8, <3>9 DEF AttributionInv
  <2>9. CASE LoadScore(t)
    <3>1. /\ step[t] = "score" /\ step'[t] = "add"
          /\ local' = [local EXCEPT ![t].score = actors[local[t].n].score]
          /\ UNCHANGED <<actors, count, event, booked, raced, overtaken>>
      BY <2>2, <2>9 DEF LoadScore, Goes, AttributionType
    <3>2. actors[local[t].n].score \in Nat
      BY <2>2, <3>1 DEF InCall, AttributionType
    <3>3. AttributionType'
      BY <2>2, <2>3, <3>1, <3>2 DEF AttributionType
    <3>4. Recorded' /\ OneCreates'
      BY <2>2, <2>3, <3>1 DEF Recorded, Published, OneCreates
    <3>t. Tiers'
      BY <2>2, <2>3, <2>a, <3>1, TiersRest
    <3>5. ASSUME NEW u \in Thread PROVE InCall(u)'
      <4>1. CASE u = t
        BY <2>2, <3>1, <4>1 DEF InCall, AttributionType, Published
      <4>2. CASE u # t
        BY <2>2, <2>3, <3>1, <4>2 DEF InCall, AttributionType, Published
      <4> QED
        BY <4>1, <4>2
    <3> QED
      BY <2>1, <3>1, <3>3, <3>4, <3>5, <3>t DEF AttributionInv
  <2>10. CASE StoreScore(t)
    <3> PICK i, score : i = local[t].n /\ score = local[t].score + event[t].points
      OBVIOUS
    <3>1. /\ step[t] = "add" /\ step'[t] = "compare"
          /\ actors' = [actors EXCEPT ![i].score = score]
          /\ local' = [local EXCEPT ![t].score = score]
          /\ booked' = [booked EXCEPT ![event[t].fp] = @ + event[t].points]
          /\ raced' = (actors[i].score # local[t].score)
          /\ UNCHANGED <<count, event, overtaken>>
      BY <2>2, <2>10 DEF StoreScore, Goes, AttributionType
    <3>2. CASE actors[i].score # local[t].score
      BY <3>1, <3>2 DEF AttributionInv
    <3>3. CASE actors[i].score = local[t].score
      <4>1. /\ i \in Published /\ i \in Indices
            /\ event[t].fp \in Fingerprint /\ actors[i].fp = event[t].fp
            /\ event[t].points \in Nat
        BY <2>2, <3>1 DEF InCall, AttributionType
      <4>2. /\ actors[i].score \in Nat
            /\ actors[i].score = booked[event[t].fp]
            /\ Reached(actors[i].tier, 0, actors[i].score)
        BY <2>2, <4>1 DEF Recorded, AttributionType
      <4>3. score = booked[event[t].fp] + event[t].points /\ score \in Nat
            /\ actors[i].score <= score
        BY <3>3, <4>1, <4>2
      <4>4. Reached(actors[i].tier, 0, score)
        BY <4>2, <4>3, ReachedGrows
      <4>5. /\ \A j \in Indices : j # i => actors'[j] = actors[j]
            /\ \A j \in Indices : actors'[j].fp = actors[j].fp /\ actors'[j].tier = actors[j].tier
            /\ actors'[i].score = score
            /\ actors' \in [Indices -> [fp : Fingerprint \cup {NoFingerprint}, score : Nat,
                                        tier : ThreatTier]]
        BY <2>2, <3>1, <4>1, <4>3 DEF AttributionType
      <4>6. /\ booked' \in [Fingerprint -> Nat]
            /\ booked'[event[t].fp] = score
            /\ \A fp \in Fingerprint : fp # event[t].fp => booked'[fp] = booked[fp]
        BY <2>2, <3>1, <4>1, <4>3 DEF AttributionType
      <4>7. /\ local' \in [Thread -> [n : Nat, score : Nat, tier : ThreatTier]]
            /\ local'[t].n = i /\ local'[t].score = score
        BY <2>2, <3>1, <4>3 DEF AttributionType
      <4>8. AttributionType'
        BY <2>2, <2>3, <3>1, <4>5, <4>6, <4>7 DEF AttributionType
      <4>9. \A j \in Published : j \in Indices /\ (j # i => actors[j].fp # event[t].fp)
        BY <2>2, <4>1 DEF Recorded
      <4>10. Recorded'
        <5>1. ASSUME NEW j \in Published
              PROVE  /\ actors'[j].fp \in Fingerprint
                     /\ actors'[j].score = booked'[actors'[j].fp]
                     /\ Reached(actors'[j].tier, 0, actors'[j].score)
          <6>1. CASE j = i
            BY <4>1, <4>4, <4>5, <4>6, <6>1
          <6>2. CASE j # i
            BY <2>2, <4>5, <4>6, <4>9, <6>2 DEF Recorded
          <6> QED
            BY <6>1, <6>2
        <5>2. ASSUME NEW j \in Indices, j >= count
              PROVE  actors'[j].score = 0 /\ actors'[j].tier = "UNKNOWN"
          <6>1. j # i
            BY <2>2, <4>1, <5>2 DEF Published, Indices, AttributionType
          <6> QED
            BY <2>2, <4>5, <5>2, <6>1 DEF Recorded
        <5>3. ASSUME NEW fp \in Fingerprint, \A j \in Published : actors'[j].fp # fp
              PROVE  booked'[fp] = 0
          <6>1. fp # event[t].fp /\ \A j \in Published : actors[j].fp # fp
            BY <4>1, <4>5, <4>9, <5>3
          <6> QED
            BY <2>2, <4>6, <6>1 DEF Recorded
        <5>4. Published' = Published
          BY <3>1 DEF Published
        <5>5. \A j, k \in Published : actors'[j].fp = actors'[k].fp => j = k
          BY <2>2, <4>5, <4>9 DEF Recorded
        <5> QED
          BY <3>1, <5>1, <5>2, <5>3, <5>4, <5>5 DEF Recorded
      <4>11. OneCreates'
        BY <2>2, <2>3, <3>1 DEF OneCreates
      <4>12. ASSUME NEW u \in Thread PROVE InCall(u)'
        <5>1. CASE u = t
          BY <2>2, <3>1, <4>1, <4>3, <4>5, <4>7, <5>1 DEF InCall, Published
        <5>2. CASE u # t
          <6>1. /\ step'[u] = step[u] /\ event'[u] = event[u] /\ local'[u] = local[u]
                /\ count' = count /\ Published' = Published
            BY <2>3, <2>a, <3>1, <5>2 DEF Published
          <6>2. step[u] = "publish" => count \in Indices
            BY <2>2, AttributionAssumption DEF InCall, AttributionType, Indices
          <6>3. \A j \in Indices : actors[j].score <= actors'[j].score
            BY <2>2, <4>2, <4>3, <4>5 DEF AttributionType
          <6>4. ASSUME step[u] \in {"compare", "tier"}
                PROVE  local[u].score <= actors'[local[u].n].score
            BY <2>2, <4>5, <6>3, <6>4 DEF InCall, AttributionType
          <6>5. ASSUME step[u] = "tier"
                PROVE  Reached(local[u].tier, local[u].score, actors'[local[u].n].score)
            <7>1. /\ local[u].n \in Indices /\ local[u].score \in Nat
                  /\ actors[local[u].n].score \in Nat /\ actors'[local[u].n].score \in Nat
                  /\ Reached(local[u].tier, local[u].score, actors[local[u].n].score)
              BY <2>2, <4>5, <6>5 DEF InCall, AttributionType
            <7>2. /\ actors[local[u].n].score <= actors'[local[u].n].score
                  /\ local[u].score <= local[u].score
              BY <6>3, <7>1
            <7> QED
              BY <7>1, <7>2, ReachedGrows, Zenon
          <6> QED
            BY <2>2, <4>5, <4>9, <6>1, <6>2, <6>4, <6>5 DEF InCall
        <5> QED
          BY <5>1, <5>2
      <4>13. Tiers'
        <5> SUFFICES ASSUME NEW j \in Published
                     PROVE  (\/ j \in overtaken
                             \/ actors[j].tier = Tier(actors[j].score)
                             \/ \E u \in Thread : Due(u, j))'
          BY <3>1 DEF Tiers, Published
        <5>1. CASE j = i
          BY <3>1, <4>5, <4>7, <5>1 DEF Due
        <5>2. CASE j # i
          <6>1. ASSUME NEW u \in Thread, Due(u, j) PROVE Due(u, j)'
            <7>1. u # t
              BY <3>1, <6>1 DEF Due
            <7> QED
              BY <2>3, <2>a, <4>5, <4>9, <5>2, <6>1, <7>1 DEF Due
          <6> QED
            BY <2>2, <3>1, <4>5, <4>9, <5>2, <6>1 DEF Tiers
        <5> QED
          BY <5>1, <5>2
      <4> QED
        BY <3>1, <3>3, <4>8, <4>10, <4>11, <4>12, <4>13 DEF AttributionInv
    <3> QED
      BY <3>2, <3>3
  <2>11. CASE Compare(t)
    <3>1. PICK tier : /\ local' = [local EXCEPT ![t].tier = tier]
                      /\ Reached(tier, local[t].score, actors[local[t].n].score)
      BY <2>11 DEF Compare, Reached
    <3>2. /\ step[t] = "compare" /\ step'[t] = "tier"
          /\ UNCHANGED <<actors, count, event, booked, raced, overtaken>>
      BY <2>2, <2>11 DEF Compare, Goes, AttributionType
    <3>3. /\ local[t].score \in Nat /\ actors[local[t].n].score \in Nat
          /\ local[t].n \in Published
      BY <2>2, <3>2 DEF InCall, AttributionType
    <3>4. tier \in ThreatTier
      BY <3>1, <3>3, ReachedGrows
    <3>5. /\ local' \in [Thread -> [n : Nat, score : Nat, tier : ThreatTier]]
          /\ local'[t].n = local[t].n /\ local'[t].score = local[t].score /\ local'[t].tier = tier
      BY <2>2, <3>1, <3>4 DEF AttributionType
    <3>6. AttributionType'
      BY <2>2, <2>3, <3>2, <3>5 DEF AttributionType
    <3>7. Recorded' /\ OneCreates'
      BY <2>2, <2>3, <3>2 DEF Recorded, Published, OneCreates
    <3>8. ASSUME NEW u \in Thread PROVE InCall(u)'
      <4>1. CASE u = t
        BY <2>2, <3>1, <3>2, <3>5, <4>1 DEF InCall, Published
      <4>2. CASE u # t
        BY <2>2, <2>3, <2>a, <3>2, <4>2 DEF InCall, Published
      <4> QED
        BY <4>1, <4>2
    <3>9. Tiers'
      <4>1. ASSUME NEW u \in Thread, NEW i \in Published, Due(u, i) PROVE Due(u, i)'
        BY <2>3, <2>a, <3>2, <3>5, <4>1 DEF Due
      <4> QED
        BY <2>2, <3>2, <4>1 DEF Tiers, Published
    <3> QED
      BY <2>1, <3>2, <3>6, <3>7, <3>8, <3>9 DEF AttributionInv
  <2>12. CASE StoreNoTier(t)
    <3>1. /\ step[t] = "tier" /\ step'[t] = "idle" /\ local[t].tier = "UNKNOWN"
          /\ UNCHANGED <<actors, count, booked, raced, overtaken>>
          /\ event' = [event EXCEPT ![t] = NoEvent] /\ local' = [local EXCEPT ![t] = NoLocal]
      BY <2>2, <2>12 DEF StoreNoTier, Goes, Ends, AttributionType
    <3>2. AttributionType'
      BY <2>2, <2>3, <3>1 DEF AttributionType, NoEvent, NoLocal, ThreatTier
    <3>3. Recorded' /\ OneCreates'
      BY <2>2, <2>3, <3>1 DEF Recorded, Published, OneCreates
    <3>4. ASSUME NEW u \in Thread PROVE InCall(u)'
      <4>1. CASE u = t
        BY <3>1, <4>1 DEF InCall
      <4>2. CASE u # t
        BY <2>2, <2>3, <2>a, <3>1, <4>2 DEF InCall, Published
      <4> QED
        BY <4>1, <4>2
    <3>5. Tiers'
      <4> SUFFICES ASSUME NEW i \in Published
                   PROVE  (\/ i \in overtaken
                           \/ actors[i].tier = Tier(actors[i].score)
                           \/ \E u \in Thread : Due(u, i))'
        BY <3>1 DEF Tiers, Published
      <4>1. CASE Due(t, i)
        <5>1. /\ actors[i].score \in Nat
              /\ Reached("UNKNOWN", actors[i].score, actors[i].score)
              /\ Reached(actors[i].tier, 0, actors[i].score)
          BY <2>2, <3>1, <4>1 DEF InCall, Due, Recorded, AttributionType
        <5>2. actors[i].tier = Tier(actors[i].score)
          BY <5>1, ReachedNow
        <5> QED
          BY <3>1, <5>2
      <4>2. ASSUME NEW u \in Thread, u # t, Due(u, i) PROVE Due(u, i)'
        BY <2>3, <2>a, <3>1, <4>2 DEF Due
      <4> QED
        BY <2>2, <3>1, <4>1, <4>2 DEF Tiers
    <3> QED
      BY <2>1, <3>1, <3>2, <3>3, <3>4, <3>5 DEF AttributionInv
  <2>13. CASE StoreTier(t)
    <3> PICK i, tier : i = local[t].n /\ tier = local[t].tier
      OBVIOUS
    <3>1. /\ step[t] = "tier" /\ step'[t] = "idle"
          /\ actors' = [actors EXCEPT ![i].tier = tier]
          /\ overtaken' = IF actors[i].score = local[t].score THEN overtaken \ {i}
                                                              ELSE overtaken \cup {i}
          /\ event' = [event EXCEPT ![t] = NoEvent] /\ local' = [local EXCEPT ![t] = NoLocal]
          /\ UNCHANGED <<count, booked, raced>>
      BY <2>2, <2>13 DEF StoreTier, Goes, Ends, AttributionType
    <3>2. /\ i \in Published /\ i \in Indices
          /\ local[t].score \in Nat /\ actors[i].score \in Nat
          /\ Reached(tier, local[t].score, actors[i].score)
      BY <2>2, <3>1 DEF InCall, AttributionType
    <3>3. Reached(tier, 0, actors[i].score) /\ tier \in ThreatTier
      BY <3>2, ReachedGrows
    <3>4. /\ \A j \in Indices : j # i => actors'[j] = actors[j]
          /\ \A j \in Indices : actors'[j].fp = actors[j].fp /\ actors'[j].score = actors[j].score
          /\ actors'[i].tier = tier
          /\ actors' \in [Indices -> [fp : Fingerprint \cup {NoFingerprint}, score : Nat,
                                      tier : ThreatTier]]
      BY <2>2, <3>1, <3>2, <3>3 DEF AttributionType
    <3>5. AttributionType'
      BY <2>2, <2>3, <3>1, <3>4 DEF AttributionType, NoEvent, NoLocal, ThreatTier
    <3>6. Recorded'
      <4>1. ASSUME NEW j \in Published PROVE Reached(actors'[j].tier, 0, actors'[j].score)
        <5>1. CASE j = i
          BY <3>2, <3>3, <3>4, <5>1
        <5>2. CASE j # i
          BY <2>2, <3>4, <5>2 DEF Recorded
        <5> QED
          BY <5>1, <5>2
      <4>2. ASSUME NEW j \in Indices, j >= count
            PROVE  actors'[j].score = 0 /\ actors'[j].tier = "UNKNOWN"
        <5>1. j # i
          BY <2>2, <3>2, <4>2 DEF Published, Indices, AttributionType
        <5> QED
          BY <2>2, <3>4, <4>2, <5>1 DEF Recorded
      <4>3. Published' = Published
        BY <3>1 DEF Published
      <4> QED
        BY <2>2, <3>1, <3>4, <4>1, <4>2, <4>3 DEF Recorded
    <3>7. OneCreates'
      BY <2>2, <2>3, <3>1 DEF OneCreates
    <3>8. ASSUME NEW u \in Thread PROVE InCall(u)'
      <4>1. CASE u = t
        BY <3>1, <4>1 DEF InCall
      <4>2. CASE u # t
        <5>1. step[u] = "publish" => count \in Indices
          BY <2>2, AttributionAssumption DEF InCall, AttributionType, Indices
        <5> QED
          BY <2>2, <2>3, <2>a, <3>1, <3>4, <4>2, <5>1 DEF InCall, Published
      <4> QED
        BY <4>1, <4>2
    <3>9. Tiers'
      <4> SUFFICES ASSUME NEW j \in Published
                   PROVE  (\/ j \in overtaken
                           \/ actors[j].tier = Tier(actors[j].score)
                           \/ \E u \in Thread : Due(u, j))'
        BY <3>1 DEF Tiers, Published
      <4>1. CASE j = i /\ actors[i].score = local[t].score
        <5>1. tier = Tier(actors[i].score)
          BY <3>2, <4>1, ReachedNow
        <5> QED
          BY <3>2, <3>4, <4>1, <5>1
      <4>2. CASE j = i /\ actors[i].score # local[t].score
        BY <3>1, <4>2
      <4>3. CASE j # i
        <5>1. ASSUME NEW u \in Thread, Due(u, j) PROVE Due(u, j)'
          <6>1. u # t
            BY <4>3, <5>1 DEF Due
          <6> QED
            BY <2>2, <2>3, <2>a, <3>4, <5>1, <6>1 DEF Due
        <5>2. j \in overtaken => j \in overtaken'
          BY <3>1, <4>3
        <5> QED
          BY <2>2, <3>4, <4>3, <5>1, <5>2 DEF Tiers
      <4> QED
        BY <4>1, <4>2, <4>3
    <3> QED
      BY <2>1, <3>1, <3>5, <3>6, <3>7, <3>8, <3>9 DEF AttributionInv
  <2> QED
    BY <1>2, <2>4, <2>5, <2>6, <2>7, <2>8, <2>9, <2>10, <2>11, <2>12, <2>13
<1> QED
  BY <1>1, <1>2 DEF AttributionNext

LEMMA AttributionInvIsEnough == AttributionInv => UnracedIsExact
<1> SUFFICES ASSUME AttributionInv, ~raced PROVE UnracedIsExact
  BY DEF UnracedIsExact
<1>1. AttributionType /\ Recorded /\ Tiers
  BY DEF AttributionInv
<1>2. \A i \in Published, t \in Thread : Due(t, i) => TierDue(i)
  BY DEF Due, TierDue
<1> QED
  BY <1>1, <1>2 DEF AttributionType, Recorded, Reached, Tiers, Published, UnracedIsExact
-----------------------------------------------------------------------------
(* mesh_sync.c: the ring seen from the tail.  The slot d places after it   *)
(* is that of message Taken + d + 1, and holds the latest message pushed   *)
(* for that slot, or the one a lap before while that store is under way.   *)
Wrap(i) == IF i >= RING_CAPACITY THEN i - RING_CAPACITY ELSE i

(* The pop under way stored the tail first, or copied first. *)
TailAhead == "message" \in popping /\ "tail" \notin popping
CopyAhead == "copied" \in popping \/ ("tail" \in popping /\ "message" \notin popping)

(* Stores of tail and of head that have been made. *)
Taken == IF TailAhead THEN Len(popped) + 1
         ELSE IF CopyAhead THEN Len(popped) - 1 ELSE Len(popped)

Shown == IF "head" \in pushing THEN pushed_count - 1 ELSE pushed_count

Latest(m) == IF m <= pushed_count THEN m ELSE LapBefore(m)

Held(m) == IF "message" \in pushing /\ Latest(m) = pushed_count
           THEN LapBefore(pushed_count) ELSE Latest(m)

Index == 0 .. (RING_CAPACITY - 1)

RingType ==
  /\ ordered \in BOOLEAN
  /\ ring \in [Index -> Nat]
  /\ ring_head \in Index /\ ring_tail \in Index
  /\ pushing \subseteq {"message", "head"}
  /\ popping \subseteq {"message", "tail"} \/ popping = {"copied"}
  /\ pushed_count \in Nat /\ popped \in Seq(Nat)

(* What a call under way relies on. *)
CallsUnderWay ==
  /\ pushing # {} => pushed_count >= 1
  /\ CopyAhead => Len(popped) >= 1
  /\ "tail" \in popping => Taken < Shown
  /\ ordered = TRUE =>
       /\ "message" \in pushing => "head" \in pushing
       /\ "message" \in popping => "tail" \in popping
       /\ "copied" \notin popping

Spaced == /\ Taken <= Shown
          /\ pushed_count < Taken + RING_CAPACITY
          /\ ring_head = Wrap(ring_tail + (Shown - Taken))

Filled == \A d \in Index : ring[Wrap(ring_tail + d)] = Held(Taken + d + 1)

RingInv == RingType /\ CallsUnderWay /\ Spaced /\ Filled /\ PopsInOrder

LEMMA NextIndexWraps ==
  ASSUME NEW i \in Index
  PROVE  /\ NextIndex(i) = Wrap(i + 1)
         /\ (i + RING_CAPACITY - 1) % RING_CAPACITY = Wrap(i + RING_CAPACITY - 1)
         /\ NextIndex(i) \in Index
BY RingAssumption DEF NextIndex, Wrap, Index

LEMMA RingStarts == RingInit => RingInv
<1> SUFFICES ASSUME RingInit PROVE RingInv
  OBVIOUS
<1> USE RingAssumption DEF RingInit, Index
<1>1. RingType
  BY DEF RingType
<1>2. Taken = 0 /\ Shown = 0
  BY DEF Taken, Shown
<1>3. CallsUnderWay
  BY DEF CallsUnderWay
<1>4. Spaced
  BY <1>2 DEF Spaced, Wrap
<1>5. Filled
  BY <1>2 DEF Filled, Held, Latest, LapBefore, Wrap
<1>6. PopsInOrder
  BY DEF PopsInOrder
<1> QED
  BY <1>1, <1>3, <1>4, <1>5, <1>6 DEF RingInv

(* What a call copies, before or after it stored the tail: with stores in  *)
(* order the next message, without them that one or the one a lap before.  *)
LEMMA Copied ==
  ASSUME RingInv, NEW slot,
         \/ /\ ~TailAhead /\ ~CopyAhead
            /\ slot = ring_tail
            /\ ordered = TRUE => "tail" \in popping
         \/ /\ TailAhead
            /\ slot = (ring_tail + RING_CAPACITY - 1) % RING_CAPACITY
  PROVE  LET k == Len(popped) + 1
         IN  /\ ring[slot] \in Nat
             /\ ring[slot] = k \/ (ordered = FALSE /\ ring[slot] = LapBefore(k))
<1> PICK k, T : k = Len(popped) + 1 /\ T = Taken
  OBVIOUS
<1>1. /\ ring_tail \in Index /\ k \in Nat \ {0} /\ T \in Nat /\ RING_CAPACITY \in Nat \ {0, 1}
      /\ pushed_count \in Nat
  BY RingAssumption DEF RingInv, RingType, Taken, CallsUnderWay
<1>2. CASE /\ ~TailAhead /\ ~CopyAhead /\ slot = ring_tail
           /\ ordered = TRUE => "tail" \in popping
  <2>1. T + 1 = k
    BY <1>1, <1>2 DEF Taken
  <2>2. 0 \in Index /\ Wrap(ring_tail + 0) = slot
    BY <1>1, <1>2 DEF Index, Wrap
  <2>3. ring[slot] = Held(k)
    BY <1>1, <2>1, <2>2 DEF RingInv, Filled
  <2>4. ASSUME ordered = TRUE
        PROVE  k < pushed_count \/ (k = pushed_count /\ "message" \notin pushing)
    <3>1. "tail" \in popping /\ ("message" \in pushing => "head" \in pushing)
      BY <1>2, <2>4 DEF RingInv, CallsUnderWay
    <3>2. T < Shown
      BY <3>1, Zenon DEF RingInv, CallsUnderWay
    <3> QED
      BY <1>1, <2>1, <3>1, <3>2 DEF Shown
  <2>5. T <= pushed_count
    BY <1>1 DEF RingInv, Spaced, Shown, RingType
  <2>6. ordered \in BOOLEAN /\ (pushing # {} => pushed_count >= 1)
    BY DEF RingInv, RingType, CallsUnderWay
  <2>7. ring[slot] \in Nat
    BY <1>1, <2>3 DEF Held, Latest, LapBefore
  <2>8. ring[slot] = k \/ (ordered = FALSE /\ ring[slot] = LapBefore(k))
    <3>1. ordered = TRUE => ring[slot] = k
      BY <1>1, <2>3, <2>4 DEF Held, Latest
    <3>2. ring[slot] = k \/ ring[slot] = LapBefore(k)
      BY <1>1, <2>1, <2>3, <2>5, <2>6 DEF Held, Latest, LapBefore
    <3> QED
      BY <2>6, <3>1, <3>2
  <2> QED
    BY <2>7, <2>8
<1>3. CASE TailAhead /\ slot = (ring_tail + RING_CAPACITY - 1) % RING_CAPACITY
  <2>1. T = k
    BY <1>1, <1>3 DEF Taken
  <2>2. (RING_CAPACITY - 1) \in Index /\ Wrap(ring_tail + (RING_CAPACITY - 1)) = slot
    <3>1. ring_tail + (RING_CAPACITY - 1) = ring_tail + RING_CAPACITY - 1
      BY <1>1 DEF Index
    <3>2. slot = Wrap(ring_tail + RING_CAPACITY - 1)
      BY <1>1, <1>3, NextIndexWraps
    <3>3. (RING_CAPACITY - 1) \in Index
      BY <1>1 DEF Index
    <3> QED
      BY <3>1, <3>2, <3>3, Zenon
  <2>3. ring[slot] = Held(k + RING_CAPACITY)
    BY <1>1, <2>1, <2>2 DEF RingInv, Filled
  <2>4. ordered = FALSE
    <3>1. ordered # TRUE
      BY <1>3 DEF RingInv, CallsUnderWay, TailAhead
    <3> QED
      BY <3>1 DEF RingInv, RingType
  <2>5. T <= pushed_count /\ pushed_count < T + RING_CAPACITY
    BY <1>1 DEF RingInv, Spaced, Shown, RingType
  <2>6. ring[slot] \in Nat
    BY <1>1, <2>3 DEF Held, Latest, LapBefore
  <2>7. ring[slot] = k \/ ring[slot] = LapBefore(k)
    BY <1>1, <2>1, <2>3, <2>5 DEF Held, Latest, LapBefore
  <2> QED
    BY <2>4, <2>6, <2>7
<1> QED
  BY <1>2, <1>3

(* The numbers the steps below compute with. *)
LEMMA Numbers ==
  ASSUME RingInv
  PROVE  /\ RING_CAPACITY \in Nat /\ RING_CAPACITY >= 2
         /\ ring_tail \in Nat /\ ring_tail < RING_CAPACITY
         /\ Taken \in Nat /\ Shown \in Nat /\ pushed_count \in Nat
         /\ Taken <= Shown /\ Shown <= pushed_count
         /\ pushed_count < Taken + RING_CAPACITY
         /\ ring_head = Wrap(ring_tail + (Shown - Taken))
<1>1. ring_tail \in Index /\ pushed_count \in Nat /\ Len(popped) \in Nat
  BY DEF RingInv, RingType
<1>2. Taken \in Nat
  BY <1>1 DEF RingInv, CallsUnderWay, Taken
<1>3. Shown \in Nat /\ Shown <= pushed_count
  BY <1>1 DEF RingInv, CallsUnderWay, Shown
<1> QED
  BY <1>1, <1>2, <1>3, RingAssumption DEF RingInv, Spaced, Index

(* A push begins: its slot is the free one the head points at.             *)
LEMMA PushKeeps == RingInv /\ ring_push => RingInv'
<1> SUFFICES ASSUME RingInv, ring_push PROVE RingInv'
  OBVIOUS
<1>1. /\ pushing = {} /\ pushing' = {"message", "head"} /\ Room
      /\ pushed_count' = pushed_count + 1
      /\ UNCHANGED <<ordered, ring, ring_head, ring_tail, popping, popped>>
  BY DEF ring_push
<1>2. Shown = pushed_count /\ Shown' = pushed_count
  BY <1>1, Numbers DEF Shown
<1>3. Taken' = Taken /\ (CopyAhead' <=> CopyAhead)
  BY <1>1 DEF Taken, TailAhead, CopyAhead
<1>4. pushed_count + 1 < Taken + RING_CAPACITY
  <2>1. NextIndex(ring_head) = Wrap(ring_head + 1)
    BY NextIndexWraps DEF RingInv, RingType
  <2>2. Wrap(ring_head + 1) # ring_tail
    BY <1>1, <2>1 DEF Room
  <2> QED
    BY <1>2, <2>2, Numbers DEF Wrap
<1>5. RingType'
  BY <1>1, Numbers DEF RingInv, RingType
<1>6. CallsUnderWay'
  <2>1. pushed_count' >= 1
    BY <1>1, Numbers
  <2>2. CopyAhead' => Len(popped') >= 1
    BY <1>1, <1>3 DEF RingInv, CallsUnderWay
  <2>3. "tail" \in popping' => Taken' < Shown'
    BY <1>1, <1>2, <1>3 DEF RingInv, CallsUnderWay
  <2>4. ordered' = TRUE =>
          /\ "message" \in pushing' => "head" \in pushing'
          /\ "message" \in popping' => "tail" \in popping'
          /\ "copied" \notin popping'
    BY <1>1 DEF RingInv, CallsUnderWay
  <2> QED
    BY <2>1, <2>2, <2>3, <2>4 DEF CallsUnderWay
<1>7. Spaced'
  BY <1>1, <1>2, <1>3, <1>4, Numbers DEF Spaced, Wrap
<1>8. ASSUME NEW m \in Nat, m > Taken, m <= Taken + RING_CAPACITY
      PROVE  Held(m)' = Held(m)
  BY <1>1, <1>8, Numbers DEF Held, Latest, LapBefore
<1>9. Filled'
  <2>1. ASSUME NEW d \in Index
        PROVE  ring'[Wrap(ring_tail + d)] = Held(Taken + d + 1)'
    <3>1. ring[Wrap(ring_tail + d)] = Held(Taken + d + 1)
      BY DEF RingInv, Filled
    <3>2. Taken + d + 1 \in Nat /\ Taken + d + 1 > Taken /\ Taken + d + 1 <= Taken + RING_CAPACITY
      BY Numbers DEF Index
    <3> QED
      BY <1>1, <1>3, <1>8, <3>1, <3>2
  <2> QED
    BY <1>1, <1>3, <2>1 DEF Filled, Wrap, Index
<1>10. PopsInOrder'
  BY <1>1 DEF RingInv, PopsInOrder
<1> QED
  BY <1>5, <1>6, <1>7, <1>9, <1>10 DEF RingInv

(* The message is stored: in its slot there is now the latest message.     *)
LEMMA StoreMessageKeeps == RingInv /\ StoreMessage => RingInv'
<1> SUFFICES ASSUME RingInv, StoreMessage PROVE RingInv'
  OBVIOUS
<1> DEFINE slot == IF "head" \in pushing THEN ring_head
                   ELSE (ring_head + RING_CAPACITY - 1) % RING_CAPACITY
<1>1. /\ "message" \in pushing /\ pushing' = pushing \ {"message"}
      /\ ring' = [ring EXCEPT ![slot] = pushed_count]
      /\ UNCHANGED <<ordered, ring_head, ring_tail, popping, pushed_count, popped>>
  BY DEF StoreMessage
<1>2. Shown' = Shown /\ Taken' = Taken /\ (CopyAhead' <=> CopyAhead) /\ pushed_count >= 1
  BY <1>1 DEF Shown, Taken, TailAhead, CopyAhead, RingInv, CallsUnderWay
<1>3. slot = IF "head" \in pushing THEN ring_head ELSE Wrap(ring_head + RING_CAPACITY - 1)
  BY NextIndexWraps DEF RingInv, RingType
<1>4. PICK p \in Index : /\ slot = Wrap(ring_tail + p)
                        /\ \/ Taken + p + 1 = pushed_count
                           \/ Taken + p + 1 = pushed_count + RING_CAPACITY
  <2>1. CASE "head" \in pushing
    <3>1. pushed_count - 1 - Taken \in Index /\ Shown = pushed_count - 1
      BY <1>2, <2>1, Numbers DEF Shown, Index
    <3>2. slot = Wrap(ring_tail + (pushed_count - 1 - Taken))
      BY <1>3, <2>1, <3>1, Numbers
    <3>3. Taken + (pushed_count - 1 - Taken) + 1 = pushed_count
      BY Numbers
    <3> HIDE DEF slot
    <3> QED
      BY <3>1, <3>2, <3>3
  <2>2. CASE "head" \notin pushing /\ Taken < pushed_count
    <3>1. pushed_count - 1 - Taken \in Index /\ Shown = pushed_count
      BY <1>2, <2>2, Numbers DEF Shown, Index
    <3>2. slot = Wrap(ring_tail + (pushed_count - 1 - Taken))
      <4>1. slot = Wrap(Wrap(ring_tail + (pushed_count - Taken)) + RING_CAPACITY - 1)
        BY <1>3, <2>2, <3>1, Numbers
      <4> HIDE DEF slot
      <4> QED
        BY <2>2, <4>1, Numbers DEF Wrap
    <3>3. Taken + (pushed_count - 1 - Taken) + 1 = pushed_count
      BY Numbers
    <3> HIDE DEF slot
    <3> QED
      BY <3>1, <3>2, <3>3
  <2>3. CASE "head" \notin pushing /\ Taken = pushed_count
    <3>1. RING_CAPACITY - 1 \in Index /\ Shown = pushed_count
      BY <2>3, Numbers DEF Shown, Index
    <3>2. slot = Wrap(ring_tail + (RING_CAPACITY - 1))
      <4>1. slot = Wrap(Wrap(ring_tail + 0) + RING_CAPACITY - 1)
        BY <1>3, <2>3, <3>1, Numbers
      <4> HIDE DEF slot
      <4> QED
        BY <4>1, Numbers DEF Wrap
    <3>3. Taken + (RING_CAPACITY - 1) + 1 = pushed_count + RING_CAPACITY
      BY <2>3, Numbers
    <3> HIDE DEF slot
    <3> QED
      BY <3>1, <3>2, <3>3
  <2>4. Taken < pushed_count \/ Taken = pushed_count
    BY Numbers
  <2> HIDE DEF slot
  <2> QED
    BY <2>1, <2>2, <2>3, <2>4, Zenon
<1> HIDE DEF slot
<1>5. slot \in Index
  BY <1>4, Numbers DEF Wrap, Index
<1>6. RingType'
  BY <1>1, <1>5, Numbers DEF RingInv, RingType
<1>7. CallsUnderWay'
  <2>1. pushed_count' >= 1
    BY <1>1, <1>2
  <2>2. CopyAhead' => Len(popped') >= 1
    BY <1>1, <1>2 DEF RingInv, CallsUnderWay
  <2>3. "tail" \in popping' => Taken' < Shown'
    BY <1>1, <1>2 DEF RingInv, CallsUnderWay
  <2>4. ordered' = TRUE =>
          /\ "message" \in pushing' => "head" \in pushing'
          /\ "message" \in popping' => "tail" \in popping'
          /\ "copied" \notin popping'
    BY <1>1 DEF RingInv, CallsUnderWay
  <2> QED
    BY <2>1, <2>2, <2>3, <2>4 DEF CallsUnderWay
<1>8. Spaced'
  BY <1>1, <1>2 DEF RingInv, Spaced, Wrap
<1>9. Filled'
  <2>1. ASSUME NEW d \in Index
        PROVE  ring'[Wrap(ring_tail + d)] = Latest(Taken + d + 1)
    <3>1. CASE d = p
      BY <1>1, <1>2, <1>4, <1>5, <3>1, Numbers DEF RingInv, RingType, Latest, LapBefore
    <3>2. CASE d # p
      <4>1. Wrap(ring_tail + d) \in Index /\ Wrap(ring_tail + d) # slot
        BY <1>4, <3>2, Numbers DEF Wrap, Index
      <4>2. Latest(Taken + d + 1) # pushed_count
        BY <1>2, <1>4, <3>2, Numbers DEF Latest, LapBefore, Index
      <4>3. ring[Wrap(ring_tail + d)] = Latest(Taken + d + 1)
        BY <4>2 DEF RingInv, Filled, Held
      <4> QED
        BY <1>1, <4>1, <4>3 DEF RingInv, RingType
    <3> QED
      BY <3>1, <3>2
  <2>2. ASSUME NEW m PROVE Held(m)' = Latest(m)
    BY <1>1 DEF Held, Latest, LapBefore
  <2> QED
    BY <1>1, <1>2, <2>1, <2>2 DEF Filled, Wrap, Index
<1>10. PopsInOrder'
  BY <1>1 DEF RingInv, PopsInOrder
<1> QED
  BY <1>6, <1>7, <1>8, <1>9, <1>10 DEF RingInv

(* The head is stored: one message more is shown to the pops.              *)
LEMMA StoreHeadKeeps == RingInv /\ StoreHead => RingInv'
<1> SUFFICES ASSUME RingInv, StoreHead PROVE RingInv'
  OBVIOUS
<1>1. /\ "head" \in pushing /\ pushing' = pushing \ {"head"}
      /\ ring_head' = NextIndex(ring_head)
      /\ UNCHANGED <<ordered, ring, ring_tail, popping, pushed_count, popped>>
  BY DEF StoreHead
<1>2. /\ Taken' = Taken /\ (CopyAhead' <=> CopyAhead)
      /\ pushed_count >= 1 /\ Shown' = pushed_count /\ Shown = pushed_count - 1
  BY <1>1 DEF Shown, Taken, TailAhead, CopyAhead, RingInv, CallsUnderWay
<1>3. ring_head' = Wrap(ring_head + 1) /\ ring_head' \in Index
  BY <1>1, NextIndexWraps DEF RingInv, RingType
<1>4. RingType'
  BY <1>1, <1>3 DEF RingInv, RingType
<1>5. CallsUnderWay'
  <2>1. pushed_count' >= 1
    BY <1>1, <1>2
  <2>2. CopyAhead' => Len(popped') >= 1
    BY <1>1, <1>2 DEF RingInv, CallsUnderWay
  <2>3. "tail" \in popping' => Taken' < Shown'
    <3>1. "tail" \in popping' => Taken < Shown
      BY <1>1, Zenon DEF RingInv, CallsUnderWay
    <3> QED
      BY <1>2, <3>1, Numbers
  <2>4. ordered' = TRUE =>
          /\ "message" \in pushing' => "head" \in pushing'
          /\ "message" \in popping' => "tail" \in popping'
          /\ "copied" \notin popping'
    BY <1>1 DEF StoreHead, RingInv, CallsUnderWay
  <2> QED
    BY <2>1, <2>2, <2>3, <2>4 DEF CallsUnderWay
<1>6. Spaced'
  BY <1>1, <1>2, <1>3, Numbers DEF Spaced, Wrap
<1>7. ASSUME NEW m PROVE Held(m)' = Held(m)
  BY <1>1 DEF Held, Latest, LapBefore
<1>8. Filled'
  BY <1>1, <1>2, <1>7 DEF RingInv, Filled, Wrap, Index
<1>9. PopsInOrder'
  BY <1>1 DEF RingInv, PopsInOrder
<1> QED
  BY <1>4, <1>5, <1>6, <1>8, <1>9 DEF RingInv

(* Steps of a pop that store no tail leave the ring itself alone.          *)
LEMMA RingStays ==
  ASSUME RingInv, Taken' = Taken, RingType', CallsUnderWay', PopsInOrder',
         UNCHANGED <<ordered, ring, ring_head, ring_tail, pushing, pushed_count>>
  PROVE  RingInv'
<1>1. Shown' = Shown
  BY DEF Shown
<1>2. Spaced'
  BY <1>1 DEF RingInv, Spaced, Wrap
<1>3. ASSUME NEW m PROVE Held(m)' = Held(m)
  BY DEF Held, Latest, LapBefore
<1>4. Filled'
  BY <1>3 DEF RingInv, Filled, Wrap, Index
<1> QED
  BY <1>2, <1>4 DEF RingInv

(* The load saw a message: the head will not fall back to the tail.        *)
LEMMA PopKeeps == RingInv /\ ring_pop => RingInv'
<1> SUFFICES ASSUME RingInv, ring_pop PROVE RingInv'
  OBVIOUS
<1>1. /\ popping \in {{}, {"copied"}} /\ ring_tail # ring_head
      /\ popping' = IF popping = {} THEN {"message", "tail"} ELSE {"tail"}
      /\ UNCHANGED <<ordered, ring, ring_head, ring_tail, pushing, pushed_count, popped>>
  BY DEF ring_pop
<1>2. \/ popping = {} /\ popping' = {"message", "tail"}
      \/ popping = {"copied"} /\ popping' = {"tail"} /\ "copied" \in popping
  BY <1>1
<1>3. ~TailAhead /\ ~TailAhead' /\ (CopyAhead' <=> CopyAhead)
  BY <1>2 DEF TailAhead, CopyAhead
<1>4. Taken' = Taken
  BY <1>1, <1>3 DEF Taken
<1>5. Taken < Shown /\ Shown' = Shown
  <2>1. Shown # Taken
    BY <1>1, Numbers DEF Wrap
  <2> QED
    BY <1>1, <2>1, Numbers DEF Shown
<1>6. RingType'
  BY <1>1, <1>2 DEF RingInv, RingType
<1>7. CallsUnderWay'
  <2>1. pushing' # {} => pushed_count' >= 1
    BY <1>1 DEF RingInv, CallsUnderWay
  <2>2. CopyAhead' => Len(popped') >= 1
    BY <1>1, <1>3 DEF RingInv, CallsUnderWay
  <2>3. "tail" \in popping' => Taken' < Shown'
    BY <1>4, <1>5
  <2>4. ordered' = TRUE =>
          /\ "message" \in pushing' => "head" \in pushing'
          /\ "message" \in popping' => "tail" \in popping'
          /\ "copied" \notin popping'
    BY <1>1, <1>2 DEF RingInv, CallsUnderWay
  <2> QED
    BY <2>1, <2>2, <2>3, <2>4 DEF CallsUnderWay
<1>8. PopsInOrder'
  BY <1>1 DEF RingInv, PopsInOrder
<1> QED
  BY <1>1, <1>4, <1>6, <1>7, <1>8, RingStays

(* One more message popped, the right one or that of a lap before.         *)
LEMMA OneMorePopped ==
  ASSUME RingInv, NEW m \in Nat, popped' = Append(popped, m), ordered' = ordered,
         m = Len(popped) + 1 \/ (ordered = FALSE /\ m = LapBefore(Len(popped) + 1))
  PROVE  popped' \in Seq(Nat) /\ Len(popped') = Len(popped) + 1 /\ PopsInOrder'
<1>1. popped \in Seq(Nat)
  BY DEF RingInv, RingType
<1>2. popped' \in Seq(Nat) /\ Len(popped') = Len(popped) + 1
  BY <1>1
<1>3. ASSUME NEW k \in DOMAIN popped'
      PROVE  popped'[k] = k \/ (ordered' = FALSE /\ popped'[k] = LapBefore(k))
  <2>1. CASE k \in DOMAIN popped
    <3>1. popped'[k] = popped[k]
      BY <1>1, <2>1
    <3>2. popped[k] = k \/ (ordered = FALSE /\ popped[k] = LapBefore(k))
      BY <2>1 DEF RingInv, RingType, PopsInOrder
    <3> QED
      BY <3>1, <3>2
  <2>2. CASE k = Len(popped) + 1
    <3>1. popped'[k] = m
      BY <1>1, <2>2
    <3> QED
      BY <2>2, <3>1, Zenon
  <2>3. k \in DOMAIN popped \/ k = Len(popped) + 1
    BY <1>1, <1>2
  <2> QED
    BY <2>1, <2>2, <2>3
<1> QED
  BY <1>2, <1>3 DEF PopsInOrder, LapBefore

(* A copy ahead of the load. *)
LEMMA CopyEarlyKeeps == RingInv /\ CopyEarly => RingInv'
<1> SUFFICES ASSUME RingInv, CopyEarly PROVE RingInv'
  OBVIOUS
<1>1. /\ ordered = FALSE /\ popping = {} /\ popping' = {"copied"}
      /\ popped' = Append(popped, ring[ring_tail])
      /\ UNCHANGED <<ordered, ring, ring_head, ring_tail, pushing, pushed_count>>
  BY DEF CopyEarly, Copy, RingInv, RingType
<1>2. ~TailAhead /\ ~CopyAhead /\ ~TailAhead' /\ CopyAhead'
  BY <1>1 DEF TailAhead, CopyAhead
<1>3. /\ ring[ring_tail] \in Nat
      /\ \/ ring[ring_tail] = Len(popped) + 1
         \/ ordered = FALSE /\ ring[ring_tail] = LapBefore(Len(popped) + 1)
  BY <1>1, <1>2, Copied
<1>4. popped' \in Seq(Nat) /\ Len(popped') = Len(popped) + 1 /\ PopsInOrder'
  BY <1>1, <1>3, OneMorePopped
<1>5. Taken' = Taken
  BY <1>2, <1>4 DEF Taken, RingInv, RingType
<1>6. RingType'
  BY <1>1, <1>4 DEF RingInv, RingType
<1>7. CallsUnderWay'
  <2>1. pushing' # {} => pushed_count' >= 1
    BY <1>1 DEF RingInv, CallsUnderWay
  <2>2. Len(popped') >= 1
    BY <1>4 DEF RingInv, RingType
  <2>3. "tail" \notin popping' /\ ordered' = FALSE
    BY <1>1
  <2> QED
    BY <2>1, <2>2, <2>3 DEF CallsUnderWay
<1> QED
  BY <1>1, <1>4, <1>5, <1>6, <1>7, RingStays

(* The first elements of a sequence. *)
LEMMA Prefix ==
  ASSUME NEW S, NEW s \in Seq(S), NEW m \in Nat, m <= Len(s)
  PROVE  /\ SubSeq(s, 1, m) \in Seq(S)
         /\ Len(SubSeq(s, 1, m)) = m
         /\ \A k \in 1 .. m : SubSeq(s, 1, m)[k] = s[k]
OBVIOUS

(* The early copy is given up. *)
LEMMA GiveUpKeeps == RingInv /\ GiveUp => RingInv'
<1> SUFFICES ASSUME RingInv, GiveUp PROVE RingInv'
  OBVIOUS
<1>1. /\ popping = {"copied"} /\ popping' = {}
      /\ popped' = SubSeq(popped, 1, Len(popped) - 1)
      /\ UNCHANGED <<ordered, ring, ring_head, ring_tail, pushing, pushed_count>>
  BY DEF GiveUp
<1>2. ~TailAhead /\ CopyAhead /\ ~TailAhead' /\ ~CopyAhead'
  BY <1>1 DEF TailAhead, CopyAhead
<1>3. popped \in Seq(Nat) /\ Len(popped) >= 1
  BY <1>2 DEF RingInv, RingType, CallsUnderWay
<1>4. /\ popped' \in Seq(Nat) /\ Len(popped') = Len(popped) - 1
      /\ \A k \in DOMAIN popped' : k \in DOMAIN popped /\ popped'[k] = popped[k]
  <2>1. /\ popped' \in Seq(Nat) /\ Len(popped') = Len(popped) - 1
        /\ \A k \in 1 .. (Len(popped) - 1) : popped'[k] = popped[k]
    <3> DEFINE n == Len(popped) - 1
    <3>1. n \in Nat /\ n <= Len(popped) /\ popped' = SubSeq(popped, 1, n)
      BY <1>1, <1>3
    <3> HIDE DEF n
    <3>2. /\ popped' \in Seq(Nat) /\ Len(popped') = n
          /\ \A k \in 1 .. n : popped'[k] = popped[k]
      BY <1>3, <3>1, Prefix
    <3> QED
      BY <3>2 DEF n
  <2> QED
    BY <1>3, <2>1
<1>5. Taken' = Taken
  BY <1>2, <1>4 DEF Taken
<1>6. RingType'
  BY <1>1, <1>4 DEF RingInv, RingType
<1>7. CallsUnderWay'
  <2>1. pushing' # {} => pushed_count' >= 1
    BY <1>1 DEF RingInv, CallsUnderWay
  <2>2. ~CopyAhead' /\ "tail" \notin popping'
    BY <1>1, <1>2
  <2>3. ordered' = TRUE => ("message" \in pushing' => "head" \in pushing')
    BY <1>1 DEF RingInv, CallsUnderWay
  <2> QED
    BY <1>1, <2>1, <2>2, <2>3 DEF CallsUnderWay
<1>8. PopsInOrder'
  BY <1>1, <1>4 DEF RingInv, PopsInOrder, LapBefore
<1> QED
  BY <1>1, <1>5, <1>6, <1>7, <1>8, RingStays

(* The message is copied, before or after the tail is stored.              *)
LEMMA CopyMessageKeeps == RingInv /\ CopyMessage => RingInv'
<1> SUFFICES ASSUME RingInv, CopyMessage PROVE RingInv'
  OBVIOUS
<1>1. PICK slot : /\ slot = IF "tail" \in popping THEN ring_tail
                           ELSE (ring_tail + RING_CAPACITY - 1) % RING_CAPACITY
                  /\ popped' = Append(popped, ring[slot])
  BY DEF CopyMessage, Copy
<1>2. /\ "message" \in popping /\ popping' = popping \ {"message"}
      /\ UNCHANGED <<ordered, ring, ring_head, ring_tail, pushing, pushed_count>>
  BY DEF CopyMessage
<1>3. /\ "copied" \notin popping
      /\ TailAhead <=> "tail" \notin popping
      /\ ~CopyAhead /\ ~TailAhead'
      /\ CopyAhead' <=> "tail" \in popping
  BY <1>2 DEF TailAhead, CopyAhead, RingInv, RingType
<1>4. /\ ring[slot] \in Nat
      /\ \/ ring[slot] = Len(popped) + 1
         \/ ordered = FALSE /\ ring[slot] = LapBefore(Len(popped) + 1)
  <2>1. CASE "tail" \in popping
    BY <1>1, <1>3, <2>1, Copied
  <2>2. CASE "tail" \notin popping
    BY <1>1, <1>3, <2>2, Copied
  <2> QED
    BY <2>1, <2>2
<1>5. popped' \in Seq(Nat) /\ Len(popped') = Len(popped) + 1 /\ PopsInOrder'
  BY <1>1, <1>2, <1>4, OneMorePopped
<1>6. Taken' = Taken
  BY <1>3, <1>5 DEF Taken, RingInv, RingType
<1>7. RingType'
  BY <1>2, <1>5 DEF RingInv, RingType
<1>8. CallsUnderWay'
  <2>1. pushing' # {} => pushed_count' >= 1
    BY <1>2 DEF RingInv, CallsUnderWay
  <2>2. Len(popped') >= 1
    BY <1>5 DEF RingInv, RingType
  <2>3. "tail" \in popping' => Taken' < Shown'
    BY <1>2, <1>6 DEF RingInv, CallsUnderWay, Shown
  <2>4. ordered' = TRUE =>
          /\ "message" \in pushing' => "head" \in pushing'
          /\ "message" \in popping' => "tail" \in popping'
          /\ "copied" \notin popping'
    BY <1>2 DEF RingInv, CallsUnderWay
  <2> QED
    BY <2>1, <2>2, <2>3, <2>4 DEF CallsUnderWay
<1> QED
  BY <1>2, <1>5, <1>6, <1>7, <1>8, RingStays

(* The tail is stored: its slot becomes the last before the tail, and what *)
(* it holds is then a message of the lap before.                           *)
LEMMA StoreTailKeeps == RingInv /\ StoreTail => RingInv'
<1> SUFFICES ASSUME RingInv, StoreTail PROVE RingInv'
  OBVIOUS
<1>1. /\ "tail" \in popping /\ popping' = popping \ {"tail"}
      /\ ring_tail' = NextIndex(ring_tail)
      /\ UNCHANGED <<ordered, ring, ring_head, pushing, pushed_count, popped>>
  BY DEF StoreTail
<1>2. /\ ~TailAhead /\ ~CopyAhead' /\ "copied" \notin popping
      /\ CopyAhead <=> "message" \notin popping
      /\ TailAhead' <=> "message" \in popping
  BY <1>1 DEF TailAhead, CopyAhead, RingInv, RingType
<1>3. Taken' = Taken + 1
  <2>1. Len(popped) \in Nat
    BY DEF RingInv, RingType
  <2> QED
    BY <1>1, <1>2, <2>1 DEF Taken
<1>4. ring_tail' = Wrap(ring_tail + 1) /\ ring_tail' \in Index
  BY <1>1, NextIndexWraps DEF RingInv, RingType
<1>5. Taken < Shown /\ Shown' = Shown
  BY <1>1 DEF RingInv, CallsUnderWay, Shown
<1>6. RingType'
  BY <1>1, <1>4 DEF RingInv, RingType
<1>7. CallsUnderWay'
  <2>1. pushing' # {} => pushed_count' >= 1
    BY <1>1 DEF RingInv, CallsUnderWay
  <2>2. ~CopyAhead' /\ "tail" \notin popping'
    BY <1>1, <1>2
  <2>3. ordered' = TRUE =>
          /\ "message" \in pushing' => "head" \in pushing'
          /\ "message" \in popping' => "tail" \in popping'
          /\ "copied" \notin popping'
    BY <1>1 DEF StoreTail, RingInv, CallsUnderWay
  <2> QED
    BY <2>1, <2>2, <2>3 DEF CallsUnderWay
<1>8. Spaced'
  BY <1>1, <1>3, <1>4, <1>5, Numbers DEF Spaced, Wrap
<1>9. Filled'
  <2>1. ASSUME NEW d \in Index
        PROVE  ring[Wrap(Wrap(ring_tail + 1) + d)] = Held(Taken + d + 2)
    <3>1. CASE d + 1 \in Index
      <4>1. ring[Wrap(ring_tail + (d + 1))] = Held(Taken + (d + 1) + 1)
        BY <3>1 DEF RingInv, Filled
      <4>2. Wrap(Wrap(ring_tail + 1) + d) = Wrap(ring_tail + (d + 1))
        BY <3>1, Numbers DEF Wrap, Index
      <4>3. Taken + (d + 1) + 1 = Taken + d + 2
        BY Numbers DEF Index
      <4> QED
        BY <4>1, <4>2, <4>3
    <3>2. CASE d = RING_CAPACITY - 1
      <4>1. 0 \in Index
        BY Numbers DEF Index
      <4>2. ring[Wrap(ring_tail + 0)] = Held(Taken + 0 + 1)
        BY <4>1 DEF RingInv, Filled
      <4>3. Wrap(Wrap(ring_tail + 1) + d) = Wrap(ring_tail + 0)
        BY <3>2, Numbers DEF Wrap
      <4>4. Held(Taken + 0 + 1) = Held(Taken + d + 2)
        <5>1. Latest(Taken + 0 + 1) = Taken + 1 /\ Latest(Taken + d + 2) = Taken + 1
          BY <1>5, <3>2, Numbers DEF Latest, LapBefore
        <5> QED
          BY <5>1 DEF Held
      <4> QED
        BY <4>2, <4>3, <4>4
    <3> QED
      BY <3>1, <3>2, Numbers DEF Index
  <2>2. ASSUME NEW m PROVE Held(m)' = Held(m)
    BY <1>1 DEF Held, Latest, LapBefore
  <2>3. ASSUME NEW d \in Index PROVE Taken' + d + 1 = Taken + d + 2
    BY <1>3, Numbers DEF Index
  <2> QED
    BY <1>1, <1>4, <2>1, <2>2, <2>3 DEF Filled, Wrap, Index
<1>10. PopsInOrder'
  BY <1>1 DEF RingInv, PopsInOrder
<1> QED
  BY <1>6, <1>7, <1>8, <1>9, <1>10 DEF RingInv

LEMMA RingStep == RingInv /\ RingNext => RingInv'
BY PushKeeps, StoreMessageKeeps, StoreHeadKeeps, PopKeeps, CopyEarlyKeeps,
   GiveUpKeeps, CopyMessageKeeps, StoreTailKeeps DEF RingNext
-----------------------------------------------------------------------------
(* Together.  A part that does not move keeps what holds of it. *)
SharingInv == RotationInv /\ AttributionInv /\ RingInv

LEMMA RingRests == RingInv /\ UNCHANGED ring_vars => RingInv'
<1> SUFFICES ASSUME RingInv, UNCHANGED ring_vars PROVE RingInv'
  OBVIOUS
<1>1. UNCHANGED <<ordered, ring, ring_head, ring_tail, pushing, popping, pushed_count, popped>>
  BY DEF ring_vars
<1>2. Taken' = Taken /\ Shown' = Shown /\ (CopyAhead' <=> CopyAhead)
  BY <1>1 DEF Taken, TailAhead, CopyAhead, Shown
<1>3. RingType'
  BY <1>1 DEF RingInv, RingType
<1>4. CallsUnderWay'
  <2>1. /\ pushing' # {} => pushed_count' >= 1
        /\ CopyAhead' => Len(popped') >= 1
        /\ "tail" \in popping' => Taken' < Shown'
    BY <1>1, <1>2 DEF RingInv, CallsUnderWay
  <2>2. ordered' = TRUE =>
          /\ "message" \in pushing' => "head" \in pushing'
          /\ "message" \in popping' => "tail" \in popping'
          /\ "copied" \notin popping'
    BY <1>1 DEF RingInv, CallsUnderWay
  <2> QED
    BY <2>1, <2>2 DEF CallsUnderWay
<1>5. PopsInOrder'
  BY <1>1 DEF RingInv, PopsInOrder, LapBefore
<1> QED
  BY <1>1, <1>2, <1>3, <1>4, <1>5, RingStays

(* Init /\ [][Next]_vars is all of Spec that safety needs. *)
LEMMA SharingInvariant == Spec => []SharingInv
<1>1. Init => SharingInv
  BY RotationStarts, AttributionStarts, RingStarts DEF Init, SharingInv
<1>2. SharingInv /\ [Next]_vars => SharingInv'
  <2> SUFFICES ASSUME SharingInv, [Next]_vars PROVE SharingInv'
    OBVIOUS
  <2>1. [RotationNext]_rotation /\ [AttributionNext]_attribution
    BY DEF Next, vars, RotationMoves, AttributionMoves, RingMoves
  <2>2. RingNext \/ UNCHANGED ring_vars
    BY DEF Next, vars, RotationMoves, AttributionMoves, RingMoves
  <2> QED
    BY <2>1, <2>2, RotationStep, AttributionStep, RingStep, RingRests DEF SharingInv
<1> QED
  BY <1>1, <1>2, PTL DEF Spec

(* mtk.c: however many readers and rotations, whoever reads halves of two  *)
(* keys is one that the scan before the rotation did not wait for.         *)
THEOREM TornOnlyLate == Spec => []TornOnlyIfLate
<1>1. SharingInv => TornOnlyIfLate
  BY RotationInvIsEnough DEF SharingInv
<1> QED
  BY <1>1, SharingInvariant, PTL

(* attrib.c: however many threads and actors, until two of them have raced *)
(* the table has one record for each actor, with all its points; its tier  *)
(* is that of its score unless it is due, or was stored for a score that   *)
(* had been raised meanwhile, and is never one the score has not reached.  *)
THEOREM UnracedExact == Spec => []UnracedIsExact
<1>1. SharingInv => UnracedIsExact
  BY AttributionInvIsEnough DEF SharingInv
<1> QED
  BY <1>1, SharingInvariant, PTL

(* mesh_sync.c: for a ring of any size, a pop returns the next message, or *)
(* without ordered stores the one its slot held a lap before.              *)
THEOREM PoppedInOrder == Spec => []PopsInOrder
<1>1. SharingInv => PopsInOrder
  BY DEF SharingInv, RingInv
<1> QED
  BY <1>1, SharingInvariant, PTL
=============================================================================
