------------------------------ MODULE Attribution ------------------------------
(***************************************************************************)
(* attrib.c: threads that record events of actors in one table, without a  *)
(* lock.  attrib_record_event is taken apart where another thread can come *)
(* between: the load of count, the scan, the write of a new record, its    *)
(* publication, the load and the store of the score, the comparisons of    *)
(* the score, the store of the tier.  The event log is left out: nothing   *)
(* reads it.  booked, raced and overtaken are history variables: what goes *)
(* wrong once two threads have raced for a record or a score is not        *)
(* followed (a scan may then run past the end of the table).  MaxScore     *)
(* bounds the score of an actor.                                           *)
(***************************************************************************)
EXTENDS Integers

CONSTANTS Thread, Fingerprint, NoFingerprint, ATTRIB_MAX_ACTORS, Points, MaxScore

ASSUME AttributionAssumption == /\ NoFingerprint \notin Fingerprint
                                /\ ATTRIB_MAX_ACTORS \in Nat
                                /\ Points \subseteq Nat /\ MaxScore \in Nat

VARIABLES actors,           \* index -> fingerprint, score, tier
          count,
          step,             \* thread -> where it is in the call
          event,            \* thread -> the call's fingerprint and points
          local,            \* thread -> its n, then its idx; its score; the tier to store
          booked,           \* fingerprint -> all points recorded
          raced,            \* a thread created or added on something that had changed
          overtaken         \* records whose last tier is of a score that had changed

attribution == <<actors, count, step, event, local, booked, raced, overtaken>>

Unused == [fp |-> NoFingerprint, score |-> 0, tier |-> "UNKNOWN"]

NoEvent == [fp |-> NoFingerprint, points |-> 0]
NoLocal == [n |-> 0, score |-> 0, tier |-> "UNKNOWN"]

AttributionInit ==
  /\ actors = [i \in 0 .. (ATTRIB_MAX_ACTORS - 1) |-> Unused] /\ count = 0
  /\ step = [t \in Thread |-> "idle"]
  /\ event = [t \in Thread |-> NoEvent] /\ local = [t \in Thread |-> NoLocal]
  /\ booked = [fp \in Fingerprint |-> 0] /\ raced = FALSE /\ overtaken = {}

Goes(t, here, next) == ~raced /\ step[t] = here /\ step' = [step EXCEPT ![t] = next]

Ends(t) == event' = [event EXCEPT ![t] = NoEvent] /\ local' = [local EXCEPT ![t] = NoLocal]

Load(t) == /\ Goes(t, "idle", "scan")
           /\ \E fp \in Fingerprint, points \in Points :
                /\ booked[fp] + points <= MaxScore
                /\ event' = [event EXCEPT ![t] = [fp |-> fp, points |-> points]]
           /\ local' = [local EXCEPT ![t].n = count]
           /\ UNCHANGED <<actors, count, booked, raced, overtaken>>

(* Defect: the last record is not looked at. *)
HitsButLast(t) == {i \in 0 .. (local[t].n - 2) : actors[i].fp = event[t].fp}

(* The records below n that carry the fingerprint. *)
Hits(t) == {i \in 0 .. (local[t].n - 1) : actors[i].fp = event[t].fp}

Find(t) == /\ Hits(t) # {}
           /\ Goes(t, "scan", "score")
           /\ local' = [local EXCEPT ![t].n = CHOOSE i \in Hits(t) : \A j \in Hits(t) : i <= j]
           /\ UNCHANGED <<actors, count, event, booked, raced, overtaken>>

(* The call returns -1. *)
Full(t) == /\ Hits(t) = {} /\ local[t].n >= ATTRIB_MAX_ACTORS
           /\ Goes(t, "scan", "idle")
           /\ Ends(t)
           /\ UNCHANGED <<actors, count, booked, raced, overtaken>>

(* A create is a race if count moved since or another thread is at it. *)
Racing(t) == count # local[t].n \/ \E u \in Thread \ {t} : step[u] = "publish"

Create(t) == /\ Hits(t) = {} /\ local[t].n < ATTRIB_MAX_ACTORS
             /\ Goes(t, "scan", "publish")
             /\ actors' = [actors EXCEPT ![local[t].n].fp = event[t].fp,
                                         ![local[t].n].tier = "UNKNOWN"]
             /\ raced' = Racing(t)
             /\ UNCHANGED <<count, event, local, booked, overtaken>>

Publish(t) == /\ Goes(t, "publish", "score")
              /\ count' = count + 1
              /\ UNCHANGED <<actors, event, local, booked, raced, overtaken>>

LoadScore(t) == /\ Goes(t, "score", "add")
                /\ local' = [local EXCEPT ![t].score = actors[local[t].n].score]
                /\ UNCHANGED <<actors, count, event, booked, raced, overtaken>>

Tier(score) == IF score >= 60 THEN "PERSISTENT" ELSE IF score >= 35 THEN "ACTIVE"
               ELSE IF score >= 15 THEN "PROBING" ELSE "UNKNOWN"

(* The store of the score is a race if another thread has stored since. *)
StoreScore(t) ==
  LET i     == local[t].n
      score == local[t].score + event[t].points
  IN  /\ Goes(t, "add", "compare")
      /\ actors' = [actors EXCEPT ![i].score = score]
      /\ local' = [local EXCEPT ![t].score = score]
      /\ booked' = [booked EXCEPT ![event[t].fp] = @ + event[t].points]
      /\ raced' = (actors[i].score # local[t].score)
      /\ UNCHANGED <<count, event, overtaken>>

(* Each comparison takes the score the thread has stored or reads the      *)
(* record again, as the build does it; the score may have grown meanwhile. *)
Compare(t) == /\ Goes(t, "compare", "tier")
              /\ \E seen \in local[t].score .. actors[local[t].n].score :
                   local' = [local EXCEPT ![t].tier = Tier(seen)]
              /\ UNCHANGED <<actors, count, event, booked, raced, overtaken>>

(* A score that reaches no tier: nothing is stored. *)
StoreNoTier(t) == /\ local[t].tier = "UNKNOWN"
                  /\ Goes(t, "tier", "idle")
                  /\ Ends(t)
                  /\ UNCHANGED <<actors, count, booked, raced, overtaken>>

StoreTier(t) ==
  LET i == local[t].n
  IN  /\ local[t].tier # "UNKNOWN"
      /\ Goes(t, "tier", "idle")
      /\ actors' = [actors EXCEPT ![i].tier = local[t].tier]
      /\ overtaken' = IF actors[i].score = local[t].score THEN overtaken \ {i}
                                                          ELSE overtaken \cup {i}
      /\ Ends(t)
      /\ UNCHANGED <<count, booked, raced>>

AttributionNext == \E t \in Thread : \/ Load(t) \/ Find(t) \/ Full(t) \/ Create(t) \/ Publish(t)
                                     \/ LoadScore(t) \/ StoreScore(t) \/ Compare(t)
                                     \/ StoreNoTier(t) \/ StoreTier(t)
-----------------------------------------------------------------------------
(* A thread has stored a new score of record i and not yet its tier. *)
TierDue(i) == \E t \in Thread : step[t] \in {"compare", "tier"} /\ local[t].n = i

(* As long as no thread created on a count, or stored a score, that had    *)
(* changed under it, threads in any interleaving keep the table exact: one *)
(* record for each actor, with the points of all events recorded for it.   *)
(* A tier can fall behind, when a thread stores the tier of a score that   *)
(* another has raised meanwhile, until the next event; otherwise it is     *)
(* that of the score, and it is never one the score has not reached.       *)
UnracedIsExact ==
  ~raced =>
    /\ count <= ATTRIB_MAX_ACTORS
    /\ \A i, j \in 0 .. (count - 1) : actors[i].fp = actors[j].fp => i = j
    /\ \A i \in 0 .. (count - 1) :
         /\ actors[i].score = booked[actors[i].fp]
         /\ \E s \in 0 .. actors[i].score : actors[i].tier = Tier(s)
         /\ i \notin overtaken /\ ~TierDue(i) => actors[i].tier = Tier(actors[i].score)
=============================================================================
