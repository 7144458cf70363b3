------------------------------- MODULE RollingCage -------------------------------
(***************************************************************************)
(* rolling_cage.c: the sessions of attackers, found by an id that every    *)
(* roll changes.  An id is 8 bytes of the hash of address, time and round, *)
(* here the triple itself: that two triples never share these 8 bytes is   *)
(* assumed.  Slots are never freed.  The session key, the counters and the *)
(* tripwire are left out: nothing reads them.  Rounds stands for the 256   *)
(* values of a round.  No program of the repository makes these calls:     *)
(* they come in any order.  Each reads CLOCK_REALTIME, which may have been *)
(* set in between.                                                         *)
(* read, ahead and retired are history variables.                          *)
(***************************************************************************)
EXTENDS Naturals, Sequences, FiniteSetsExt

CONSTANTS Attacker, CAGE_MAX, Rounds,
          Readings      \* of the clock

ASSUME CageAssumption == /\ CAGE_MAX \in Nat /\ Rounds \in Nat \ {0}
                         /\ Readings \subseteq Nat

VARIABLES cages,        \* those opened, in the order of the array
          read,         \* the reading the last id was made of
          ahead,        \* each id was made at a later time than the one before
          retired       \* ids that were rolled away, while ahead

cage_history == <<read, ahead, retired>>
cage_vars == <<cages, cage_history>>

CageInit == cages = <<>> /\ read = 0 /\ ahead = TRUE /\ retired = {}

(* Defect: hashed before the time is copied into the buffer. *)
IdWithoutTime(addr, now, round) == <<addr, 0, round>>

CageId(addr, now, round) == <<addr, now, round>>

cage_lookup(id) ==
  LET hits == {i \in DOMAIN cages : cages[i].cage_id = id}
  IN  IF hits = {} THEN 0 ELSE Min(hits)

(* An id was made, and takes the place of those in old. *)
IdMade(now, old) == /\ ahead' = (ahead /\ (cages # <<>> => now > read))
                    /\ read' = IF ahead' THEN now ELSE 0
                    /\ retired' = IF ahead' THEN retired \cup old ELSE {}

cage_open(addr, now) ==
  /\ Len(cages) < CAGE_MAX
  /\ cages' = Append(cages, [attacker |-> addr, round |-> 0, state |-> "ACTIVE",
                             cage_id |-> CageId(addr, now, 0)])
  /\ IdMade(now, {})

Roll(i, state, now) ==
  LET addr  == cages[i].attacker
      round == (cages[i].round + 1) % Rounds
  IN  /\ cages' = [cages EXCEPT ![i] = [attacker |-> addr, round |-> round, state |-> state,
                                        cage_id |-> CageId(addr, now, round)]]
      /\ IdMade(now, {cages[i].cage_id})

cage_roll(i, now) == Roll(i, cages[i].state, now)

(* A closed cage, too, becomes active again. *)
cage_recapture(i, now) == Roll(i, "ACTIVE", now)

cage_close(i) == cages' = [cages EXCEPT ![i].state = "EMPTY"] /\ UNCHANGED cage_history

CageNext == \/ \E now \in Readings :
                 \/ \E addr \in Attacker : cage_open(addr, now)
                 \/ \E i \in DOMAIN cages : cage_roll(i, now) \/ cage_recapture(i, now)
            \/ \E i \in DOMAIN cages : cage_close(i)
-----------------------------------------------------------------------------
(* While every id is made at a later time than the one before, each        *)
(* session is found by its own id, also among several of one attacker, and *)
(* an id that was rolled away finds nothing, however often the round, one  *)
(* byte, has come round since.  Once the clock stands still or is set back *)
(* neither is promised.                                                    *)
OneSessionPerId ==
  ahead => /\ \A i \in DOMAIN cages : cage_lookup(cages[i].cage_id) = i
           /\ \A id \in retired : cage_lookup(id) = 0
=============================================================================
