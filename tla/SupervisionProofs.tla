--------------------------- MODULE SupervisionProofs ---------------------------
(***************************************************************************)
(* What the state engine and the dark controller promise, for any bound on *)
(* the misses and whatever the other parts of Supervision are instantiated *)
(* with.  EngineInv is what makes the properties inductive.                *)
(***************************************************************************)
EXTENDS Supervision, FiniteSetTheorems, TLAPS

(* A lockout is always the hard one; a failsafe comes of six misses; an    *)
(* active controller has its heartbeats or its proxy was restored; and the *)
(* dark controller is hard only for a locked-out engine.                   *)
EngineInv == /\ heartbeat_misses \in Nat
             /\ lockout_hard \in BOOLEAN
             /\ restored \in BOOLEAN
             /\ current = "LOCKOUT" => lockout_hard = TRUE
             /\ current = "ACTIVE" => heartbeat_misses < 3 \/ restored = TRUE
             /\ mode = "HARD" => current = "LOCKOUT"

(* Nobody has missed or restored anything at first. *)
LEMMA EngineInitially == Init => EngineInv
<1> SUFFICES ASSUME Init PROVE EngineInv
  OBVIOUS
<1>1. /\ heartbeat_misses \in Nat /\ lockout_hard \in BOOLEAN /\ restored \in BOOLEAN
      /\ current = "INIT" /\ mode = "OFF"
  BY DEF Init, DarkInit, EngineInit
<1> QED BY <1>1 DEF EngineInv

(* An event of the engine, or its tick, keeps EngineInv.  A hard           *)
(* suppression excludes every event, because the lockout is hard, and the  *)
(* tick, because the engine is not in failsafe.                            *)
LEMMA EngineSteps == EngineInv /\ EngineNext /\ UNCHANGED mode => EngineInv'
<1> SUFFICES ASSUME EngineInv, EngineNext, mode' = mode PROVE EngineInv'
  OBVIOUS
<1> USE DEF EngineInv, transition, Stay
<1>1. CASE HeartbeatOK
  <2> USE <1>1 DEF HeartbeatOK
  <2>1. heartbeat_misses' \in Nat /\ lockout_hard' \in BOOLEAN /\ restored' \in BOOLEAN
    OBVIOUS
  <2>2. heartbeat_misses' < 3
    OBVIOUS
  <2>3. /\ current' = "LOCKOUT" => lockout_hard' = TRUE
        /\ mode' = "HARD" => current' = "LOCKOUT"
    OBVIOUS
  <2> QED BY <2>1, <2>2, <2>3
<1>2. CASE HeartbeatMiss BY <1>2 DEF HeartbeatMiss, Tolerated
<1>3. CASE ThreatHigh BY <1>3 DEF ThreatHigh
<1>4. CASE ThreatCritical BY <1>4 DEF ThreatCritical
<1>5. CASE ProxyRestored BY <1>5 DEF ProxyRestored
<1>6. CASE ManualReset BY <1>6 DEF ManualReset
<1>7. CASE Tick BY <1>7 DEF Tick
<1> QED BY <1>1, <1>2, <1>3, <1>4, <1>5, <1>6, <1>7 DEF EngineNext

(* The tick of the dark controller leaves the engine alone, and makes the  *)
(* mode hard only where it finds a lockout.                                *)
LEMMA DarkTicks == EngineInv /\ dark_tick => EngineInv'
BY DEF EngineInv, dark_tick, TickLockout, TickTrouble, TickActive, dark_activate,
       dark_deactivate, engine

(* Steps of the other parts do not touch it. *)
LEMMA EngineInductive == EngineInv /\ [Next]_vars => EngineInv'
<1> SUFFICES ASSUME EngineInv, [Next]_vars PROVE EngineInv'
  OBVIOUS
<1>1. CASE EngineMoves
  BY <1>1, EngineSteps, DarkTicks DEF EngineMoves, DarkNext
<1>2. CASE UNCHANGED dark
  BY <1>2 DEF EngineInv, dark, engine
<1> QED
  BY <1>1, <1>2 DEF Next, HeartbeatMoves, PendingMoves, vars

(* EngineInv holds in every state Supervision can reach. *)
THEOREM EngineAlways == Spec => []EngineInv
BY EngineInitially, EngineInductive, PTL DEF Spec

(* Commands pass only while fewer than three heartbeats in a row are       *)
(* missing, unless the proxy was restored since the last.                  *)
THEOREM Heartbeats == Spec => []CommandsNeedHeartbeats
<1>1. EngineInv => CommandsNeedHeartbeats
  BY DEF EngineInv, CommandsNeedHeartbeats, state_allows_command
<1> QED BY <1>1, EngineAlways, PTL

(* Hard suppression comes only with a lockout, and no event and no tick    *)
(* ever ends either: the only tick that lifts a suppression finds an       *)
(* active engine and a soft one.                                           *)
THEOREM HardSuppression == Spec => HardIsForGood
<1>1. EngineInv /\ [Next]_vars =>
        [mode = "HARD" \/ mode' = "HARD" => mode' = "HARD" /\ current' = "LOCKOUT"]_dark
  <2> SUFFICES ASSUME EngineInv, [Next]_vars, mode = "HARD" \/ mode' = "HARD"
               PROVE  mode' = "HARD" /\ current' = "LOCKOUT"
    OBVIOUS
  <2>1. mode = "HARD" => mode' = "HARD"
    <3>1. dark_tick /\ mode = "HARD" => mode' = "HARD"
      BY DEF EngineInv, dark_tick, TickLockout, TickTrouble, TickActive, dark_activate
    <3> QED
      BY <3>1 DEF Next, EngineMoves, HeartbeatMoves, PendingMoves, DarkNext, vars, dark
  <2>2. EngineInv'
    BY EngineInductive
  <2> QED
    BY <2>1, <2>2 DEF EngineInv
<1> QED BY <1>1, EngineAlways, PTL DEF Spec, HardIsForGood

(* No event and no tick ever leads out of a lockout. *)
THEOREM LockedOut == Spec => LockoutIsFinal
<1>1. EngineInv /\ [Next]_vars => [current = "LOCKOUT" => UNCHANGED engine]_engine
  <2> SUFFICES ASSUME EngineInv, [Next]_vars, current = "LOCKOUT" PROVE UNCHANGED engine
    OBVIOUS
  <2>1. ~EngineNext
    BY DEF EngineInv, EngineNext, HeartbeatOK, HeartbeatMiss, ThreatHigh, ThreatCritical,
           ProxyRestored, ManualReset, Tick
  <2>2. dark_tick => UNCHANGED engine
    BY DEF dark_tick, TickLockout, TickTrouble, TickActive
  <2> QED
    BY <2>1, <2>2 DEF Next, EngineMoves, HeartbeatMoves, PendingMoves, DarkNext, vars, dark
<1> QED BY <1>1, EngineAlways, PTL DEF Spec, LockoutIsFinal

-----------------------------------------------------------------------------
(* The command that waits is the only one that can still be answered in    *)
(* time; whoever was told "safe" finds none waiting; and the clock only    *)
(* moves under PendingState when it moves forwards.                        *)
Waiting == [seq |-> ps_sequence, expiry |-> ps_expiry]

PendingInv == /\ clock \in Times
              /\ ps_expiry \in Int
              /\ \A u \in unanswered : u.expiry \in Int
              /\ \A u \in unanswered : clock <= u.expiry => ps_status = "PENDING" /\ u = Waiting
              /\ safe \in BOOLEAN
              /\ safe = TRUE => ps_status # "PENDING"
              /\ part # "pending" => unanswered = {}

(* Nothing waits at first. *)
LEMMA PendingInitially == Init => PendingInv
<1> SUFFICES ASSUME Init PROVE PendingInv
  OBVIOUS
<1>1. /\ clock \in Times /\ ps_expiry = 0 /\ unanswered = {}
      /\ safe = FALSE
  BY DEF Init, ClockInit, PendingInit
<1>2. ps_expiry \in Int
  BY <1>1
<1>3. safe \in BOOLEAN /\ (safe = TRUE => ps_status # "PENDING")
  BY <1>1
<1> QED BY <1>1, <1>2, <1>3 DEF PendingInv

(* Every call keeps it, and so does time: what has expired stays so. *)
LEMMA PendingInductive == PendingInv /\ [Next]_vars => PendingInv'
<1> SUFFICES ASSUME PendingInv, [Next]_vars PROVE PendingInv'
  OBVIOUS
<1>0. \A t \in Times : t \in Int
  BY ClockAssumption
<1>1. ASSUME NEW seq \in Issue, NEW expiry \in Times, ps_set_pending(seq, expiry),
             part = "pending", UNCHANGED <<part, clock>>
      PROVE PendingInv'
  <2>1. CASE MayIssue
    <3>0. DEFINE new == [seq |-> seq, expiry |-> expiry]
    <3>1. /\ ps_status' = "PENDING" /\ ps_sequence' = seq /\ ps_expiry' = expiry
          /\ unanswered' = unanswered \cup {new} /\ safe' = FALSE
      BY <1>1, <2>1 DEF ps_set_pending
    <3>2. \A u \in unanswered : ~(clock <= u.expiry)
      <4> SUFFICES ASSUME NEW u \in unanswered, clock <= u.expiry PROVE FALSE
        OBVIOUS
      <4>1. ps_status = "PENDING" /\ u.expiry = ps_expiry /\ ps_expiry \in Int /\ clock \in Int
        BY <1>0 DEF PendingInv, Waiting
      <4> QED BY <2>1, <4>1 DEF MayIssue, StatusNow
    <3>3. /\ clock' \in Times /\ ps_expiry' \in Int
          /\ \A u \in unanswered' : u.expiry \in Int
      BY <1>0, <1>1, <3>1 DEF PendingInv
    <3>4. \A u \in unanswered' : clock' <= u.expiry => ps_status' = "PENDING" /\ u = Waiting'
      BY <1>1, <3>1, <3>2 DEF Waiting
    <3>5. safe' \in BOOLEAN /\ (safe' = TRUE => ps_status' # "PENDING")
      BY <3>1
    <3>6. part' # "pending" => unanswered' = {}
      BY <1>1, <3>1 DEF PendingInv
    <3> QED BY <3>3, <3>4, <3>5, <3>6 DEF PendingInv
  <2>2. CASE ~MayIssue
    BY <1>0, <1>1, <2>2 DEF PendingInv, Waiting, ps_set_pending, ps_expire_check, MayIssue, StatusNow
  <2> QED BY <2>1, <2>2
<1>2. ASSUME NEW seq \in Issue, ps_confirm(seq), UNCHANGED <<part, clock>> PROVE PendingInv'
  <2>1. /\ clock' \in Times /\ ps_expiry' \in Int
        /\ \A u \in unanswered' : u.expiry \in Int
        /\ part' # "pending" => unanswered' = {}
    BY <1>2 DEF ps_confirm, PendingInv
  <2>2. \A u \in unanswered' : ~(clock' <= u.expiry)
    BY <1>2 DEF ps_confirm, PendingInv, Waiting
  <2>3. safe' \in BOOLEAN /\ (safe' = TRUE => ps_status' # "PENDING")
    BY <1>2 DEF ps_confirm, PendingInv
  <2> QED BY <2>1, <2>2, <2>3 DEF PendingInv
<1>3. ASSUME ps_check_safe, UNCHANGED <<part, clock>> PROVE PendingInv'
  BY <1>0, <1>3 DEF PendingInv, Waiting, ps_check_safe, StatusNow
<1>4. ASSUME ps_expire_check, UNCHANGED <<part, clock>> PROVE PendingInv'
  BY <1>0, <1>4 DEF PendingInv, Waiting, ps_expire_check, StatusNow
<1>5. ASSUME Advance, UNCHANGED <<part, pending>> PROVE PendingInv'
  BY <1>0, <1>5 DEF PendingInv, Waiting, Advance, pending
<1>6. CASE PendingMoves
  BY <1>1, <1>2, <1>3, <1>4, <1>5, <1>6 DEF PendingMoves, PendingNext
<1>7. ASSUME UNCHANGED <<part, pending>>, clock' \in Times, part # "pending" PROVE PendingInv'
  BY <1>7 DEF PendingInv, Waiting, pending
<1>8. CASE HeartbeatMoves
  <2>1. clock' \in Times
    BY <1>8 DEF HeartbeatMoves, HeartbeatNext, TimePasses, SetClock, PendingInv
  <2> QED BY <1>7, <1>8, <2>1 DEF HeartbeatMoves
<1>9. CASE UNCHANGED <<part, pending, clock>>
  BY <1>9 DEF PendingInv, Waiting, pending
<1> QED
  BY <1>6, <1>8, <1>9 DEF Next, EngineMoves, vars

(* However calls and time interleave, at most one command waits, and after *)
(* "safe" none is waiting or can be confirmed late.                        *)
THEOREM OneAtATime == Spec => []NothingWhilePending
<1>1. ASSUME PendingInv PROVE NothingWhilePending
  <2> DEFINE open == {i \in unanswered : clock <= i.expiry}
  <2>1. open \subseteq {Waiting} /\ (open # {} => ps_status = "PENDING")
    BY <1>1 DEF PendingInv
  <2>2. Cardinality(open) <= 1
    <3>1. open = {} \/ open = {Waiting}
      BY <2>1
    <3>2. CASE open = {}
      <4>1. Cardinality(open) = 0
        BY <3>2, FS_EmptySet
      <4> HIDE DEF open
      <4> QED BY <4>1
    <3>3. CASE open = {Waiting}
      <4>1. Cardinality(open) = 1
        BY <3>3, FS_Singleton
      <4> HIDE DEF open
      <4> QED BY <4>1
    <3> QED BY <3>1, <3>2, <3>3
  <2>3. safe => open = {} /\ ps_status # "PENDING"
    BY <1>1, <2>1 DEF PendingInv
  <2> QED BY <2>2, <2>3 DEF NothingWhilePending
<1> QED BY <1>1, PendingInitially, PendingInductive, PTL DEF Spec

-----------------------------------------------------------------------------
(* While an interval counts as missed the clock is not behind the last     *)
(* accepted heartbeat, and the gap between them is longer than HB_MISS_    *)
(* LIMIT of it.                                                            *)
HeartbeatInv == /\ clock \in Times
                /\ last_seen_ns = 0 \/ last_seen_ns \in Times
                /\ missed \subseteq Interval
                /\ missed # {} => last_seen_ns # 0 /\ last_seen_ns <= clock
                /\ \A i \in missed : clock - last_seen_ns > HB_MISS_LIMIT * i
                /\ part # "heartbeat" => missed = {}

(* Nothing is missed at first. *)
LEMMA HeartbeatInitially == Init => HeartbeatInv
<1> SUFFICES ASSUME Init PROVE HeartbeatInv
  OBVIOUS
<1>1. clock \in Times /\ last_seen_ns = 0 /\ missed = {}
  BY DEF Init, ClockInit, HeartbeatInit
<1> QED BY <1>1 DEF HeartbeatInv

(* For a time that is not yet to come the unsigned difference is the       *)
(* difference.                                                             *)
LEMMA SinceThePast ==
  ASSUME clock \in Times, NEW t \in Int, 0 <= t, t <= clock
  PROVE  Since(t) = clock - t
<1>1. /\ clock \in Int /\ Wrap \in Int
      /\ clock < Wrap
  BY ClockAssumption
<1>2. /\ clock - t \in Int
      /\ 0 <= clock - t /\ clock - t < Wrap
  BY <1>1
<1>3. \A d, w \in Int : 0 <= d /\ d < w => d % w = d
  OBVIOUS
<1> QED BY <1>1, <1>2, <1>3 DEF Since

(* A miss adds the interval it was measured with; an accepted heartbeat,   *)
(* or a clock set back, clears them all; time that goes on only widens     *)
(* the gap.                                                                *)
LEMMA HeartbeatInductive == HeartbeatInv /\ [Next]_vars => HeartbeatInv'
<1> SUFFICES ASSUME HeartbeatInv, [Next]_vars PROVE HeartbeatInv'
  OBVIOUS
<1>0. /\ \A t \in Times : t \in Int /\ 0 <= t
      /\ HB_MISS_LIMIT \in Nat /\ \A i \in Interval : i \in Nat /\ HB_MISS_LIMIT * i \in Int
  BY ClockAssumption, HeartbeatAssumption
<1>1. ASSUME NEW seq \in Sequence, NEW timestamp \in Times, NEW interval \in Interval,
             heartbeat_verify(seq, timestamp, interval), UNCHANGED <<part, clock>>,
             part = "heartbeat"
      PROVE HeartbeatInv'
  <2>1. CASE answer' = "OK"
    <3>1. last_seen_ns' = clock /\ missed' = {}
      BY <1>1, <2>1 DEF heartbeat_verify
    <3> QED BY <1>1, <3>1 DEF HeartbeatInv
  <2>2. CASE answer' = "MISSED" /\ clock >= last_seen_ns
    <3>1. last_seen_ns' = last_seen_ns /\ missed' = missed \cup {interval}
      BY <1>1, <2>2 DEF heartbeat_verify
    <3>2. last_seen_ns # 0 /\ Since(last_seen_ns) > HB_MISS_LIMIT * interval
      BY <1>1, <2>2 DEF heartbeat_verify, HeartbeatResult, Gap
    <3>3. Since(last_seen_ns) = clock - last_seen_ns
      <4>1. clock \in Times /\ last_seen_ns \in Int /\ 0 <= last_seen_ns /\ last_seen_ns <= clock
        BY <1>0, <2>2, <3>2 DEF HeartbeatInv
      <4> QED BY <4>1, SinceThePast
    <3>4. \A i \in missed' : clock - last_seen_ns > HB_MISS_LIMIT * i
      BY <3>1, <3>2, <3>3 DEF HeartbeatInv
    <3>5. last_seen_ns <= clock
      BY <1>0, <2>2, <3>2 DEF HeartbeatInv
    <3> QED BY <1>1, <3>1, <3>2, <3>4, <3>5 DEF HeartbeatInv
  <2>3. CASE answer' # "OK" /\ ~(answer' = "MISSED" /\ clock >= last_seen_ns)
    <3>1. UNCHANGED <<last_seen_ns, missed>>
      BY <1>1, <2>3 DEF heartbeat_verify
    <3> QED BY <1>1, <3>1 DEF HeartbeatInv
  <2> QED BY <2>1, <2>2, <2>3
<1>2. ASSUME TimePasses, UNCHANGED part, part = "heartbeat" PROVE HeartbeatInv'
  <2>1. clock' \in Times /\ last_seen_ns' = last_seen_ns
    BY <1>2 DEF TimePasses, SetClock
  <2>2. CASE clock' < clock
    <3>1. missed' = {}
      BY <1>2, <2>2 DEF TimePasses
    <3> QED BY <1>2, <2>1, <3>1 DEF HeartbeatInv
  <2>3. CASE ~(clock' < clock)
    <3>1. missed' = missed
      BY <1>2, <2>3 DEF TimePasses
    <3>2. clock \in Int /\ clock' \in Int /\ clock <= clock' /\ last_seen_ns \in Int
      BY <1>0, <2>1, <2>3 DEF HeartbeatInv
    <3>3. \A i \in missed : clock' - last_seen_ns > HB_MISS_LIMIT * i
      <4> SUFFICES ASSUME NEW i \in missed PROVE clock' - last_seen_ns > HB_MISS_LIMIT * i
        OBVIOUS
      <4>1. clock - last_seen_ns > HB_MISS_LIMIT * i /\ HB_MISS_LIMIT * i \in Int
        BY <1>0 DEF HeartbeatInv
      <4> QED BY <3>2, <4>1
    <3>4. missed # {} => last_seen_ns # 0 /\ last_seen_ns <= clock'
      BY <3>2 DEF HeartbeatInv
    <3> QED BY <1>2, <2>1, <3>1, <3>3, <3>4 DEF HeartbeatInv
  <2> QED BY <2>2, <2>3
<1>3. CASE HeartbeatMoves
  BY <1>1, <1>2, <1>3 DEF HeartbeatMoves, HeartbeatNext, Verify
<1>4. ASSUME UNCHANGED <<part, heartbeat>>, clock' \in Times, part # "heartbeat"
      PROVE HeartbeatInv'
  BY <1>4 DEF HeartbeatInv, heartbeat
<1>5. CASE PendingMoves
  <2>1. clock' \in Times
    BY <1>5 DEF PendingMoves, PendingNext, Advance, HeartbeatInv
  <2> QED BY <1>4, <1>5, <2>1 DEF PendingMoves
<1>6. CASE UNCHANGED <<part, heartbeat, clock>>
  BY <1>6 DEF HeartbeatInv, heartbeat
<1> QED
  BY <1>3, <1>5, <1>6 DEF Next, EngineMoves, vars

(* An accepted heartbeat announces a longer interval than every one that   *)
(* was answered MISSED since the last: a peer that keeps its interval is   *)
(* never accepted again after its first miss.                              *)
LEMMA LongerOrMissed ==
  ASSUME HeartbeatInv, NEW seq \in Sequence, NEW timestamp \in Times, NEW interval \in Interval,
         HeartbeatResult(seq, timestamp, interval) = "OK", NEW i \in missed
  PROVE  interval > i
<1> SUFFICES ASSUME interval <= i PROVE FALSE
  BY HeartbeatAssumption DEF HeartbeatInv
<1>1. /\ last_seen_ns \in Times /\ last_seen_ns # 0 /\ last_seen_ns <= clock
      /\ clock - last_seen_ns > HB_MISS_LIMIT * i
  BY DEF HeartbeatInv
<1>2. Since(last_seen_ns) = clock - last_seen_ns
  <2>1. clock \in Times /\ last_seen_ns \in Int /\ 0 <= last_seen_ns
    BY <1>1, ClockAssumption DEF HeartbeatInv
  <2> QED BY <1>1, <2>1, SinceThePast
<1>3. HB_MISS_LIMIT * interval <= HB_MISS_LIMIT * i
  <2>1. HB_MISS_LIMIT \in Nat /\ interval \in Nat /\ i \in Nat
    BY HeartbeatAssumption DEF HeartbeatInv
  <2> QED BY <2>1
<1>4. Since(last_seen_ns) > HB_MISS_LIMIT * interval
  <2>1. /\ clock - last_seen_ns \in Int
        /\ HB_MISS_LIMIT * i \in Int /\ HB_MISS_LIMIT * interval \in Int
    BY <1>1, ClockAssumption, HeartbeatAssumption DEF HeartbeatInv
  <2> QED BY <1>1, <1>2, <1>3, <2>1
<1> QED BY <1>1, <1>4 DEF HeartbeatResult, Gap

(* Whatever numbers, stamps and intervals packets carry, and however the   *)
(* clock is set forwards: missed once is missed for ever.                  *)
THEOREM MissedForEver == Spec => OnceMissedAlwaysMissed
<1>1. HeartbeatInv =>
        [\A seq \in Sequence, timestamp \in Times, interval \in Interval :
           heartbeat_verify(seq, timestamp, interval) /\ answer' = "OK" =>
             \A i \in missed : interval > i]_heartbeat
  BY LongerOrMissed DEF heartbeat_verify
<1> QED BY <1>1, HeartbeatInitially, HeartbeatInductive, PTL DEF Spec, OnceMissedAlwaysMissed
=============================================================================
