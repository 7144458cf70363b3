------------------------------ MODULE ShadowTable ------------------------------
(***************************************************************************)
(* shadow.c: the table of attackers being fed decoys, as the programs that *)
(* link it use it (shadow_test.c, the root gate0_daemon.c): one thread,    *)
(* any order of calls.  None calls shadow_entry_put, which would give a    *)
(* reference back: it is left out.                                         *)
(*                                                                         *)
(* Of an entry the model keeps the address, last_seen_ns and refcount; the *)
(* decoy and its counters are only written.  MaxRefs bounds the lookups of *)
(* one entry in TLC.                                                       *)
(***************************************************************************)
EXTENDS Clock, Sequences, FiniteSets, SequencesExt

CONSTANTS Address, NoAddress,
          SHADOW_TABLE_MAX,
          TARPIT_DELAY_NS,
          MaxRefs

ASSUME ShadowAssumption == /\ SHADOW_TABLE_MAX \in Nat
                           /\ TARPIT_DELAY_NS \in Nat
                           /\ MaxRefs \in Nat
                           /\ NoAddress \notin Address

VARIABLES table,        \* the entries in use, in the order of the array
          asked,        \* the address of the last lookup
          found         \* the index it returned, 0 for NULL

shadow == <<table, asked, found>>

ShadowInit == table = <<>> /\ asked = NoAddress /\ found = 0

Free(t) == Len(t) < SHADOW_TABLE_MAX

Registered(t, a) == Append(t, [addr |-> a, seen |-> clock, refs |-> 0])

(* The loop of shadow_lookup has no braces: its return is unconditional.   *)
Found(t, a) == IF t = <<>> THEN 0 ELSE 1

(* Only the reference is conditional. *)
Referenced(t, a) ==
  IF t # <<>> /\ t[1].addr = a THEN [t EXCEPT ![1].refs = @ + 1] ELSE t

Fed(t, i) == [t EXCEPT ![i].seen = clock]

Expired(e) == Since(e.seen) > TARPIT_DELAY_NS /\ e.refs = 0

(* Defect: the entry moved into the gap is skipped. *)
PassSkips(s) ==
  IF s.i > Len(s.t) THEN s
  ELSE [t |-> IF Expired(s.t[s.i]) THEN Front(ReplaceAt(s.t, s.i, Last(s.t))) ELSE s.t,
        i |-> s.i + 1]

(* One pass of the loop of shadow_evict_expired, at index i: the last      *)
(* entry takes the place of an expired one and is looked at next.          *)
EvictPass(s) ==
  IF Expired(s.t[s.i]) THEN [t |-> Front(ReplaceAt(s.t, s.i, Last(s.t))), i |-> s.i]
                       ELSE [t |-> s.t, i |-> s.i + 1]

(* The loop.  A pass drops an entry or goes on to the next: there are as   *)
(* many passes as entries.                                                 *)
Evicted(t) ==
  LET after[n \in 0 .. Len(t)] ==
        IF n = 0 THEN [t |-> t, i |-> 1] ELSE EvictPass(after[n - 1])
  IN  after[Len(t)].t

Bounded(t) == \A i \in DOMAIN t : t[i].refs <= MaxRefs

shadow_register(a) == /\ Free(table)
                      /\ table' = Registered(table, a)
                      /\ UNCHANGED <<asked, found>>

shadow_lookup(a) == /\ asked' = a
                    /\ found' = Found(table, a)
                    /\ table' = Referenced(table, a)
                    /\ Bounded(table')

shadow_feed_decoy(i) == table' = Fed(table, i) /\ UNCHANGED <<asked, found>>

shadow_evict_expired == /\ table' = Evicted(table)
                        /\ asked' = NoAddress
                        /\ found' = 0

ShadowNext == \/ /\ \/ \E a \in Address : shadow_register(a) \/ shadow_lookup(a)
                    \/ \E i \in DOMAIN table : shadow_feed_decoy(i)
                    \/ shadow_evict_expired
                 /\ UNCHANGED clock
              \/ SetClock /\ UNCHANGED shadow

ShadowSpec == ShadowInit /\ ClockInit /\ [][ShadowNext]_<<shadow, clock>>
-----------------------------------------------------------------------------
Places(t, e) == {i \in DOMAIN t : t[i] = e}

(* Compacting the table while it is scanned loses and repeats nothing: one *)
(* call of evict drops every expired entry without references, wherever it *)
(* stands, and keeps every other one as it was.                            *)
EvictIsExact ==
  \A e \in Range(table) \cup Range(Evicted(table)) :
    Cardinality(Places(Evicted(table), e)) =
      IF Expired(e) THEN 0 ELSE Cardinality(Places(table, e))

(* shadow_test.c:33-38 looks an address up and expects the entry of that   *)
(* address (README.md:17: "attacker attribution").                         *)
LookupFindsTheAttacker == found # 0 => table[found].addr = asked
=============================================================================
