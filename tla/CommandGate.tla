----------------------------- MODULE CommandGate -----------------------------
(***************************************************************************)
(* What every evaluator of the repository promises, whatever its checks:   *)
(* a bounded set of enrolled keys, and for each of them commands executed  *)
(* one at a time, in the order of their sequence numbers, none twice.      *)
(* A gapless gate (core.c, gate0_core.c) executes 1, 2, 3, ...; the other  *)
(* kind (core_multiclient.c) may skip numbers but never goes back.         *)
(* A gate that keeps its records in memory forgets all of them when the    *)
(* process ends.                                                           *)
(***************************************************************************)
EXTENDS Naturals, Sequences

CONSTANTS Key, Number, Capacity, Gapless, Volatile

VARIABLES enrolled,     \* keys with a record
          executed      \* what was executed since the gate started: keys and numbers

vars == <<enrolled, executed>>

TypeOK == /\ enrolled \subseteq Key
          /\ executed \in Seq([key : Key, seq : Number])

Init == enrolled = {} /\ executed = <<>>

(* Every enrolled key has a record of its own among Capacity many. *)
Fit(keys) == \E slot \in [keys -> 1 .. Capacity] :
               \A a, b \in keys : slot[a] = slot[b] => a = b

Enrol(k) == /\ k \notin enrolled
            /\ Fit(enrolled \cup {k})
            /\ enrolled' = enrolled \cup {k}
            /\ UNCHANGED executed

Done(k, n) == \E i \in 1 .. Len(executed) : executed[i] = [key |-> k, seq |-> n]

Execute(k, n) ==
  /\ n > 0
  /\ Fit(enrolled \cup {k})
  /\ \A i \in 1 .. Len(executed) : executed[i].key = k => executed[i].seq < n
  /\ Gapless => \A m \in 1 .. (n - 1) : Done(k, m)
  /\ enrolled' = enrolled \cup {k}
  /\ executed' = Append(executed, [key |-> k, seq |-> n])

Forget == Volatile /\ enrolled' = {} /\ executed' = <<>>

Next == \/ \E k \in Key : Enrol(k)
        \/ \E k \in Key, n \in Number : Execute(k, n)
        \/ Forget

Spec == Init /\ [][Next]_vars
=============================================================================
