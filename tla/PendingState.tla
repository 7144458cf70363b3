------------------------------- MODULE PendingState -------------------------------
(***************************************************************************)
(* pending_state.c: at most one command waits for its confirmation.  The   *)
(* caller takes each sequence number and expiry as it likes; the clock is  *)
(* CLOCK_MONOTONIC.  issued_ns and device_id are left out: nothing reads   *)
(* them.  unanswered and safe are history variables.                       *)
(***************************************************************************)
EXTENDS Clock, FiniteSets

CONSTANT Issue          \* sequence numbers

VARIABLES ps_status, ps_sequence, ps_expiry,
          unanswered,   \* commands set pending and not confirmed yet
          safe          \* ps_check_safe said so and no command was set pending since

pending == <<ps_status, ps_sequence, ps_expiry, unanswered, safe>>

PendingInit == /\ ps_status = "IDLE" /\ ps_sequence = 0 /\ ps_expiry = 0
               /\ unanswered = {} /\ safe = FALSE

(* ps_expire_check, on its own and as the other calls begin with it. *)
StatusNow == IF ps_status = "PENDING" /\ clock > ps_expiry THEN "EXPIRED" ELSE ps_status

ps_expire_check == /\ ps_status' = StatusNow
                   /\ UNCHANGED <<ps_sequence, ps_expiry, unanswered, safe>>

(* Defect: a command in waiting is overwritten. *)
AnyTime == TRUE

MayIssue == StatusNow # "PENDING"

ps_set_pending(seq, expiry) ==
  IF MayIssue
  THEN /\ ps_status' = "PENDING"
       /\ ps_sequence' = seq
       /\ ps_expiry' = expiry
       /\ unanswered' = unanswered \cup {[seq |-> seq, expiry |-> expiry]}
       /\ safe' = FALSE
  ELSE ps_expire_check

(* The expiry is not looked at. *)
ps_confirm(seq) == /\ ps_status = "PENDING" /\ ps_sequence = seq
                   /\ ps_status' = "CONFIRMED"
                   /\ unanswered' = unanswered \ {[seq |-> seq, expiry |-> ps_expiry]}
                   /\ UNCHANGED <<ps_sequence, ps_expiry, safe>>

ps_check_safe == /\ ps_status' = StatusNow
                 /\ safe' = (safe \/ StatusNow # "PENDING")
                 /\ UNCHANGED <<ps_sequence, ps_expiry, unanswered>>

PendingNext ==
  \/ /\ \/ \E seq \in Issue, expiry \in Times : ps_set_pending(seq, expiry)
        \/ \E seq \in Issue : ps_confirm(seq)
        \/ ps_check_safe
        \/ ps_expire_check
     /\ UNCHANGED clock
  \/ Advance /\ UNCHANGED pending
-----------------------------------------------------------------------------
(* However calls and time interleave, no two commands wait for an answer   *)
(* at once; and once the caller was told it is safe, none is waiting and   *)
(* no late answer is confirmed until it issues another, though a late      *)
(* answer that comes before anyone has asked is.                           *)
NothingWhilePending ==
  LET open == {i \in unanswered : clock <= i.expiry}
  IN  /\ Cardinality(open) <= 1
      /\ safe => open = {} /\ ps_status # "PENDING"
=============================================================================
