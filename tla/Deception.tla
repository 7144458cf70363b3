-------------------------------- MODULE Deception --------------------------------
(***************************************************************************)
(* What attackers meet: the shadow table and the proxy that keeps it, the  *)
(* cages, the phantoms and the TCP trap.  The table is checked twice: with *)
(* calls in any order, and as the proxy calls it.  The others share no     *)
(* state: one behaviour moves one part.                                    *)
(***************************************************************************)
EXTENDS ShadowDaemon, RollingCage, Phantom, TcpTrap

VARIABLE part

others == <<cage_vars, phantom, trap>>
vars == <<part, shadow, daemon, clock, others>>

Init == /\ part \in {"table", "daemon", "cages", "phantoms", "trap"}
        /\ ClockInit /\ ShadowInit /\ DaemonInit /\ CageInit /\ PhantomInit /\ TrapInit

TableMoves   == part = "table" /\ ShadowNext /\ UNCHANGED <<part, daemon, others>>
DaemonMoves  == part = "daemon" /\ DaemonNext /\ UNCHANGED <<part, others>>
CagesMove    == part = "cages" /\ CageNext /\ UNCHANGED <<part, shadow, daemon, clock, phantom, trap>>
PhantomsMove == /\ part = "phantoms" /\ PhantomNext
                /\ UNCHANGED <<part, shadow, daemon, clock, cage_vars, trap>>
TrapMoves    == /\ part = "trap" /\ TrapNext
                /\ UNCHANGED <<part, shadow, daemon, clock, cage_vars, phantom>>

Next == TableMoves \/ DaemonMoves \/ CagesMove \/ PhantomsMove \/ TrapMoves

(* A step of the proxy or the trap that could be taken for ever is taken;  *)
(* a peer sends something or leaves.  Nothing makes the clock move.        *)
Fairness == /\ WF_<<shadow, daemon>>(part = "daemon" /\ DaemonServes)
            /\ \A p \in Peer : WF_daemon(part = "daemon" /\ PeerActs(p) /\ sent[p] = "nothing")
            /\ WF_trap(part = "trap" /\ TrapServes)

Spec == Init /\ [][Next]_vars /\ Fairness
=============================================================================
