--------------------------------- MODULE TcpTrap ---------------------------------
(***************************************************************************)
(* src/src/main.c: a trap that accepts who comes, reads what has arrived   *)
(* by then without waiting for it, and closes.  It polls accept: without a *)
(* connection, or when accept fails, it sleeps or tries again.             *)
(***************************************************************************)
EXTENDS Sequences, SequencesExt

CONSTANTS Entity,           \* connections; each comes once
          NoEntity

VARIABLES inbound,          \* connections not accepted yet
          client_fd,        \* the one being read, or NoEntity
          arrived,          \* those whose data has arrived
          sealed            \* those the trap has closed

trap == <<inbound, client_fd, arrived, sealed>>

TrapInit == inbound = <<>> /\ client_fd = NoEntity /\ arrived = {} /\ sealed = {}

Comes(e) == /\ e \notin Range(inbound) \cup sealed \cup {client_fd}
            /\ inbound' = Append(inbound, e)
            /\ UNCHANGED <<client_fd, arrived, sealed>>

Arrives(e) == /\ e \in Range(inbound) \cup {client_fd}
              /\ arrived' = arrived \cup {e}
              /\ UNCHANGED <<inbound, client_fd, sealed>>

AcceptEntity == /\ client_fd = NoEntity /\ inbound # <<>>
                /\ client_fd' = Head(inbound)
                /\ inbound' = Tail(inbound)
                /\ UNCHANGED <<arrived, sealed>>

(* Defect: the read waits for data. *)
ReadBlocks == client_fd \in arrived

ReadReturns == client_fd # NoEntity

(* read, whatever it returns, and fort_knox_seal. *)
Seal == /\ client_fd # NoEntity /\ ReadReturns
        /\ sealed' = sealed \cup {client_fd}
        /\ client_fd' = NoEntity
        /\ UNCHANGED <<inbound, arrived>>

TrapServes == AcceptEntity \/ Seal

TrapNext == TrapServes \/ \E e \in Entity : Comes(e) \/ Arrives(e)

-----------------------------------------------------------------------------
(* Everyone who comes is closed, whether or not anyone ever sends: unlike  *)
(* gate0-exec and the proxy the trap can be held up by nobody.             *)
EveryoneSealed == \A e \in Entity : e \in Range(inbound) ~> e \in sealed
=============================================================================
