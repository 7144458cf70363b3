------------------------------ MODULE ShadowDaemon ------------------------------
(***************************************************************************)
(* The proxy of the root gate0_daemon.c: one thread around epoll_wait that *)
(* keeps the shadow table, and its TCP clients.  The unix socket is only   *)
(* accepted and closed, which changes nothing here.                        *)
(*                                                                         *)
(* A client connects and then sends less than a SignedCommand, sends a     *)
(* whole one, or leaves; recv waits for it without a limit.  A whole one   *)
(* ends the process: evaluate_command reads the interlocks through NULL.   *)
(* So does answering a client that has left (SIGPIPE).  EVICT_INTERVAL_NS  *)
(* is the time between two evictions.                                      *)
(***************************************************************************)
EXTENDS ShadowTable

CONSTANTS Port, NoPeer, EVICT_INTERVAL_NS

Peer == Address \X Port     \* each connects once

ASSUME DaemonAssumption == NoPeer \notin Peer /\ EVICT_INTERVAL_NS \in Nat

VARIABLES alive,
          backlog,          \* connections not accepted yet
          cfd,              \* the connection being served, or NoPeer
          sent,             \* what each peer did: nothing, short, whole, left
          closed,           \* connections the daemon has closed
          last_evict

daemon == <<alive, backlog, cfd, sent, closed, last_evict>>

DaemonInit == /\ alive = TRUE
              /\ backlog = <<>>
              /\ cfd = NoPeer
              /\ sent = [p \in Peer |-> "nothing"]
              /\ closed = {}
              /\ last_evict = clock

PeerConnects(p) == /\ alive
                   /\ p \notin Range(backlog) \cup closed \cup {cfd}
                   /\ backlog' = Append(backlog, p)
                   /\ UNCHANGED <<shadow, alive, cfd, sent, closed, last_evict, clock>>

PeerActs(p) == /\ p \in Range(backlog) \cup {cfd}
               /\ sent[p] = "nothing" \/ sent[p] = "short"
               /\ \E what \in {"short", "whole", "left"} :
                    /\ sent[p] = "short" => what = "left"
                    /\ sent' = [sent EXCEPT ![p] = what]
               /\ UNCHANGED <<shadow, alive, backlog, cfd, closed, last_evict, clock>>

(* epoll_wait returns, after 2 s or with a connection to accept: evict if  *)
(* it is time, then accept.                                                *)
Wake == /\ alive /\ cfd = NoPeer
        /\ IF Since(last_evict) >= EVICT_INTERVAL_NS
           THEN table' = Evicted(table) /\ last_evict' = clock
           ELSE UNCHANGED <<table, last_evict>>
        /\ cfd' = IF backlog = <<>> THEN NoPeer ELSE Head(backlog)
        /\ backlog' = IF backlog = <<>> THEN backlog ELSE Tail(backlog)
        /\ UNCHANGED <<asked, found, alive, sent, closed, clock>>

(* Defect: what lookup returned is not looked at. *)
BookedAnew(a) == IF Free(table) THEN Fed(Registered(table, a), Len(table) + 1) ELSE table

(* Lookup, register if there is nothing, feed. *)
Booked(a) ==
  LET looked == Referenced(table, a)
      i      == Found(table, a)
  IN  IF i # 0 THEN Fed(looked, i)
      ELSE IF Free(looked) THEN Fed(Registered(looked, a), Len(looked) + 1)
      ELSE looked

(* Defect: the connection is not closed. *)
HandleStays ==
  /\ alive /\ cfd # NoPeer
  /\ sent[cfd] \in {"short", "left"}
  /\ table' = Booked(cfd[1]) /\ Bounded(table')
  /\ cfd' = NoPeer
  /\ UNCHANGED <<asked, found, alive, backlog, sent, closed, last_evict, clock>>

(* Less than a command, or nothing because the peer left; the answer to a  *)
(* peer that has left may still go through, or end the process.            *)
HandleMalformed ==
  /\ alive /\ cfd # NoPeer
  /\ sent[cfd] \in {"short", "left"}
  /\ table' = Booked(cfd[1]) /\ Bounded(table')
  /\ alive' \in (IF sent[cfd] = "left" THEN BOOLEAN ELSE {TRUE})
  /\ closed' = closed \cup {cfd}
  /\ cfd' = NoPeer
  /\ UNCHANGED <<asked, found, backlog, sent, last_evict, clock>>

HandleWhole == /\ alive /\ cfd # NoPeer
               /\ sent[cfd] = "whole"
               /\ alive' = FALSE
               /\ UNCHANGED <<shadow, backlog, cfd, sent, closed, last_evict, clock>>

DaemonServes == Wake \/ HandleMalformed \/ HandleWhole

DaemonNext == \/ \E p \in Peer : PeerConnects(p) \/ PeerActs(p)
              \/ DaemonServes
              \/ SetClock /\ UNCHANGED <<shadow, daemon>>

-----------------------------------------------------------------------------
(* Lookup never returns NULL once there is an entry, so the proxy never    *)
(* makes a second one: every attacker is booked on the entry of the first. *)
AllOnOneEntry == closed # {} => Len(table) <= 1

(* As long as the process lives, who connects is answered and closed, if   *)
(* every peer sends something or leaves: the receive has no time limit.    *)
PeersAreServed ==
  \A p \in Peer : p \in Range(backlog) ~> p \in closed \/ ~alive
=============================================================================
