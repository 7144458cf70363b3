--------------------------------- MODULE Phantom ---------------------------------
(***************************************************************************)
(* phantom.c: decoy controllers, each listening on a port of its own and   *)
(* found by the descriptor of its socket.  Phantom i has port i; sockets   *)
(* is the kernel's side: descriptor f listens on port sockets[f].  Nothing *)
(* that listens is ever closed, so a new socket gets the next number.      *)
(* hit_count, the trip time and the serial are left out: nothing reads     *)
(* them.  binds is a history variable, MaxBinds bounds it.                 *)
(***************************************************************************)
EXTENDS Naturals, Sequences, FiniteSetsExt

CONSTANTS PHANTOM_COUNT, MaxBinds

ASSUME PhantomAssumption == PHANTOM_COUNT \in Nat \ {0} /\ MaxBinds \in Nat

VARIABLES phantom_fd,       \* 0 for -1
          phantom_state,
          sockets,
          binding,          \* the phantom phantom_bind_all is at, 0 outside the call
          binds             \* calls of it

phantom == <<phantom_fd, phantom_state, sockets, binding, binds>>

Farm == 1 .. PHANTOM_COUNT

PhantomInit == /\ phantom_fd = [i \in Farm |-> 0]
               /\ phantom_state = [i \in Farm |-> "IDLE"]
               /\ sockets = <<>> /\ binding = 0 /\ binds = 0

phantom_bind_all == /\ binding = 0 /\ binds < MaxBinds
                    /\ binding' = 1 /\ binds' = binds + 1
                    /\ UNCHANGED <<phantom_fd, phantom_state, sockets>>

Continue == binding' = (binding + 1) % (PHANTOM_COUNT + 1) /\ UNCHANGED binds

(* Defect: the number of the closed socket stays. *)
FdKept == Len(sockets) + 1

FdAfterFailure == 0

(* socket fails, or bind: the port may be another program's, or one's own. *)
BindFails == /\ binding # 0
             /\ phantom_fd' \in {[phantom_fd EXCEPT ![binding] = 0],
                                 [phantom_fd EXCEPT ![binding] = FdAfterFailure]}
             /\ Continue
             /\ UNCHANGED <<phantom_state, sockets>>

BindSucceeds == /\ binding # 0
                /\ \A f \in DOMAIN sockets : sockets[f] # binding
                /\ sockets' = Append(sockets, binding)
                /\ phantom_fd' = [phantom_fd EXCEPT ![binding] = Len(sockets')]
                /\ phantom_state' = [phantom_state EXCEPT ![binding] = "ACTIVE"]
                /\ Continue

phantom_get(f) ==
  LET hits == {i \in Farm : phantom_fd[i] = f} IN IF hits = {} THEN 0 ELSE Min(hits)

(* Somebody connects to a listening socket. *)
phantom_trip(f) == /\ binding = 0
                   /\ phantom_get(f) # 0
                   /\ phantom_state' = [phantom_state EXCEPT ![phantom_get(f)] = "TRIPPED"]
                   /\ UNCHANGED <<phantom_fd, sockets, binding, binds>>

(* Called for a phantom that was tripped. *)
phantom_reset(i) == /\ binding = 0
                    /\ phantom_state[i] = "TRIPPED"
                    /\ phantom_state' = [phantom_state EXCEPT ![i] = "ACTIVE"]
                    /\ UNCHANGED <<phantom_fd, sockets, binding, binds>>

PhantomNext == \/ phantom_bind_all \/ BindFails \/ BindSucceeds
               \/ \E f \in DOMAIN sockets : phantom_trip(f)
               \/ \E i \in Farm : phantom_reset(i)
-----------------------------------------------------------------------------
(* No socket ever leads to another phantom than the one whose port it      *)
(* listens on.  As long as phantom_bind_all was called once it leads to    *)
(* that phantom, and every phantom that is not idle listens.  A second     *)
(* call finds its own ports taken and forgets the sockets that hold them:  *)
(* they lead nowhere, and phantoms stay active that have no descriptor.    *)
KnownWhileBoundOnce ==
  /\ \A f \in DOMAIN sockets : phantom_get(f) \in {0, sockets[f]}
  /\ binds <= 1 =>
       /\ \A f \in DOMAIN sockets : phantom_get(f) = sockets[f]
       /\ \A i \in Farm : phantom_state[i] # "IDLE" => phantom_fd[i] \in DOMAIN sockets
=============================================================================
