------------------------------ MODULE Executive ------------------------------
(***************************************************************************)
(* gate0-exec: the single-threaded server of src/src/executive.c around    *)
(* evaluate_command, its clients, and everything that can stop either.     *)
(*                                                                         *)
(* The server serves one connection at a time with blocking calls: accept, *)
(* one read of at most 512 bytes, evaluate, write, close.  All it knows is *)
(* in main's locals, so whatever ends the process (a signal, an error of   *)
(* accept, SIGPIPE from a write to a peer that left) forgets the enrolled  *)
(* key and the last sequence number.                                       *)
(*                                                                         *)
(* A packet may arrive cut short (tests/run_full_matrix.py sends such      *)
(* ones); main does not compare the count with the packet's size and       *)
(* evaluates whatever the buffer then holds.  The array is uninitialised   *)
(* in every iteration, and in practice the same stack slot: what it holds  *)
(* before a read is what the previous read left there.                     *)
(*                                                                         *)
(* Bounds: the packets are the finite set Packets, the clock (settable, it *)
(* is CLOCK_REALTIME) ranges over Times, the listen queue over Backlog.    *)
(* executed, told and whole are history variables, no step reads them.     *)
(***************************************************************************)
EXTENDS EvaluateCommand, Sequences

CONSTANTS Client, NoClient,
          Cuts,         \* how many fields of a packet one write carries
          Backlog,      \* connections the listen queue holds
          Times         \* values of the real-time clock

ASSUME ExecutiveAssumption == /\ NoClient \notin Client
                              /\ Cuts \subseteq 1 .. Whole
                              /\ Backlog \in Nat
                              /\ Times \subseteq Nat

(* Clients sign the packet they send (gate0_client.c:47, run_full_matrix.py:50) *)
(* or leave it unsigned; the old bytes of the stack are no signed packet.       *)
ASSUME SignedAsSent ==
  /\ \A p \in Packets : p.sig # NoSignature => p.sig.over = Envelope(p)
  /\ Junk.sig = NoSignature

VARIABLES
  pc,        \* where main is: "accept", "read", "evaluate", "write", "close", "down"
  sender,    \* the one SenderRecord
  buffer,    \* contents of the read buffer
  length,    \* fields the last read brought
  fd,        \* the accepted client
  result,    \* the answer about to be written
  backlog,   \* connections not yet accepted
  clock,
  st,        \* client -> "idle", "connected", "sent", "answered", "eof", "gone"
  wire,      \* client -> what it sent and the server has not read
  executed,  \* packets answered OK by evaluate_command since the server started
  told,      \* sequence numbers whose OK reached a client since then
  whole      \* the last packet read whole since then

serverVars == <<pc, sender, buffer, length, fd, result, backlog>>
clientVars == <<st, wire>>
history == <<executed, told, whole>>
vars == <<serverVars, clock, clientVars, history>>

NoData == [packet |-> Junk, fields |-> 0]

Init == /\ pc = "accept"
        /\ sender = UnusedSender
        /\ buffer = Junk
        /\ length = 0
        /\ fd = NoClient
        /\ result = "NONE"
        /\ backlog = <<>>
        /\ clock \in Times
        /\ st = [c \in Client |-> "idle"]
        /\ wire = [c \in Client |-> NoData]
        /\ executed = <<>>
        /\ told = <<>>
        /\ whole = Junk

-----------------------------------------------------------------------------
(* The clients: connect, write one packet (or its beginning), wait.  One   *)
(* connection per client: it connects again after the server closed.       *)
Connect(c) == /\ st[c] = "idle"
              /\ c # fd
              /\ pc # "down"
              /\ Len(backlog) < Backlog
              /\ backlog' = Append(backlog, c)
              /\ st' = [st EXCEPT ![c] = "connected"]
              /\ UNCHANGED <<pc, sender, buffer, length, fd, result, clock, wire, history>>

Send(c, p, n) == /\ st[c] = "connected"
                 /\ st' = [st EXCEPT ![c] = "sent"]
                 /\ wire' = [wire EXCEPT ![c] = [packet |-> p, fields |-> n]]
                 /\ UNCHANGED <<serverVars, clock, history>>

(* The client dies or gives up; what it has sent can still be read. *)
Leave(c) == /\ st[c] \in {"connected", "sent"}
            /\ st' = [st EXCEPT ![c] = "gone"]
            /\ UNCHANGED <<serverVars, clock, wire, history>>

(* The client reads the answer, or end of file, and may start again. *)
Finish(c) == /\ st[c] \in {"answered", "eof"}
             /\ st' = [st EXCEPT ![c] = "idle"]
             /\ UNCHANGED <<serverVars, clock, wire, history>>

-----------------------------------------------------------------------------
(* The server's loop.                                                      *)
Accept == /\ pc = "accept"
          /\ backlog # <<>>
          /\ fd' = Head(backlog)
          /\ backlog' = Tail(backlog)
          /\ pc' = "read"
          /\ UNCHANGED <<sender, buffer, length, result, clock, clientVars, history>>

(* Defect: the count includes a terminator. *)
ReadCountsOneMore ==
  /\ pc = "read"
  /\ wire[fd].fields > 0
  /\ buffer' = Overlay(buffer, wire[fd].packet, wire[fd].fields)
  /\ length' = wire[fd].fields + 1
  /\ whole' = IF wire[fd].fields = Whole THEN wire[fd].packet ELSE whole
  /\ wire' = [wire EXCEPT ![fd] = NoData]
  /\ pc' = "evaluate"
  /\ UNCHANGED <<sender, fd, result, backlog, clock, st, executed, told>>

(* Defect: main waits for a whole packet, as the unused read_exact would. *)
ReadExact ==
  /\ pc = "read"
  /\ wire[fd].fields = Whole
  /\ buffer' = Overlay(buffer, wire[fd].packet, wire[fd].fields)
  /\ length' = wire[fd].fields
  /\ whole' = wire[fd].packet
  /\ wire' = [wire EXCEPT ![fd] = NoData]
  /\ pc' = "evaluate"
  /\ UNCHANGED <<sender, fd, result, backlog, clock, st, executed, told>>

Read == /\ pc = "read"
        /\ wire[fd].fields > 0
        /\ buffer' = Overlay(buffer, wire[fd].packet, wire[fd].fields)
        /\ length' = wire[fd].fields
        /\ whole' = IF length' = Whole THEN wire[fd].packet ELSE whole
        /\ wire' = [wire EXCEPT ![fd] = NoData]
        /\ pc' = "evaluate"
        /\ UNCHANGED <<sender, fd, result, backlog, clock, st, executed, told>>

(* read() returns 0: the client left without a byte.  No answer is due. *)
ReadNothing == /\ pc = "read"
               /\ wire[fd].fields = 0
               /\ st[fd] = "gone"
               /\ pc' = "close"
               /\ UNCHANGED <<sender, buffer, length, fd, result, backlog,
                              clock, clientVars, history>>

(* clock_gettime and evaluate_command; main's interlocks stay all zero. *)
EvaluatePacket ==
  LET e == Evaluate(buffer, sender, FALSE, clock)
  IN  /\ pc = "evaluate"
      /\ result' = e.result
      /\ sender' = e.sender
      /\ executed' = IF e.result = "OK" THEN Append(executed, buffer) ELSE executed
      /\ pc' = "write"
      /\ UNCHANGED <<buffer, length, fd, backlog, clock, clientVars, told, whole>>

Write == /\ pc = "write"
         /\ st[fd] # "gone"
         /\ st' = [st EXCEPT ![fd] = "answered"]
         /\ told' = IF result = "OK" THEN Append(told, buffer.seq) ELSE told
         /\ result' = "NONE"
         /\ pc' = "close"
         /\ UNCHANGED <<sender, buffer, length, fd, backlog, clock, wire, executed, whole>>

(* close(client_fd): a client that left may connect again as another. *)
Close == /\ pc = "close"
         /\ st' = [st EXCEPT ![fd] = IF @ = "gone" THEN "idle" ELSE @]
         /\ fd' = NoClient
         /\ length' = 0
         /\ pc' = "accept"
         /\ UNCHANGED <<sender, buffer, result, backlog, clock, wire, history>>

-----------------------------------------------------------------------------
(* The end of the process: every connection of it breaks.                  *)
Stop == /\ pc' = "down"
        /\ sender' = UnusedSender
        /\ buffer' = Junk
        /\ length' = 0
        /\ fd' = NoClient
        /\ result' = "NONE"
        /\ backlog' = <<>>
        /\ st' = [c \in Client |-> CASE st[c] \in {"connected", "sent"} -> "eof"
                                     [] st[c] = "gone"                  -> "idle"
                                     [] OTHER                           -> st[c]]
        /\ wire' = [c \in Client |-> NoData]
        /\ executed' = <<>>
        /\ told' = <<>>
        /\ whole' = Junk
        /\ UNCHANGED clock

(* Defect: SIGPIPE ignored and the failed write not looked at. *)
WriteUnheard == /\ pc = "write"
                /\ st[fd] = "gone"
                /\ result' = "NONE"
                /\ pc' = "close"
                /\ UNCHANGED <<sender, buffer, length, fd, backlog,
                               clock, clientVars, history>>

(* Writing to a client that left: SIGPIPE, which main neither ignores nor handles. *)
WriteBroken == pc = "write" /\ st[fd] = "gone" /\ Stop

(* A signal, a power cycle, or accept failing with anything but EINTR. *)
Crash == pc # "down" /\ Stop

Restart == /\ pc = "down"
           /\ pc' = "accept"
           /\ UNCHANGED <<sender, buffer, length, fd, result, backlog,
                          clock, clientVars, history>>

SetClock == /\ clock' \in Times
            /\ UNCHANGED <<serverVars, clientVars, history>>

-----------------------------------------------------------------------------
Serve == Accept \/ Read \/ ReadNothing \/ EvaluatePacket \/ Write \/ WriteBroken \/ Close

SendSome(c) == \E p \in Packets, n \in Cuts : Send(c, p, n)

Next == \/ Serve
        \/ \E c \in Client : Connect(c) \/ SendSome(c) \/ Leave(c) \/ Finish(c)
        \/ Crash
        \/ Restart
        \/ SetClock

Spec == Init /\ [][Next]_vars

(* The server runs when it can; a connected client writes or goes away, as *)
(* gate0_client.c does (nothing else in the server bounds its read).       *)
Decide(c) == st[c] = "connected" /\ (SendSome(c) \/ Leave(c))

FairSpec == /\ Spec
            /\ WF_vars(Serve)
            /\ \A c \in Client : WF_vars(Decide(c))
-----------------------------------------------------------------------------
TypeOK == /\ pc \in {"accept", "read", "evaluate", "write", "close", "down"}
          /\ sender \in SenderRecord
          /\ buffer \in PacketType
          /\ length \in 0 .. Whole
          /\ fd \in Client \cup {NoClient}
          /\ result \in Results \cup {"NONE"}
          /\ backlog \in Seq(Client)
          /\ clock \in Times
          /\ st \in [Client -> {"idle", "connected", "sent", "answered", "eof", "gone"}]
          /\ wire \in [Client -> [packet : PacketType, fields : 0 .. Whole]]
          /\ executed \in Seq(PacketType)
          /\ told \in Seq(Nat)
          /\ whole \in PacketType

(* In one run of the server the commands executed are numbers 1, 2, 3, ... *)
(* in this order, each once, all signed by the key of the sender record.   *)
ExecutedInOrder ==
  /\ Len(executed) = sender.last
  /\ \A i \in 1 .. Len(executed) : executed[i].seq = i /\ Verifies(executed[i], sender.key)

(* Though a short packet is evaluated on top of an older one, nothing      *)
(* stitched from two different packets is executed: the command evaluated  *)
(* OK is, field by field, the last packet that arrived whole.              *)
ExecutedAsSent == pc = "write" /\ result = "OK" => buffer = whole

(* Each execution is acknowledged, once and in order: in a server that     *)
(* goes on, only the answer being written is outstanding.  (An answer that *)
(* cannot be delivered ends the server, and its records with it.)          *)
EveryExecutionAcknowledged ==
  LET due == IF pc = "write" /\ result = "OK" THEN 1 ELSE 0
  IN  /\ Len(told) + due = Len(executed)
      /\ \A i \in 1 .. Len(told) : told[i] = executed[i].seq

(* The first key enrolled stays the key, and its counter never goes back,  *)
(* for as long as the server runs.                                         *)
SenderPinned ==
  [][pc' # "down" /\ sender.used =>
       /\ sender'.used
       /\ sender'.key = sender.key
       /\ sender'.last \in {sender.last, sender.last + 1}]_vars

(* A client that has sent something, whole or not, is answered, cut off by *)
(* the end of the server, or leaves: no client waits for ever on another.  *)
SentIsAnswered == \A c \in Client : (st[c] = "sent") ~> (st[c] # "sent")

(* run_full_matrix.py:66 expects a truncated packet to be answered by a    *)
(* closed connection or an error, never by OK.                             *)
TruncatedNotAccepted == pc = "write" /\ length < Whole => result # "OK"

EnrolledKeys == IF sender.used THEN {sender.key} ELSE {}

ExecutedCommands ==
  [i \in 1 .. Len(executed) |-> [key |-> executed[i].sig.by, seq |-> executed[i].seq]]

(* The server is a gapless gate of one key that forgets when it stops.     *)
Gate == INSTANCE CommandGate WITH
          Number <- {p.seq : p \in Packets},
          Capacity <- 1, Gapless <- TRUE, Volatile <- TRUE,
          enrolled <- EnrolledKeys, executed <- ExecutedCommands

ImplementsGate == Gate!Spec
=============================================================================
