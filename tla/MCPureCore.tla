------------------------------ MODULE MCPureCore ------------------------------
(* Two senders, node masks of two bits, two authority levels, and the bytes  *)
(* on either side of the blocked range of command types; every packet is     *)
(* signed by its sender, or by the other one.                                *)
EXTENDS PureCore

CONSTANTS k1, k2, n1, n2

MCEnvelopes == {e \in [seq : 0 .. 2, nodes : {{}, {n1}, {n1, n2}}, level : {1, 2},
                       type : {239, 240, 247, 255}, issued : {2}, expires : {4}] :
                  e.type \in {239, 255} \/ e.nodes = {n1}}

MCPackets ==
  {[pubkey |-> k, seq |-> e.seq, nodes |-> e.nodes, level |-> e.level, type |-> e.type,
    issued |-> e.issued, expires |-> e.expires, sig |-> [by |-> b, over |-> e]] :
     k \in Key, b \in {k1}, e \in MCEnvelopes}
  \cup
  {[pubkey |-> k2, seq |-> e.seq, nodes |-> e.nodes, level |-> e.level, type |-> e.type,
    issued |-> e.issued, expires |-> e.expires, sig |-> [by |-> k2, over |-> e]] :
     e \in {v \in MCEnvelopes : v.seq = 1 /\ v.type = 239}}
=============================================================================
