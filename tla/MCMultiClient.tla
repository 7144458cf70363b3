---------------------------- MODULE MCMultiClient ----------------------------
(* Three senders for two records; sequence number 0 and gaps up to 3; each   *)
(* packet signed by its sender, by another, or tampered with after signing.  *)
EXTENDS MultiClient

CONSTANTS k1, k2, k3

MCEnvelopes == [seq : 0 .. 3, issued : {1}, expires : {2}]

MCPackets ==
  {[pubkey |-> k, seq |-> e.seq, issued |-> e.issued, expires |-> e.expires, sig |-> s] :
     k \in Key, e \in MCEnvelopes,
     s \in [by : Key, over : MCEnvelopes]}

MCSent == {p \in MCPackets : p.sig.by = p.pubkey \/ p.sig.over.seq = p.seq}
=============================================================================
