------------------------------ MODULE MCGateCore ------------------------------
(* Every packet over two keys, sequence numbers 0..3, token or none, one     *)
(* window, signed by either key, or carrying another packet's signature.    *)
EXTENDS GateCore

CONSTANTS k1, k2

MCEnvelopes == {e \in [seq : 0 .. 3, token : BOOLEAN, key : {k1, k2},
                       issued : {1}, expires : {2}] : e.token \/ e.key = k1}

MCPackets ==
  {[seq |-> e.seq, token |-> e.token, key |-> e.key, issued |-> e.issued,
    expires |-> e.expires, sig |-> s] :
     e \in MCEnvelopes,
     s \in {[by |-> k, over |-> v] : k \in {k1, k2}, v \in MCEnvelopes} \cup {NoSignature}}

(* Signed as it stands, unsigned, or tampered with after it was signed. *)
MCSent == {p \in MCPackets : p.sig = NoSignature \/
                             (p.sig.over.token = p.token /\ p.sig.over.key = p.key)}

MCJunk == CHOOSE p \in MCSent : p.sig = NoSignature
=============================================================================
