----------------------------- MODULE MCExecutive -----------------------------
(* A controller (key k1) with two commands, the second one's window opening  *)
(* later; another sender (k2) whose first command would enrol it; a copy of  *)
(* the controller's second command without a signature.  MCJunk is what the  *)
(* server's buffer holds at first: nothing that verifies.                    *)
EXTENDS Executive

CONSTANTS k1, k2

Make(seq, token, key, issued, expires) ==
  [seq |-> seq, token |-> token, key |-> key, issued |-> issued, expires |-> expires]

Signed(env, k) ==
  [seq |-> env.seq, token |-> env.token, key |-> env.key, issued |-> env.issued,
   expires |-> env.expires, sig |-> [by |-> k, over |-> env]]

First  == Make(1, TRUE, k1, 0, 1)
Second == Make(2, FALSE, k1, 1, 1)
Other  == Make(1, TRUE, k2, 0, 1)

MCJunk == [Signed(Make(0, FALSE, k2, 0, 0), k2) EXCEPT !.sig = NoSignature]

MCPackets == {Signed(First, k1), Signed(Second, k1), Signed(Other, k2),
              [Signed(Second, k1) EXCEPT !.sig = NoSignature]}
=============================================================================
