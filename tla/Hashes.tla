--------------------------------- MODULE Hashes ---------------------------------
(***************************************************************************)
(* Hashes, as the logs and the tree use them: the tuple of what went into  *)
(* the hash, so that no two inputs share one; Zero is 32 zero bytes, which *)
(* no input hashes to.                                                     *)
(***************************************************************************)
Zero == <<>>
=============================================================================
