---------------------------- MODULE MCClientPool ----------------------------
(* Values for the constants of ClientPool: of two clients one has a payload   *)
(* that does not fit its pipe.                                                *)
EXTENDS ClientPool

MCBig == {1}
=============================================================================
