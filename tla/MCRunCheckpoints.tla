-------------------------- MODULE MCRunCheckpoints --------------------------
(* An ann phase of two definitions, a phase that is refused, and an ops phase *)
(* of two units.                                                              *)
EXTENDS RunCheckpoints

MCUnits == <<2, 1, 2>>
MCAnn == {1}
MCTooBig == {2}
=============================================================================
