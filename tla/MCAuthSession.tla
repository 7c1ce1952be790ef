---------------------------- MODULE MCAuthSession ----------------------------
(* Instances of AuthSession for TLC.                                       *)
EXTENDS AuthSession, TLC

MCSymmetry == Permutations(Devices)
=============================================================================
