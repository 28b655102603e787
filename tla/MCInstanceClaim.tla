-------------------------- MODULE MCInstanceClaim ---------------------------
(* Instances of InstanceClaim for TLC.                                     *)
EXTENDS InstanceClaim, TLC
=============================================================================
