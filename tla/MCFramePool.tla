---------------------------- MODULE MCFramePool -----------------------------
(* Instances of FramePool for TLC.  The readers are told apart by the      *)
(* sending order, so no symmetry is used.                                  *)
EXTENDS FramePool

CONSTANTS r1, r2

OneTarget  == <<r1>>
TwoTargets == <<r1, r2>>

=============================================================================
