----------------------------- MODULE MCLockPool -----------------------------
(* Instances of LockPool for TLC.                                           *)
EXTENDS LockPool, TLC

\* The calls are interchangeable (for the runs without liveness).
CallSymmetry == Permutations(Call)
=============================================================================
