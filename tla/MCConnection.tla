----------------------------- MODULE MCConnection -----------------------------
(***************************************************************************)
(* Connection for TLC.                                                     *)
(***************************************************************************)
EXTENDS Connection, TLC

\* Callers are interchangeable; sound for the runs without liveness.
CallerSymmetry == Permutations(Callers)

=============================================================================
