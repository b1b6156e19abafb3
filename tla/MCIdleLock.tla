----------------------------- MODULE MCIdleLock -----------------------------
(* Instances of IdleLock for TLC. *)
EXTENDS IdleLock, TLC

\* Viewers are interchangeable; used by safety runs only.
ViewerSymmetry == Permutations(Viewers)
=============================================================================
