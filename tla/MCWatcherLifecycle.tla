------------------------- MODULE MCWatcherLifecycle -------------------------
(* Instances of WatcherLifecycle for TLC. *)
EXTENDS WatcherLifecycle, TLC

\* The callers are interchangeable; used by the safety run only.
CallerSymmetry == Permutations(Callers)
=============================================================================
