---------------------------- MODULE MCIpcClient ----------------------------
(* Small instances of IpcClient for TLC. *)
EXTENDS IpcClient, TLC

\* Goroutines of one kind are interchangeable when no liveness is checked.
Symmetry ==
  Permutations(Callers) \cup Permutations(Subscribers) \cup Permutations(Closers)
=============================================================================
