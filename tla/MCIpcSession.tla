---------------------------- MODULE MCIpcSession ----------------------------
(* Small instances of IpcSession for TLC. *)
EXTENDS IpcSession, TLC

\* Requests and models are interchangeable when no liveness is checked.
Symmetry == Permutations(Requests) \cup Permutations(Models)

\* Two requests at once in each kind of mode, and three one after the other.
MCConfigs ==
  {[mode |-> "auto", atOnce |-> 2, load |-> 2],
   [mode |-> "reuse", atOnce |-> 2, load |-> 2],
   [mode |-> "reuse", atOnce |-> 1, load |-> 3]}

LiveConfigs == {[mode |-> "reuse", atOnce |-> 2, load |-> 2]}
=============================================================================
