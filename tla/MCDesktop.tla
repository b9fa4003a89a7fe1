----------------------------- MODULE MCDesktop -----------------------------
(* Small instances of Desktop for TLC. *)
EXTENDS Desktop, TLC

\* Callers are interchangeable.
Symmetry == Permutations(Calls)

\* Configurations 1 and 2 differ in the model only, 3 has a port of its own.
MCPortOf == [c \in Configs |-> IF c = 3 THEN 2 ELSE 1]

MCCase(overlap, strangers, ncalls, changes, launches) ==
  [overlap |-> overlap, strangers |-> strangers, calls |-> ncalls, changes |-> changes, launches |-> launches]

\* Overlapping calls; calls in turn beside other programs; the state file,
\* with a restart.
MCCases ==
  {MCCase(TRUE, FALSE, 3, 0, 0), MCCase(FALSE, TRUE, 4, 0, 0), MCCase(FALSE, FALSE, 3, 2, 1)}
=============================================================================
