---------------------------- MODULE MCRemoteModels ----------------------------
(* A small instance of RemoteModels for TLC. *)
EXTENDS RemoteModels

Symmetry == Permutations(Callers)

\* The default URL is read from a configuration file too, and once more as a
\* duplicate; a better one is a path of its host, and its host may be asked only
\* once it has been cached.
MCHints == <<"default", "gateway/path", "default">>
MCScore == [url \in Urls |-> IF url = "default" THEN 50 ELSE 90]
MCNormal == [url \in Urls |-> IF url = "gateway/path" THEN "gateway" ELSE url]

\* Three listings that look for the URL, of which two overlap; two that find
\* and probe; and three that probe while verdicts expire.
MCConfigs ==
  {[auto |-> TRUE, fallbacks |-> <<"coder">>, load |-> 3, time |-> 0],
   [auto |-> TRUE, fallbacks |-> <<"coder", "kmodel">>, load |-> 2, time |-> 1],
   [auto |-> FALSE, fallbacks |-> <<"coder", "kmodel">>, load |-> 3, time |-> 3]}
=============================================================================
