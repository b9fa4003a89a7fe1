-------------------------- MODULE MCRemoteFallback --------------------------
(* Small instances of RemoteFallback for TLC. *)
EXTENDS RemoteFallback, TLC

\* "Kimi" is another name of "kmodel".
MCNames == {"", "Kimi", "kmodel", "mmodel", "coder"}
MCCanonical == [n \in MCNames |-> IF n = "Kimi" THEN "kmodel" ELSE n]
MCDefaultFallback == <<"kmodel", "mmodel", "coder">>

\* What /v1/models answers.
Listed == {"kmodel", "coder"}

(* Safety, as the documentation has it: a model that /v1/models does not   *)
(* list is never fallen back to (service.go 726-760).                      *)
FallbackListed == \A i \in 2 .. current : attempts[i] \in Listed
=============================================================================
