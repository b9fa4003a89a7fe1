----------------------------- MODULE MCChatGate -----------------------------
(* ChatGate.cfg is its small instance for TLC: a stream and two other      *)
(* requests for two slots.                                                 *)
EXTENDS ChatGate
=============================================================================
