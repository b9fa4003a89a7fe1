--------------------------- MODULE StickySession ---------------------------
(***************************************************************************)
(* What internal/service promises about the one connection and the one     *)
(* reusable session it shares between requests, as Service.State shows     *)
(* them (service.go 265-284): a session belongs to the connection it was   *)
(* made on and goes with it; a connection or a session is never exchanged  *)
(* for another without being given up first; the remembered model is that  *)
(* of the remembered session.                                              *)
(***************************************************************************)
CONSTANTS Connections, Sessions, Models,
          None  \* in none of the three

VARIABLES connection, session, model

vars == <<connection, session, model>>

Init == connection = None /\ session = None /\ model = None

Connect ==
  /\ connection = None
  /\ connection' \in Connections
  /\ UNCHANGED <<session, model>>

Drop == connection' = None /\ session' = None /\ model' = None

Adopt ==
  /\ connection # None /\ session = None
  /\ session' \in Sessions
  /\ UNCHANGED <<connection, model>>

Learn ==
  /\ session # None
  /\ model' \in Models
  /\ UNCHANGED <<connection, session>>

Forget ==
  /\ session' = None /\ model' = None
  /\ UNCHANGED connection

Next == Connect \/ Drop \/ Adopt \/ Learn \/ Forget

Spec == Init /\ [][Next]_vars
=============================================================================
