----------------------------- MODULE MCSessionActor ----------------------------
(* SessionActor on small instances. *)
EXTENDS SessionActor

================================================================================
