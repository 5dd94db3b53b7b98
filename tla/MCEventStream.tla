--------------------------- MODULE MCEventStream ---------------------------
(* One transaction at a time, for the properties of the view. *)
EXTENDS WorkflowEvents
=============================================================================
