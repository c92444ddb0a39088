-------------------------- MODULE MCOldRadarClient --------------------------
(* One or two sessions, one loss, one configuration skipped, and a queue that can be full. *)
EXTENDS OldRadarClient
=============================================================================
