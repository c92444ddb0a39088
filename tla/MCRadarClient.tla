---------------------------- MODULE MCRadarClient ----------------------------
(* Small instances of RadarClient: the values are in the .cfg files. *)
EXTENDS RadarClient
=============================================================================
