--------------------------- MODULE MCThreadedQueue ---------------------------
(* Small instances of ThreadedQueue: the values are in the .cfg files. *)
EXTENDS ThreadedQueue
=============================================================================
