-------------------------- MODULE MCTcpRadarClient --------------------------
(* Small instances of TcpRadarClient: the values are in the .cfg files. *)
EXTENDS TcpRadarClient, TLC

\* The threads that send are alike.
SenderSymmetry == Permutations(Senders)
=============================================================================
