--------------------------- MODULE MCCSharpClient ---------------------------
(* A small instance of CSharpClient: the values are in the .cfg file. *)
EXTENDS CSharpClient
=============================================================================
