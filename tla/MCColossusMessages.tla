------------------------- MODULE MCColossusMessages -------------------------
(* Real header sizes and the real limit of eight sectors; the two limits on *)
(* a payload are scaled down to lie among the sizes the parts can give.     *)
EXTENDS ColossusMessages
=============================================================================
