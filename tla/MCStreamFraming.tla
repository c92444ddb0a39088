--------------------------- MODULE MCStreamFraming ---------------------------
(***************************************************************************)
(* Small instances of StreamFraming: up to MaxMessages messages with       *)
(* payloads of up to MaxPayload bytes, valid or not, after a signature of  *)
(* a few bytes.  A payload as long as a signature makes the thread        *)
(* resynchronise through more than one window.                             *)
(***************************************************************************)
EXTENDS StreamFraming, SequencesExt

CONSTANTS MaxMessages, MaxPayload

MCWires == BoundedSeq([size : 0 .. MaxPayload, valid : BOOLEAN], MaxMessages)
=============================================================================
