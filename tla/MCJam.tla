------------------------------- MODULE MCJam -------------------------------
(* Small instances of Jam for TLC. *)
EXTENDS Jam

CONSTANTS h, g

const_All == AllActions
=============================================================================
