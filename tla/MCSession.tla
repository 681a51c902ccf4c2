------------------------------ MODULE MCSession ------------------------------
(* Small instances of Session for TLC. *)
EXTENDS Session, TLC

const_Kinds == {"mini", "web"}
const_Mini == {"mini"}
const_Web == {"web"}

\* Pages and request slots are interchangeable (safety runs only).
Symmetric == Permutations(Tabs) \cup Permutations(Slots)
=============================================================================
