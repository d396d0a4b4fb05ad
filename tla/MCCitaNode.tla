----------------------------- MODULE MCCitaNode -----------------------------
(* Small instances of CitaNode. *)
EXTENDS CitaNode

CONSTANTS i1, i2

OneImage  == {i1}
TwoImages == {i1, i2}
=============================================================================
