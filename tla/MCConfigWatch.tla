---------------------------- MODULE MCConfigWatch ----------------------------
(* Model values for the runs of ConfigWatch. *)
EXTENDS ConfigWatch

CONSTANTS g1, g2, b1, absent
=============================================================================
