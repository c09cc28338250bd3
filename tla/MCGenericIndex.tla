--------------------------- MODULE MCGenericIndex ---------------------------
(* Instances of GenericIndex for TLC.                                      *)
EXTENDS GenericIndex
=============================================================================
