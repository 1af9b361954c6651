--------------------------- MODULE MCCheckScript ---------------------------
(* CheckScript needs no model values.                                      *)
EXTENDS CheckScript
=============================================================================
