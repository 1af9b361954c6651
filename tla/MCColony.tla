------------------------------ MODULE MCColony ------------------------------
(* Model values for Colony.                                                *)
EXTENDS Colony

CONSTANTS north, south

Locations == {north, south}
=============================================================================
