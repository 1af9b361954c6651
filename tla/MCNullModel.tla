---------------------------- MODULE MCNullModel ----------------------------
(* Model values for NullModel.                                             *)
EXTENDS NullModel

CONSTANTS north, south, west

Locations == {north, south, west}
=============================================================================
