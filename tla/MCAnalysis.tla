----------------------------- MODULE MCAnalysis -----------------------------
(* Analysis with three trials, whatever their outcomes, two demo databases *)
(* of two ticks, and up to three runs into one directory.                  *)
EXTENDS Analysis
=============================================================================
