--------------------------- MODULE MC_RleDecoder ---------------------------
(* Small instances of the run-length decoder for TLC.                      *)
EXTENDS RleDecoder

CONSTANTS v1, v2

\* A numeric column with two distinct values.
NumericValues == {v1, v2}

\* The properties checked against the specification.
=============================================================================
