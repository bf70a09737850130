------------------------------- MODULE MCReadings -------------------------------
(* The widths of the buckets for Readings, a second up to two, then two; and *)
(* the requests, which are all alike.                                          *)
EXTENDS Readings

MCBuckets == <<[span |-> 2, seconds |-> 1], [span |-> 4, seconds |-> 2]>>

Symmetry == Permutations(Tabs)
================================================================================
