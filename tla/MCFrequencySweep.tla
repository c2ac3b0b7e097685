-------------------------- MODULE MCFrequencySweep --------------------------
(* Sweeps of no and of three points, the second across the end of the
   range. *)
EXTENDS FrequencySweep

MCSweeps == {<<0, 2, 1>>, <<3, 1, 2>>}
=============================================================================
