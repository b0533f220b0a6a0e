-------------------------- MODULE MCDeviceSampling --------------------------
(* Words at the edges of the bytes, of the flags and of the sign.           *)
EXTENDS DeviceSampling

MCMetric == [l \in 0 .. 1 |-> IF l = 0 THEN "voltage" ELSE "current"]
=============================================================================
