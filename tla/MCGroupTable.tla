---------------------------- MODULE MCGroupTable ----------------------------
(* GroupTable from a capacity of 2, with hashes that collide at every        *)
(* capacity, and probes that wrap around the end of the table.               *)
EXTENDS GroupTable

CONSTANTS k1, k2, k3, k4

Keys4 == {k1, k2, k3, k4}

Hashes == {0, 7, 11}
=============================================================================
