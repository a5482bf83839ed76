------------------------------- MODULE MCUplink -------------------------------
(* Small instances of Uplink.  Workers and buffers are interchangeable.    *)
EXTENDS Uplink

Symmetry == Permutations(Worker) \cup Permutations(Buffer)
===============================================================================
