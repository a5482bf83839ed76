--------------------------------- MODULE MCObfs ---------------------------------
(* A small instance of Obfs: the Writer and the goroutine that sends       *)
(* DISCONNECT_RAW, and fields of two and four bits.                        *)
EXTENDS Obfs
===============================================================================
