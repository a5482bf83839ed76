------------------------------ MODULE MCDownlink ------------------------------
(* A small instance of Downlink over NativeTun.                            *)
EXTENDS Downlink
===============================================================================
