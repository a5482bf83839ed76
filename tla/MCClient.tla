------------------------------- MODULE MCClient -------------------------------
(* Small instances of Client; the sizes are in the configurations.         *)
EXTENDS Client
===============================================================================
