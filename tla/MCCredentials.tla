---------------------------- MODULE MCCredentials ----------------------------
(* Small instances of Credentials.  Workers of a group are alike, and so   *)
(* are groups; the constants are in the configurations.                    *)
EXTENDS Credentials
===============================================================================
