-------------------------------- MODULE MCAnswers --------------------------------
(* A small instance of Answers: two links, and all modes of authentication *)
(* and of solving captchas.                                                *)
EXTENDS Answers
===============================================================================
