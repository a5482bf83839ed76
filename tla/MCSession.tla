-------------------------------- MODULE MCSession --------------------------------
(* A small instance of Session: two calls and one place in handshakeSem.   *)
EXTENDS Session

(* The bound: calls compete through the whole set-up and the end, but      *)
(* while one runs, sharing nothing but its count and its slot, the other   *)
(* ones have not begun or are over.                                        *)
RunsAlone ==
    \A s, t \in Session :
        (s # t /\ pc[s] \in {"run", "join"}) => pc[t] = "idle" \/ Over(t)
===============================================================================
