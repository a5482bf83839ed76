----------------------------- MODULE PacketBuffer -----------------------------
(***************************************************************************)
(* What the packet path promises about every buffer of pktPool: it is held *)
(* by one party at a time and travels one way, from the pool to the        *)
(* goroutine that filled it, to one queue, to the goroutine that writes    *)
(* it out, and back to the pool.  Both directions of the client implement  *)
(* this specification (Uplink and Downlink).                               *)
(***************************************************************************)
CONSTANT Buffer

VARIABLE holder   \* who owns each buffer

Holders == {"pool", "producer", "queue", "consumer"}

TypeOK == holder \in [Buffer -> Holders]

Init == holder = [b \in Buffer |-> "pool"]

Move(b, from, to) ==
    /\ holder[b] = from
    /\ holder' = [holder EXCEPT ![b] = to]

(* A packet arrives and fills a buffer.                                    *)
Get(b) == Move(b, "pool", "producer")

(* The producer hands it to a channel.                                     *)
Publish(b) == Move(b, "producer", "queue")

(* A keepalive is built and handed over in one go.                         *)
Emit(b) == Move(b, "pool", "queue")

(* The single consumer of a channel takes it.                              *)
Take(b) == Move(b, "queue", "consumer")

(* It goes back: written, refused by every queue, or drained.              *)
Put(b) == \E from \in Holders \ {"pool"} : Move(b, from, "pool")

(* A channel becomes garbage together with whatever was left in it.        *)
Reclaim(B) ==
    /\ \A b \in B : holder[b] = "queue"
    /\ holder' = [b \in Buffer |-> IF b \in B THEN "pool" ELSE holder[b]]

(* The process ends, and the next one starts with a pool of its own.       *)
Restart == holder' = [b \in Buffer |-> "pool"]

Next ==
    \/ Restart
    \/ \E b \in Buffer : Get(b) \/ Publish(b) \/ Emit(b) \/ Take(b) \/ Put(b)
    \/ \E B \in SUBSET Buffer : Reclaim(B)

Spec == Init /\ [][Next]_holder
===============================================================================
