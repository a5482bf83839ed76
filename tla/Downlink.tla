-------------------------------- MODULE Downlink --------------------------------
(***************************************************************************)
(* The packet path from the relays to the LAN: in every session the Reader *)
(* goroutine, which offers what it reads to the dispatcher's ReturnCh      *)
(* without blocking, and writeLoop, which writes it to the TUN of          *)
(* NativeTun or to the address of the local WireGuard.  The process can    *)
(* stop, crash and be started again at any point.                          *)
(***************************************************************************)
EXTENDS NativeTun, Naturals, FiniteSets, SequencesExt

CONSTANTS
    Session,     \* the sessions whose Readers share ReturnCh
    Buffer,      \* the packet buffers in circulation
    NoBuf,       \* "no buffer in hand"
    ReturnCap    \* returnChBuf

ASSUME DownBufferAssumption == NoBuf \notin Buffer
ASSUME DownCapAssumption == ReturnCap \in Nat \ {0}

VARIABLES
    rdr,       \* where each Reader is
    rpkt,      \* the packet it has read
    sessDone,  \* the session's context is done
    returnCh,  \* d.ReturnCh
    wpc,       \* where writeLoop is
    wpkt,      \* its packet
    addr,      \* d.clientAddr is known
    pool       \* the buffers getPktBuf can return

pathVars == <<rdr, rpkt, sessDone, returnCh, wpc, wpkt, addr, pool>>
vars == <<tunVars, pathVars>>

CtxDone(s) == stopped \/ sessDone[s]

Init ==
    /\ TunInit
    /\ rdr = [s \in Session |-> "none"]
    /\ rpkt = [s \in Session |-> NoBuf]
    /\ sessDone = [s \in Session |-> FALSE]
    /\ returnCh = <<>>
    /\ wpc = "wait" /\ wpkt = NoBuf
    /\ addr = FALSE
    /\ pool = Buffer

-------------------------------------------------------------------------------
(* A session reaches the state in which it reads, and later leaves it.     *)
StartReader(s) ==
    /\ alive /\ ~stopped /\ rdr[s] = "none"
    /\ rdr' = [rdr EXCEPT ![s] = "read"]
    /\ sessDone' = [sessDone EXCEPT ![s] = FALSE]
    /\ UNCHANGED <<tunVars, rpkt, returnCh, wpc, wpkt, addr, pool>>

(* Another goroutine of the session cancels it.                            *)
SessionFails(s) ==
    /\ alive /\ rdr[s] # "none" /\ ~sessDone[s]
    /\ sessDone' = [sessDone EXCEPT ![s] = TRUE]
    /\ UNCHANGED <<tunVars, rdr, rpkt, returnCh, wpc, wpkt, addr, pool>>

(* A packet, copied to a buffer of its own.  A keepalive's answer, and the *)
(* timeout of the Read while the context lives, leave everything as it is. *)
ReadPacket(s) ==
    /\ alive /\ rdr[s] = "read"
    /\ \E b \in pool :
          /\ rpkt' = [rpkt EXCEPT ![s] = b]
          /\ pool' = pool \ {b}
    /\ rdr' = [rdr EXCEPT ![s] = "offer"]
    /\ UNCHANGED <<tunVars, sessDone, returnCh, wpc, wpkt, addr>>

ReaderEnds(s) ==
    /\ rdr' = [rdr EXCEPT ![s] = "none"]
    /\ sessDone' = [sessDone EXCEPT ![s] = TRUE]

ReadFails(s) ==
    /\ alive /\ rdr[s] = "read"
    /\ ReaderEnds(s)
    /\ UNCHANGED <<tunVars, rpkt, returnCh, wpc, wpkt, addr, pool>>

Taken(s) ==
    /\ returnCh' = Append(returnCh, rpkt[s])
    /\ rpkt' = [rpkt EXCEPT ![s] = NoBuf]
    /\ rdr' = [rdr EXCEPT ![s] = "read"]
    /\ UNCHANGED <<tunVars, sessDone, wpc, wpkt, addr, pool>>

(* Mutant: the channel grows.                                              *)
OfferUnbounded(s) == alive /\ rdr[s] = "offer" /\ Taken(s)

OfferTaken(s) == alive /\ rdr[s] = "offer" /\ Len(returnCh) < ReturnCap /\ Taken(s)

GiveBack(s) ==
    /\ pool' = pool \cup {rpkt[s]}
    /\ rpkt' = [rpkt EXCEPT ![s] = NoBuf]

OfferCancelled(s) ==
    /\ alive /\ rdr[s] = "offer" /\ CtxDone(s)
    /\ GiveBack(s)
    /\ ReaderEnds(s)
    /\ UNCHANGED <<tunVars, returnCh, wpc, wpkt, addr>>

(* Mutant: the packet is kept for a second try, and a new one is read.     *)
OfferKeeps(s) ==
    /\ alive /\ rdr[s] = "offer" /\ Len(returnCh) = ReturnCap /\ ~CtxDone(s)
    /\ pool' = pool \cup {rpkt[s]}
    /\ rdr' = [rdr EXCEPT ![s] = "read"]
    /\ UNCHANGED <<tunVars, rpkt, sessDone, returnCh, wpc, wpkt, addr>>

(* The default: ReturnCh is full and nothing else is ready.                *)
OfferDropped(s) ==
    /\ alive /\ rdr[s] = "offer" /\ Len(returnCh) = ReturnCap /\ ~CtxDone(s)
    /\ GiveBack(s)
    /\ rdr' = [rdr EXCEPT ![s] = "read"]
    /\ UNCHANGED <<tunVars, sessDone, returnCh, wpc, wpkt, addr>>

Offer(s) == OfferTaken(s) \/ OfferCancelled(s) \/ OfferDropped(s)

Reader(s) ==
    StartReader(s) \/ SessionFails(s) \/ ReadPacket(s) \/ ReadFails(s) \/ Offer(s)

-------------------------------------------------------------------------------
(* writeLoop.                                                              *)
WaitAttached ==
    /\ alive /\ wpc = "wait"
    /\ \/ ready /\ wpc' = "top"
       \/ stopped /\ wpc' = "exit"
    /\ UNCHANGED <<tunVars, rdr, rpkt, sessDone, returnCh, wpkt, addr, pool>>

TakeReturned ==
    /\ alive /\ wpc = "top" /\ returnCh # <<>>
    /\ wpkt' = Head(returnCh)
    /\ returnCh' = Tail(returnCh)
    /\ wpc' = "write"
    /\ UNCHANGED <<tunVars, rdr, rpkt, sessDone, addr, pool>>

SeesStop ==
    /\ alive /\ wpc = "top" /\ stopped
    /\ wpc' = "exit"
    /\ UNCHANGED <<tunVars, rdr, rpkt, sessDone, returnCh, wpkt, addr, pool>>

PutWritten(next) ==
    /\ alive /\ wpc = "write"
    /\ wpc' = next
    /\ wpkt' = NoBuf
    /\ pool' = pool \cup {wpkt}
    /\ UNCHANGED <<tunVars, rdr, rpkt, sessDone, returnCh, addr>>

(* Written to the open TUN or to the known address; without an address the *)
(* packet is discarded.                                                    *)
Write == (mode = "rawtun" => fd) /\ PutWritten("top")

(* Mutant: a write error ends the loop although the client goes on.        *)
WriteErrorEnds == (mode = "wg" => addr) /\ PutWritten("exit")

(* An error ends the loop only when the client is stopping.                *)
WriteError ==
    /\ mode = "wg" => addr
    /\ PutWritten(IF stopped THEN "exit" ELSE "top")

WriteLoop == WaitAttached \/ TakeReturned \/ SeesStop \/ Write \/ WriteError

(* readLoop stores the address the local WireGuard sends from.             *)
LearnAddr ==
    /\ alive /\ mode = "wg" /\ ~addr
    /\ addr' = TRUE
    /\ UNCHANGED <<tunVars, rdr, rpkt, sessDone, returnCh, wpc, wpkt, pool>>

-------------------------------------------------------------------------------
(* Shutdown waits for writeLoop.  The process's memory goes with it.       *)
ProcessEnds ==
    /\ Dies
    /\ rdr' = [s \in Session |-> "none"]
    /\ rpkt' = [s \in Session |-> NoBuf]
    /\ sessDone' = [s \in Session |-> FALSE]
    /\ returnCh' = <<>>
    /\ wpc' = "wait" /\ wpkt' = NoBuf
    /\ addr' = FALSE
    /\ pool' = Buffer

Exits == MayExit /\ wpc = "exit" /\ ProcessEnds
Crashes == ProcessEnds
Restarts == Respawns /\ UNCHANGED pathVars

Next ==
    \/ Device /\ UNCHANGED pathVars
    \/ \E s \in Session : Reader(s)
    \/ WriteLoop \/ LearnAddr
    \/ Exits \/ Crashes \/ Restarts

(* The goroutines run, the commands end, and a select does not pass over   *)
(* one of two ready channels for ever.  Nothing makes a packet or a        *)
(* configuration come, or procd start the service again.                   *)
Fairness ==
    /\ DeviceFairness /\ WF_vars(WriteLoop) /\ SF_vars(SeesStop) /\ WF_vars(Exits)
    /\ \A s \in Session : WF_vars(Offer(s))

Spec == Init /\ [][Next]_vars /\ Fairness

-------------------------------------------------------------------------------
(* Every variable keeps its type.                                          *)
TypeOK ==
    /\ TunTypeOK
    /\ rdr \in [Session -> {"none", "read", "offer"}]
    /\ rpkt \in [Session -> Buffer \cup {NoBuf}]
    /\ sessDone \in [Session -> BOOLEAN]
    /\ returnCh \in Seq(Buffer) /\ Len(returnCh) <= ReturnCap
    /\ wpc \in {"wait", "top", "write", "exit"} /\ wpkt \in Buffer \cup {NoBuf}
    /\ addr \in BOOLEAN /\ pool \in SUBSET Buffer

(* The buffers' life as PacketBuffer describes it: Downlink implements it, *)
(* its Readers being the producers and writeLoop the consumer, and nothing *)
(* of a buffer is lost or held twice.                                      *)
Owners(b) ==
    {"pool" : p \in pool \cap {b}}
    \cup {"producer" : s \in {t \in Session : rpkt[t] = b}}
    \cup {"queue" : q \in ToSet(returnCh) \cap {b}}
    \cup {"consumer" : p \in {wpkt} \cap {b}}
whoHolds == [b \in Buffer |->
    IF Cardinality(Owners(b)) = 1 THEN CHOOSE o \in Owners(b) : TRUE ELSE "shared"]
PB == INSTANCE PacketBuffer WITH holder <- whoHolds
DownlinkBufferLife == PB!Spec

(* The downlink keeps moving: a Reader that has a packet goes on (the      *)
(* comment at session.go:646), however long writeLoop waits for the TUN,   *)
(* and what ReturnCh accepted is written while the client runs, since a    *)
(* write error does not end the loop.                                      *)
DownlinkFlows ==
    /\ \A s \in Session : rdr[s] = "offer" ~> rdr[s] # "offer"
    /\ \A b \in Buffer :
          b \in ToSet(returnCh) /\ ready ~> b \notin ToSet(returnCh) \/ stopped

(* A stop ends the process although readLoop sits in a Read that no packet *)
(* ends: cleanup's "ip link del" wakes it, unless that command fails.      *)
StopEndsProcess == stopped ~> ~alive \/ ~stopped \/ (failed /\ inRead)
===============================================================================
