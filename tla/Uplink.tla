-------------------------------- MODULE Uplink --------------------------------
(***************************************************************************)
(* The packet path from the TUN (or the local WireGuard socket) to the     *)
(* TURN relays: Dispatcher.readLoop with its chunked round-robin, the      *)
(* Register and Unregister of the sessions' slots, and in every session    *)
(* the Writer goroutine that empties the slot, with the keepalive and the  *)
(* Reader goroutines that run beside it.                                   *)
(*                                                                         *)
(* d.mu is held by readLoop from the moment it looks at d.workers until it *)
(* has placed or dropped the packet, but the Writers do not take it: they  *)
(* drain the channels between two steps of the scan.  So every attempt on  *)
(* one channel is a step of its own.                                       *)
(***************************************************************************)
EXTENDS Integers, FiniteSets, SequencesExt

CONSTANTS
    Worker,     \* the sessions that can own a slot
    Buffer,     \* the packet buffers in circulation (bounds what is in flight)
    NoBuf,      \* "no buffer in hand"
    PktSizes,   \* packet sizes in bytes
    Gaps,       \* milliseconds between two packets handled by readLoop
    SendCap,    \* workerSendBuf
    PrioCap     \* prioBuf

ASSUME BufferAssumption == NoBuf \notin Buffer
ASSUME SizeAssumption == PktSizes \subseteq Nat /\ Gaps \subseteq Nat
ASSUME CapAssumption == SendCap \in Nat \ {0} /\ PrioCap \in Nat \ {0}

VARIABLES
    ready,      \* d.ready is closed
    stopped,    \* the client's context is done (and d.ctx with it)
    workers,    \* d.workers
    rrIndex,    \* d.rrIndex
    rrCount,    \* d.rrCount
    seenPkt,    \* d.lastPktTime > 0
    chunkAge,   \* now - d.chunkStartTs, at most maxDwellMS; Unset while it is 0
    rpc,        \* where readLoop is
    pkt,        \* its packet
    pktSize,    \* and the size of it
    scan,       \* i of the scan over the workers; 0 is the current worker
    sendCh,     \* SendCh of each slot
    prioCh,     \* PrioCh of each slot
    sessDone,   \* sessCancel was called
    helpers,    \* which of the keepalive and Reader goroutines run
    wpc,        \* where the Writer is
    wpkt,       \* its packet
    pool,       \* the buffers getPktBuf can return
    chunkSlot,  \* history: the worker that took the last packet of the open chunk
    chunkOf,    \* history: the chunk size of that packet
    refused,    \* history: the workers whose channel refused this packet
    overtaken   \* history: data packets sent while a priority packet waited

dispVars == <<workers, rrIndex, rrCount, seenPkt, chunkAge>>
readVars == <<rpc, pkt, pktSize, scan>>
sessVars == <<sessDone, helpers, wpc, wpkt>>
histVars == <<chunkSlot, chunkOf, refused, overtaken>>
vars == <<ready, stopped, dispVars, readVars, sendCh, prioCh, sessVars, pool,
          histVars>>

-------------------------------------------------------------------------------
maxDwellMS == 15
pauseMS == 10
prioThreshold == 128
Unset == -1

(* How many consecutive packets of that size go to one worker.             *)
chunkSizeFor(n) ==
    CASE n > 1100 -> 64
      [] n \in 701..1100 -> 24
      [] n \in 301..700 -> 8
      [] n \in 101..300 -> 3
      [] OTHER -> 1

AtMost(bound, n) == IF n < bound THEN n ELSE bound

nw == Len(workers)
Registered == ToSet(workers)
CtxDone(s) == stopped \/ sessDone[s]

(* The slot that attempt i of the scan looks at.                           *)
Slot(i) == workers[(((rrIndex % nw) + i) % nw) + 1]

(* readLoop holds d.mu while it places a packet.                           *)
MuFree == rpc \notin {"prio", "dwell", "send"}

HelperNames == {"keepalive", "reader"}
ReadPcs == {"wait", "top", "read", "lock", "prio", "dwell", "send", "exit"}
WriterPcs == {"check", "select", "write", "drainPrio", "drainSend", "exit"}

Held == {pkt} \cup {wpkt[s] : s \in Worker}
Queued(s) == ToSet(sendCh[s]) \cup ToSet(prioCh[s])

Init ==
    /\ ready = FALSE /\ stopped = FALSE
    /\ workers = <<>> /\ rrIndex = 0 /\ rrCount = 0
    /\ seenPkt = FALSE /\ chunkAge = Unset
    /\ rpc = "wait" /\ pkt = NoBuf /\ pktSize = 0 /\ scan = 0
    /\ sendCh = [s \in Worker |-> <<>>]
    /\ prioCh = [s \in Worker |-> <<>>]
    /\ sessDone = [s \in Worker |-> FALSE]
    /\ helpers = [s \in Worker |-> {}]
    /\ wpc = [s \in Worker |-> "exit"]
    /\ wpkt = [s \in Worker |-> NoBuf]
    /\ pool = Buffer
    /\ chunkSlot = {} /\ chunkOf = 0 /\ refused = {}
    /\ overtaken = [s \in Worker |-> 0]

-------------------------------------------------------------------------------
(* The dispatcher's life: AttachTUN unblocks readLoop once the TUN is up,  *)
(* and a STOP or a signal ends the context everything else derives from.   *)
AttachTUN ==
    /\ ~ready
    /\ ready' = TRUE
    /\ UNCHANGED <<stopped, dispVars, readVars, sendCh, prioCh, sessVars, pool,
                   histVars>>

Stop ==
    /\ ~stopped
    /\ stopped' = TRUE
    /\ UNCHANGED <<ready, dispVars, readVars, sendCh, prioCh, sessVars, pool,
                   histVars>>

-------------------------------------------------------------------------------
(* readLoop.                                                               *)
WaitReady ==
    /\ rpc = "wait"
    /\ \/ ready /\ rpc' = "top"
       \/ stopped /\ rpc' = "exit"
    /\ UNCHANGED <<ready, stopped, dispVars, pkt, pktSize, scan, sendCh, prioCh,
                   sessVars, pool, histVars>>

(* Mutant: the loop does not look at the context.                          *)
LoopTopNoCheck ==
    /\ rpc = "top"
    /\ rpc' = "read"
    /\ UNCHANGED <<ready, stopped, dispVars, pkt, pktSize, scan, sendCh, prioCh,
                   sessVars, pool, histVars>>

LoopTop ==
    /\ rpc = "top"
    /\ rpc' = IF stopped THEN "exit" ELSE "read"
    /\ UNCHANGED <<ready, stopped, dispVars, pkt, pktSize, scan, sendCh, prioCh,
                   sessVars, pool, histVars>>

(* A packet arrives and is copied to a buffer of its own.                  *)
Receive ==
    /\ rpc = "read"
    /\ \E b \in pool, n \in PktSizes :
          /\ pkt' = b /\ pktSize' = n
          /\ pool' = pool \ {b}
    /\ rpc' = "lock"
    /\ UNCHANGED <<ready, stopped, dispVars, scan, sendCh, prioCh, sessVars,
                   histVars>>

(* A read error is slept off, unless the client is stopping.               *)
ReadFails ==
    /\ rpc = "read"
    /\ rpc' = IF stopped THEN "exit" ELSE "top"
    /\ UNCHANGED <<ready, stopped, dispVars, pkt, pktSize, scan, sendCh, prioCh,
                   sessVars, pool, histVars>>

(* History: no chunk is open, or the open chunk is as it was.              *)
ChunkKept ==
    /\ chunkSlot' = IF rrCount' = 0 THEN {} ELSE chunkSlot
    /\ chunkOf' = IF rrCount' = 0 THEN 0 ELSE chunkOf

GiveUpPkt ==
    /\ pool' = pool \cup {pkt}
    /\ pkt' = NoBuf
    /\ pktSize' = 0 /\ scan' = 0
    /\ rpc' = "top"

NoWorkers ==
    /\ rpc = "lock"
    /\ nw = 0
    /\ GiveUpPkt
    /\ UNCHANGED <<ready, stopped, dispVars, sendCh, prioCh, sessVars, histVars>>

(* Lock d.mu; gap milliseconds have passed since the last packet.  A pause *)
(* ends the chunk.                                                         *)
Lock ==
    /\ rpc = "lock"
    /\ nw > 0
    /\ seenPkt' = TRUE
    /\ \E gap \in Gaps :
          IF seenPkt /\ gap > pauseMS
            THEN /\ rrIndex' = (rrIndex + 1) % nw
                 /\ rrCount' = 0
                 /\ chunkAge' = 0
            ELSE /\ chunkAge' = IF chunkAge = Unset THEN Unset
                                ELSE AtMost(maxDwellMS, chunkAge + gap)
                 /\ UNCHANGED <<rrIndex, rrCount>>
    /\ rpc' = IF pktSize <= prioThreshold THEN "prio" ELSE "dwell"
    /\ scan' = 0
    /\ ChunkKept
    /\ UNCHANGED <<ready, stopped, workers, pkt, pktSize, sendCh, prioCh,
                   sessVars, pool, refused, overtaken>>

(* The packet is in a channel: unlock and take the next one.               *)
Placed ==
    /\ pkt' = NoBuf
    /\ pktSize' = 0 /\ scan' = 0
    /\ rpc' = "top"
    /\ refused' = {}

OfferPrio ==
    /\ rpc = "prio"
    /\ Len(prioCh[Slot(scan)]) < PrioCap
    /\ prioCh' = [prioCh EXCEPT ![Slot(scan)] = Append(@, pkt)]
    /\ Placed
    /\ UNCHANGED <<ready, stopped, dispVars, sendCh, sessVars, pool, chunkSlot,
                   chunkOf, overtaken>>

(* The last refusal sends a small packet to the ordinary queue.            *)
PrioRefused ==
    /\ rpc = "prio"
    /\ Len(prioCh[Slot(scan)]) = PrioCap
    /\ refused' = refused \cup {Slot(scan)}
    /\ IF scan + 1 < nw THEN scan' = scan + 1 /\ rpc' = rpc
                        ELSE scan' = 0 /\ rpc' = "dwell"
    /\ UNCHANGED <<ready, stopped, dispVars, pkt, pktSize, sendCh, prioCh,
                   sessVars, pool, chunkSlot, chunkOf, overtaken>>

(* A relay that has held the chunk for maxDwellMS loses it.                *)
CheckDwell ==
    /\ rpc = "dwell"
    /\ chunkAge' = IF chunkAge \in {Unset, maxDwellMS} THEN 0 ELSE chunkAge
    /\ IF chunkAge = maxDwellMS THEN rrIndex' = (rrIndex + 1) % nw /\ rrCount' = 0
                                ELSE UNCHANGED <<rrIndex, rrCount>>
    /\ rpc' = "send"
    /\ refused' = {}
    /\ ChunkKept
    /\ UNCHANGED <<ready, stopped, workers, seenPkt, pkt, pktSize, scan, sendCh,
                   prioCh, sessVars, pool, overtaken>>

SendTo(s) ==
    /\ rpc = "send"
    /\ Len(sendCh[s]) < SendCap
    /\ sendCh' = [sendCh EXCEPT ![s] = Append(@, pkt)]
    /\ Placed
    /\ UNCHANGED <<ready, stopped, workers, seenPkt, prioCh, sessVars, pool,
                   overtaken>>

(* History: the packet belongs to a chunk of s, or has completed one.      *)
ChunkOn(s) ==
    /\ chunkSlot' = IF rrCount' = 0 THEN {} ELSE {s}
    /\ chunkOf' = IF rrCount' = 0 THEN 0 ELSE chunkSizeFor(pktSize)

(* Chunk affinity: the current worker comes first, and keeps the packets   *)
(* until there are chunkSizeFor of them.                                   *)
OfferCurrent ==
    /\ scan = 0
    /\ SendTo(Slot(0))
    /\ IF rrCount + 1 >= chunkSizeFor(pktSize)
         THEN rrIndex' = ((rrIndex % nw) + 1) % nw /\ rrCount' = 0 /\ chunkAge' = 0
         ELSE rrCount' = rrCount + 1 /\ UNCHANGED <<rrIndex, chunkAge>>
    /\ ChunkOn(Slot(0))

(* Another worker has room: a new chunk starts there.                      *)
OfferOther ==
    /\ scan > 0
    /\ SendTo(Slot(scan))
    /\ rrIndex' = ((rrIndex % nw) + scan) % nw
    /\ rrCount' = 1
    /\ chunkAge' = 0
    /\ ChunkOn(Slot(scan))

SendRefused ==
    /\ rpc = "send"
    /\ scan + 1 < nw
    /\ Len(sendCh[Slot(scan)]) = SendCap
    /\ refused' = refused \cup {Slot(scan)}
    /\ scan' = scan + 1
    /\ UNCHANGED <<ready, stopped, dispVars, rpc, pkt, pktSize, sendCh, prioCh,
                   sessVars, pool, chunkSlot, chunkOf, overtaken>>

(* Every worker is overloaded: last is the last attempt of the scan.       *)
DropAfter(last) ==
    /\ rpc = "send"
    /\ scan = last
    /\ Len(sendCh[Slot(scan)]) = SendCap
    /\ refused' = {}
    /\ rrIndex' = ((rrIndex % nw) + 1) % nw
    /\ rrCount' = 0
    /\ GiveUpPkt
    /\ ChunkKept
    /\ UNCHANGED <<ready, stopped, workers, seenPkt, chunkAge, sendCh, prioCh,
                   sessVars, overtaken>>

(* Mutant: the scan stops one worker early.                                *)
DropOneEarly == nw > 1 /\ DropAfter(nw - 2)

(* Mutant: the loop starts over until somebody has room.                   *)
DropRetries ==
    /\ rpc = "send"
    /\ scan = nw - 1
    /\ Len(sendCh[Slot(scan)]) = SendCap
    /\ scan' = 0
    /\ UNCHANGED <<ready, stopped, dispVars, rpc, pkt, pktSize, sendCh, prioCh,
                   sessVars, pool, histVars>>

Drop == DropAfter(nw - 1)

ReadLoop ==
    \/ WaitReady \/ LoopTop \/ Receive \/ ReadFails \/ NoWorkers \/ Lock
    \/ OfferPrio \/ PrioRefused \/ CheckDwell
    \/ OfferCurrent \/ OfferOther \/ SendRefused \/ Drop

-------------------------------------------------------------------------------
(* A session that reached its relay adds its slot and starts its           *)
(* goroutines.                                                             *)
Register(s) ==
    /\ MuFree
    /\ s \notin Registered
    /\ workers' = Append(workers, s)
    /\ helpers' = [helpers EXCEPT ![s] = HelperNames]
    /\ wpc' = [wpc EXCEPT ![s] = "check"]
    /\ UNCHANGED <<ready, stopped, rrIndex, rrCount, seenPkt, chunkAge, readVars,
                   sendCh, prioCh, sessDone, wpkt, pool, histVars>>

(* RunSession returns: all goroutines are over (proxyWg.Wait), the slot is *)
(* taken out, and what was put in its channels after the Writer drained    *)
(* them is garbage, as are the channels: a new session makes new ones.     *)
LeaveSlot(s, over, index, count) ==
    /\ MuFree
    /\ over
    /\ \E i \in DOMAIN workers :
          /\ workers[i] = s
          /\ workers' = RemoveAt(workers, i)
    /\ rrIndex' = index
    /\ rrCount' = count
    /\ pool' = pool \cup Queued(s)
    /\ sendCh' = [sendCh EXCEPT ![s] = <<>>]
    /\ prioCh' = [prioCh EXCEPT ![s] = <<>>]
    /\ sessDone' = [sessDone EXCEPT ![s] = FALSE]
    /\ overtaken' = [overtaken EXCEPT ![s] = 0]
    /\ ChunkKept
    /\ UNCHANGED <<ready, stopped, seenPkt, chunkAge, readVars, helpers, wpc,
                   wpkt, refused>>

GoroutinesOver(s) == helpers[s] = {} /\ wpc[s] = "exit"

IndexWithout == IF rrIndex >= nw - 1 /\ nw - 1 > 0 THEN rrIndex % (nw - 1)
                                                   ELSE rrIndex

(* Mutants: the slot leaves before its goroutines do; the chunk count is   *)
(* kept; the index is kept.                                                *)
UnregisterEarly(s) == LeaveSlot(s, TRUE, IndexWithout, 0)
UnregisterKeepsCount(s) == LeaveSlot(s, GoroutinesOver(s), IndexWithout, rrCount)
UnregisterKeepsIndex(s) == LeaveSlot(s, GoroutinesOver(s), rrIndex, 0)

Unregister(s) == LeaveSlot(s, GoroutinesOver(s), IndexWithout, 0)

(* The Writer: PrioCh first; else whatever comes.                          *)
TakePrio(s) ==
    /\ wpc[s] \in {"check", "select"}
    /\ prioCh[s] # <<>>
    /\ wpkt' = [wpkt EXCEPT ![s] = Head(prioCh[s])]
    /\ prioCh' = [prioCh EXCEPT ![s] = Tail(@)]
    /\ wpc' = [wpc EXCEPT ![s] = "write"]
    /\ overtaken' = [overtaken EXCEPT ![s] = 0]
    /\ UNCHANGED <<ready, stopped, dispVars, readVars, sendCh, sessDone, helpers,
                   pool, chunkSlot, chunkOf, refused>>

(* Mutant: PrioCh is not looked at first.                                  *)
NothingPrioUnchecked(s) ==
    /\ wpc[s] = "check"
    /\ wpc' = [wpc EXCEPT ![s] = "select"]
    /\ UNCHANGED <<ready, stopped, dispVars, readVars, sendCh, prioCh, sessDone,
                   helpers, wpkt, pool, histVars>>

NothingPrio(s) ==
    /\ wpc[s] = "check"
    /\ prioCh[s] = <<>>
    /\ wpc' = [wpc EXCEPT ![s] = "select"]
    /\ UNCHANGED <<ready, stopped, dispVars, readVars, sendCh, prioCh, sessDone,
                   helpers, wpkt, pool, histVars>>

TakeDataReturning(s, B) ==
    /\ wpc[s] = "select"
    /\ sendCh[s] # <<>>
    /\ wpkt' = [wpkt EXCEPT ![s] = Head(sendCh[s])]
    /\ sendCh' = [sendCh EXCEPT ![s] = Tail(@)]
    /\ wpc' = [wpc EXCEPT ![s] = "write"]
    /\ overtaken' = [overtaken EXCEPT ![s] =
                        IF prioCh[s] = <<>> THEN 0 ELSE AtMost(2, @ + 1)]
    /\ pool' = pool \cup B
    /\ UNCHANGED <<ready, stopped, dispVars, readVars, prioCh, sessDone, helpers,
                   chunkSlot, chunkOf, refused>>

(* Mutant: the buffer is put back before it is written.                    *)
TakeDataPutsEarly(s) == TakeDataReturning(s, {Head(sendCh[s])})

TakeData(s) == TakeDataReturning(s, {})

SeesDone(s) ==
    /\ wpc[s] = "select"
    /\ CtxDone(s)
    /\ wpc' = [wpc EXCEPT ![s] = "drainPrio"]
    /\ UNCHANGED <<ready, stopped, dispVars, readVars, sendCh, prioCh, sessDone,
                   helpers, wpkt, pool, histVars>>

(* Mutant: a packet whose write fails goes back to its channel.            *)
WrittenOrRequeued(s) ==
    /\ wpc[s] = "write"
    /\ \/ /\ pool' = pool \cup {wpkt[s]}
          /\ wpc' = [wpc EXCEPT ![s] = "check"]
          /\ sendCh' = sendCh
       \/ /\ sendCh' = [sendCh EXCEPT ![s] = <<wpkt[s]>> \o @]
          /\ wpc' = [wpc EXCEPT ![s] = "drainPrio"]
          /\ pool' = pool
    /\ wpkt' = [wpkt EXCEPT ![s] = NoBuf]
    /\ UNCHANGED <<ready, stopped, dispVars, readVars, prioCh, sessDone, helpers,
                   histVars>>

(* The write succeeds or fails (within its 3 s deadline); the buffer goes  *)
(* back either way.                                                        *)
Written(s) ==
    /\ wpc[s] = "write"
    /\ pool' = pool \cup {wpkt[s]}
    /\ wpkt' = [wpkt EXCEPT ![s] = NoBuf]
    /\ \E next \in {"check", "drainPrio"} : wpc' = [wpc EXCEPT ![s] = next]
    /\ UNCHANGED <<ready, stopped, dispVars, readVars, sendCh, prioCh, sessDone,
                   helpers, histVars>>

DrainPrio(s) ==
    /\ wpc[s] = "drainPrio"
    /\ IF prioCh[s] # <<>>
         THEN /\ pool' = pool \cup {Head(prioCh[s])}
              /\ prioCh' = [prioCh EXCEPT ![s] = Tail(@)]
              /\ wpc' = wpc
         ELSE /\ wpc' = [wpc EXCEPT ![s] = "drainSend"]
              /\ UNCHANGED <<pool, prioCh>>
    /\ UNCHANGED <<ready, stopped, dispVars, readVars, sendCh, sessDone, helpers,
                   wpkt, histVars>>

(* The Writer's exit ends the session.                                     *)
DrainSend(s) ==
    /\ wpc[s] = "drainSend"
    /\ IF sendCh[s] # <<>>
         THEN /\ pool' = pool \cup {Head(sendCh[s])}
              /\ sendCh' = [sendCh EXCEPT ![s] = Tail(@)]
              /\ UNCHANGED <<wpc, sessDone>>
         ELSE /\ wpc' = [wpc EXCEPT ![s] = "exit"]
              /\ sessDone' = [sessDone EXCEPT ![s] = TRUE]
              /\ UNCHANGED <<pool, sendCh>>
    /\ UNCHANGED <<ready, stopped, dispVars, readVars, prioCh, helpers, wpkt,
                   histVars>>

Writer(s) ==
    \/ TakePrio(s) \/ NothingPrio(s) \/ TakeData(s) \/ SeesDone(s) \/ Written(s)
    \/ DrainPrio(s) \/ DrainSend(s)

(* A tick of the keepalive goroutine; a full PrioCh refuses the packet and *)
(* nothing changes.                                                        *)
Keepalive(s) ==
    /\ "keepalive" \in helpers[s]
    /\ Len(prioCh[s]) < PrioCap
    /\ \E b \in pool :
          /\ prioCh' = [prioCh EXCEPT ![s] = Append(@, b)]
          /\ pool' = pool \ {b}
    /\ UNCHANGED <<ready, stopped, dispVars, readVars, sendCh, sessVars, histVars>>

KeepaliveExitsWhen(s, done) ==
    /\ "keepalive" \in helpers[s]
    /\ done
    /\ helpers' = [helpers EXCEPT ![s] = @ \ {"keepalive"}]
    /\ UNCHANGED <<ready, stopped, dispVars, readVars, sendCh, prioCh, sessDone,
                   wpc, wpkt, pool, histVars>>

(* Mutant: the goroutine watches the client's context, not the session's.  *)
KeepaliveExitsOnStop(s) == KeepaliveExitsWhen(s, stopped)

KeepaliveExits(s) == KeepaliveExitsWhen(s, CtxDone(s))

(* The Reader leaves on a read error, or on the deadline that the end of   *)
(* the session sets; its exit ends the session.                            *)
ReaderExits(s) ==
    /\ "reader" \in helpers[s]
    /\ helpers' = [helpers EXCEPT ![s] = @ \ {"reader"}]
    /\ sessDone' = [sessDone EXCEPT ![s] = TRUE]
    /\ UNCHANGED <<ready, stopped, dispVars, readVars, sendCh, prioCh, wpc, wpkt,
                   pool, histVars>>

(* One of the two relay goroutines of the DTLS mode fails.                 *)
RelayFails(s) ==
    /\ s \in Registered
    /\ ~sessDone[s]
    /\ sessDone' = [sessDone EXCEPT ![s] = TRUE]
    /\ UNCHANGED <<ready, stopped, dispVars, readVars, sendCh, prioCh, helpers,
                   wpc, wpkt, pool, histVars>>

Session(s) ==
    \/ Register(s) \/ Unregister(s) \/ Writer(s)
    \/ Keepalive(s) \/ KeepaliveExits(s) \/ ReaderExits(s) \/ RelayFails(s)

Next ==
    \/ AttachTUN \/ Stop \/ ReadLoop
    \/ \E s \in Worker : Session(s)

(* Every goroutine runs: the writes have a deadline, the Reader's Read is  *)
(* ended by the deadline set when the session's context is done, readLoop's*)
(* Read by the close of the socket or the removal of the TUN when the      *)
(* client stops, and sync.Mutex keeps nobody waiting for ever.             *)
Fairness ==
    /\ WF_vars(WaitReady) /\ WF_vars(LoopTop) /\ WF_vars(stopped /\ ReadFails)
    /\ WF_vars(NoWorkers \/ Lock \/ OfferPrio \/ PrioRefused \/ CheckDwell
               \/ OfferCurrent \/ OfferOther \/ SendRefused \/ Drop)
    /\ \A s \in Worker :
          /\ WF_vars(Writer(s))
          /\ WF_vars(KeepaliveExits(s))
          /\ WF_vars(CtxDone(s) /\ ReaderExits(s))
          /\ SF_vars(Unregister(s))

Spec == Init /\ [][Next]_vars /\ Fairness

-------------------------------------------------------------------------------
(* Every variable keeps its type, and no slot is registered twice.         *)
TypeOK ==
    /\ ready \in BOOLEAN /\ stopped \in BOOLEAN /\ seenPkt \in BOOLEAN
    /\ workers \in Seq(Worker) /\ IsInjective(workers)
    /\ rrIndex \in Nat /\ rrCount \in Nat
    /\ chunkAge \in Unset..maxDwellMS
    /\ rpc \in ReadPcs /\ pkt \in Buffer \cup {NoBuf}
    /\ pktSize \in PktSizes \cup {0} /\ scan \in Nat
    /\ sendCh \in [Worker -> Seq(Buffer)] /\ prioCh \in [Worker -> Seq(Buffer)]
    /\ sessDone \in [Worker -> BOOLEAN]
    /\ helpers \in [Worker -> SUBSET HelperNames]
    /\ wpc \in [Worker -> WriterPcs]
    /\ wpkt \in [Worker -> Buffer \cup {NoBuf}]
    /\ pool \in SUBSET Buffer
    /\ chunkSlot \in SUBSET Worker /\ chunkOf \in Nat
    /\ refused \in SUBSET Worker /\ overtaken \in [Worker -> Nat]

(* d.rrIndex names a registered worker whenever there is one: the "% nw"   *)
(* of readLoop never changes it (the safeguard of Unregister).             *)
RRIndexInBounds == IF nw = 0 THEN rrIndex = 0 ELSE rrIndex < nw

(* Within a chunk packets go through one TURN relay: while a chunk is      *)
(* open, the worker that took its last packet is the one the next packet   *)
(* is offered to, whatever registered or unregistered in between.          *)
ChunkAffinity == rrCount > 0 => nw > 0 /\ chunkSlot = {Slot(0)}

(* What dispatcher.go:55 says: chunkSizeFor is how many consecutive        *)
(* packets of a size go to one worker before the next one has its turn.  A *)
(* packet joins an open chunk of its own size only while that has room.    *)
(* It does not hold: a scan opens a chunk with its first packet            *)
(* (dispatcher.go:365) and does not ask whether one is all it may hold.    *)
ChunkSizeKept ==
    [][ /\ rpc = "send" /\ scan = 0 /\ rpc' = "top" /\ pkt \notin pool'
        /\ rrCount > 0 /\ chunkOf = chunkSizeFor(pktSize)
        => rrCount < chunkOf ]_vars

(* A packet buffer is in exactly one place: in the pool, in the hands of   *)
(* one goroutine, or once in one channel.  A buffer returned twice would   *)
(* be filled with a packet while another one is still being sent from it.  *)
Places(b) ==
    {<<"pool">> : p \in pool \cap {b}} \cup {<<"readLoop">> : p \in {pkt} \cap {b}}
    \cup {<<"writer", s>> : s \in {t \in Worker : wpkt[t] = b}}
    \cup UNION {{<<"SendCh", s, i>> : i \in {j \in DOMAIN sendCh[s] : sendCh[s][j] = b}}
                  \cup {<<"PrioCh", s, i>> : i \in {j \in DOMAIN prioCh[s] : prioCh[s][j] = b}}
                : s \in Worker}
BufferInOnePlace == \A b \in Buffer : Cardinality(Places(b)) = 1

(* A priority packet is passed by at most one data packet: the one that    *)
(* the Writer was already selecting when it arrived.                       *)
AckOvertakenOnce == \A s \in Worker : overtaken[s] <= 1

(* Nothing works for, or waits in, a slot that is not registered.          *)
UnregisteredIsQuiet ==
    \A s \in Worker \ Registered :
        /\ helpers[s] = {} /\ wpc[s] = "exit" /\ wpkt[s] = NoBuf
        /\ sendCh[s] = <<>> /\ prioCh[s] = <<>>

(* A small packet goes to the ordinary queue, and any packet is dropped,   *)
(* only after every worker's channel refused it.                           *)
EveryWorkerTried ==
    [][ \/ rpc = "prio" /\ rpc' = "dwell"
        \/ rpc = "send" /\ pkt \in pool'
        => refused \cup {Slot(scan)} = Registered ]_vars

(* readLoop never blocks: once it has a packet, it places or drops it,     *)
(* whatever the Writers do.                                                *)
ReadLoopNeverBlocks == rpc = "lock" ~> rpc = "top"

(* After a STOP the loop ends and every session gives its slot back.       *)
ShutdownCompletes ==
    /\ stopped ~> rpc = "exit"
    /\ \A s \in Worker : stopped /\ s \in Registered ~> s \notin Registered

(* A session that is over gives its slot back, unless packets keep coming: *)
(* the Writer looks at the context only when PrioCh is empty, and its last *)
(* act, the drain, competes with readLoop, which still knows the slot.     *)
SessionEndsUnlessFed ==
    \A s \in Worker : []<>(\/ s \notin Registered \/ ~sessDone[s]
                           \/ prioCh[s] # <<>> \/ sendCh[s] # <<>>)

(* The buffers' life as PacketBuffer describes it.                         *)
whoHolds == [b \in Buffer |->
    CASE b \in pool -> "pool"
      [] b = pkt -> "producer"
      [] \E s \in Worker : wpkt[s] = b -> "consumer"
      [] OTHER -> "queue"]
PB == INSTANCE PacketBuffer WITH holder <- whoHolds
BufferLife == PB!Spec

===============================================================================
