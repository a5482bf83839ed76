--------------------------------- MODULE Session ---------------------------------
(***************************************************************************)
(* One call of RunSession for each member of Session, from the dialling of *)
(* the TURN server to the last deferred Close, with the goroutines it      *)
(* starts, and RunPing, which shares its set-up.  The calls compete for    *)
(* handshakeSem.                                                           *)
(***************************************************************************)
EXTENDS Naturals, FiniteSets

CONSTANTS
    Session,        \* the calls of RunSession
    HandshakeMax    \* the capacity of handshakeSem

ASSUME SessionAssumption == IsFiniteSet(Session)
ASSUME HandshakeAssumption == HandshakeMax \in Nat \ {0}

Modes == {"direct", "rawDirect", "classic", "ping"}
RelayGoroutines == {"relayIn", "relayOut"}
ProxyGoroutines == {"writer", "reader", "keepalive"}
Goroutines ==
    RelayGoroutines \cup ProxyGoroutines \cup {"binding", "disconnect"}

VARIABLES
    mode,        \* the transport (WrapKey is always there), or a -ping
    stopped,     \* the context of the client is done
    feeding,     \* readLoop runs
    sem,         \* the tokens in handshakeSem
    active,      \* stats.ActiveConnections
    registered,  \* the sessions whose slot the dispatcher has
    pc,          \* where each call is
    cancelled,   \* sessCancel was called
    live,        \* the goroutines of the call that run
    armed,       \* its context.AfterFuncs that have neither run nor been stopped
    queued,      \* something lies in PrioCh or SendCh of its slot
    writerAt,    \* its Writer is in its loop, or drains the channels
    readerAt,    \* where its Reader is
    deadline,    \* the read deadline of activeConn, while the Reader reads it
    closed       \* what can no longer be read: its pipes, its relay

procVars == <<mode, stopped, feeding>>
sharedVars == <<sem, active, registered>>
writerVars == <<queued, writerAt>>
callVars == <<pc, cancelled, live, armed, readerAt, deadline, closed>>
vars == <<procVars, sharedVars, writerVars, callVars>>

Direct == mode \in {"direct", "rawDirect"}
RawMode == mode = "rawDirect"
CtxDone(s) == stopped \/ cancelled[s]

GoesTo(s, place) == pc' = [pc EXCEPT ![s] = place]
Ends(s, g) == live' = [live EXCEPT ![s] = @ \ {g}]
Cancel(s) == cancelled' = [cancelled EXCEPT ![s] = TRUE]

Init ==
    /\ mode \in Modes
    /\ stopped = FALSE /\ feeding = (mode # "ping")
    /\ sem = 0 /\ active = 0 /\ registered = {}
    /\ pc = [s \in Session |-> "idle"]
    /\ cancelled = [s \in Session |-> FALSE]
    /\ live = [s \in Session |-> {}]
    /\ armed = [s \in Session |-> {}]
    /\ queued = [s \in Session |-> FALSE]
    /\ writerAt = [s \in Session |-> "loop"]
    /\ readerAt = [s \in Session |-> "top"]
    /\ deadline = [s \in Session |-> "none"]
    /\ closed = [s \in Session |-> {}]

-------------------------------------------------------------------------------
(* The environment.                                                        *)
Stop ==
    /\ ~stopped
    /\ stopped' = TRUE
    /\ UNCHANGED <<mode, feeding, sharedVars, writerVars, callVars>>

(* readLoop sees that the client stops; that it does is Uplink's.          *)
ReadLoopEnds ==
    /\ feeding /\ stopped
    /\ feeding' = FALSE
    /\ UNCHANGED <<mode, stopped, sharedVars, writerVars, callVars>>

-------------------------------------------------------------------------------
(* The set-up.                                                             *)

(* No TURN URL, a malformed one, or no connection: nothing is left behind. *)
(* The pings of a process follow each other.                               *)
Dial(s) ==
    /\ pc[s] = "idle"
    /\ mode = "ping" => \A other \in Session : pc[other] \in {"idle", "returned"}
    /\ GoesTo(s, IF mode = "ping" THEN "allocate" ELSE "gate") \/ GoesTo(s, "returned")
    /\ UNCHANGED <<procVars, sharedVars, writerVars, cancelled, live, armed, readerAt, deadline, closed>>

(* A tick of the group's allocateTicker.                                   *)
PassGate(s) ==
    /\ pc[s] = "gate"
    /\ GoesTo(s, "allocate")
    /\ UNCHANGED <<procVars, sharedVars, writerVars, cancelled, live, armed, readerAt, deadline, closed>>

LeaveGate(s) ==
    /\ pc[s] = "gate" /\ stopped
    /\ GoesTo(s, "returned")
    /\ UNCHANGED <<procVars, sharedVars, writerVars, cancelled, live, armed, readerAt, deadline, closed>>

AllocateFails(s) ==
    /\ pc[s] = "allocate"
    /\ GoesTo(s, "returned")
    /\ UNCHANGED <<procVars, sharedVars, writerVars, cancelled, live, armed, readerAt, deadline, closed>>

(* The goroutines that are started with the relay.                         *)
Allocate(s) ==
    /\ pc[s] = "allocate"
    /\ live' = [live EXCEPT ![s] =
                   (IF mode = "ping" THEN {} ELSE {"binding"})
                       \cup (IF Direct THEN {} ELSE RelayGoroutines)]
    /\ armed' = [armed EXCEPT ![s] = IF mode = "classic" THEN {"relay"} ELSE {}]
    /\ active' = IF Direct THEN active + 1 ELSE active
    /\ GoesTo(s, IF Direct THEN "ask" ELSE "certificate")
    /\ UNCHANGED <<procVars, writerVars, sem, registered, cancelled, readerAt, deadline, closed>>

Certificate(s) ==
    /\ pc[s] = "certificate"
    /\ \/ GoesTo(s, IF mode = "ping" THEN "client" ELSE "sem")
       \/ GoesTo(s, "closePipes")
    /\ UNCHANGED <<procVars, sharedVars, writerVars, cancelled, live, armed, readerAt, deadline, closed>>

(* Mutant: the channel does not hold anybody back.                         *)
AcquireUnbounded(s) ==
    /\ pc[s] = "sem"
    /\ sem' = sem + 1
    /\ GoesTo(s, "client")
    /\ UNCHANGED <<procVars, writerVars, active, registered, cancelled, live, armed,
                   readerAt, deadline, closed>>

Acquire(s) ==
    /\ pc[s] = "sem"
    /\ sem < HandshakeMax /\ sem' = sem + 1
    /\ GoesTo(s, "client")
    /\ UNCHANGED <<procVars, writerVars, active, registered, cancelled, live, armed,
                   readerAt, deadline, closed>>

GiveUpSem(s) ==
    /\ pc[s] = "sem" /\ CtxDone(s)
    /\ GoesTo(s, "closePipes")
    /\ UNCHANGED <<procVars, sharedVars, writerVars, cancelled, live, armed, readerAt, deadline, closed>>

Release == sem' = IF mode = "ping" THEN sem ELSE sem - 1

(* Mutant: the token is kept when dtls.Client fails.                       *)
ClientFailsHolding(s) ==
    /\ pc[s] = "client"
    /\ GoesTo(s, "closePipes")
    /\ UNCHANGED <<procVars, sharedVars, writerVars, cancelled, live, armed, readerAt, deadline, closed>>

(* dtls.Client refuses its parameters.                                     *)
ClientFails(s) ==
    /\ pc[s] = "client"
    /\ Release
    /\ GoesTo(s, "closePipes")
    /\ UNCHANGED <<procVars, writerVars, active, registered, cancelled, live, armed,
                   readerAt, deadline, closed>>

ClientMade(s) ==
    /\ pc[s] = "client"
    /\ GoesTo(s, "handshake")
    /\ UNCHANGED <<procVars, sharedVars, writerVars, cancelled, live, armed, readerAt, deadline, closed>>

(* HandshakeContext ends within its time-out, well or not; RunPing has     *)
(* what it wants.                                                          *)
HandshakeDone(s) ==
    /\ pc[s] = "handshake" /\ mode # "ping"
    /\ Release
    /\ active' = active + 1
    /\ GoesTo(s, "ask")
    /\ UNCHANGED <<procVars, writerVars, registered, cancelled, live, armed, readerAt, deadline, closed>>

HandshakeFails(s) ==
    /\ pc[s] = "handshake"
    /\ Release
    /\ GoesTo(s, "closePipes")
    /\ UNCHANGED <<procVars, writerVars, active, registered, cancelled, live, armed,
                   readerAt, deadline, closed>>

(* The request for the configuration, or AUTH: its answer, whatever it is, *)
(* or its time-out lets the session go on, but for FATAL_AUTH.             *)
Ask(s) ==
    /\ pc[s] = "ask"
    /\ GoesTo(s, "register") \/ GoesTo(s, "closeConn")
    /\ deadline' = [deadline EXCEPT ![s] = "none"]
    /\ UNCHANGED <<procVars, sharedVars, writerVars, cancelled, live, armed, readerAt, closed>>

Setup(s) ==
    \/ Dial(s) \/ PassGate(s) \/ LeaveGate(s)
    \/ AllocateFails(s) \/ Allocate(s)
    \/ Certificate(s) \/ Acquire(s) \/ GiveUpSem(s)
    \/ ClientFails(s) \/ ClientMade(s) \/ HandshakeDone(s) \/ HandshakeFails(s)
    \/ Ask(s)

-------------------------------------------------------------------------------
(* The life of a registered session.                                       *)
Register(s) ==
    /\ pc[s] = "register"
    /\ registered' = registered \cup {s}
    /\ armed' = [armed EXCEPT ![s] = @ \cup {"conn"}]
    /\ live' = [live EXCEPT ![s] =
                   @ \cup ProxyGoroutines \cup (IF RawMode THEN {"disconnect"} ELSE {})]
    /\ GoesTo(s, "run")
    /\ UNCHANGED <<procVars, writerVars, sem, active, cancelled, readerAt, deadline, closed>>

(* Mutant: pipeA gets no deadline.                                         *)
RelayDeadlineOneSide(s) ==
    /\ "relay" \in armed[s] /\ CtxDone(s)
    /\ armed' = [armed EXCEPT ![s] = @ \ {"relay"}]
    /\ closed' = [closed EXCEPT ![s] = @ \cup {"relay"}]
    /\ UNCHANGED <<procVars, sharedVars, writerVars, pc, cancelled, live, readerAt, deadline>>

(* The AfterFuncs: the deadlines of relay and pipeA, which nobody sets     *)
(* again, and the deadline of activeConn, which the Reader may.            *)
RelayDeadline(s) ==
    /\ "relay" \in armed[s] /\ CtxDone(s)
    /\ armed' = [armed EXCEPT ![s] = @ \ {"relay"}]
    /\ closed' = [closed EXCEPT ![s] = @ \cup {"relay", "pipes"}]
    /\ UNCHANGED <<procVars, sharedVars, writerVars, pc, cancelled, live, readerAt, deadline>>

ConnDeadline(s) ==
    /\ "conn" \in armed[s] /\ CtxDone(s)
    /\ armed' = [armed EXCEPT ![s] = @ \ {"conn"}]
    /\ deadline' = [deadline EXCEPT ![s] = IF "reader" \in live[s] THEN "now" ELSE @]
    /\ UNCHANGED <<procVars, sharedVars, writerVars, pc, cancelled, live, readerAt, closed>>

(* A relay goroutine leaves on an error of what it reads or writes, which  *)
(* the network may cause at any time and a Close or deadline does cause.   *)
RelayGoroutineEnds(s, g) ==
    /\ g \in live[s]
    /\ Ends(s, g) /\ Cancel(s)
    /\ UNCHANGED <<procVars, sharedVars, writerVars, pc, armed, readerAt, deadline, closed>>

RelayCut(s, g) ==
    /\ \/ g = "relayIn" /\ "relay" \in closed[s]
       \/ g = "relayOut" /\ "pipes" \in closed[s]
    /\ RelayGoroutineEnds(s, g)

(* The goroutines of the binding requests and of the keepalive wait for    *)
(* the context and a ticker.                                               *)
SeesDone(s, g) ==
    /\ g \in live[s] \cap {"binding", "keepalive"} /\ CtxDone(s)
    /\ Ends(s, g)
    /\ UNCHANGED <<procVars, sharedVars, writerVars, pc, cancelled, armed, readerAt,
                   deadline, closed>>

(* DISCONNECT_RAW is written when the client stops, if the select does not *)
(* take the context of the session, which is done as well.                 *)
Disconnect(s) ==
    /\ "disconnect" \in live[s] /\ CtxDone(s)
    /\ Ends(s, "disconnect")
    /\ UNCHANGED <<procVars, sharedVars, writerVars, pc, cancelled, armed, readerAt, deadline, closed>>

-------------------------------------------------------------------------------
(* The Writer.  It looks at the context only when it finds PrioCh empty,   *)
(* and drains both channels before it leaves, while readLoop may go on to  *)
(* fill them; a write ends by its deadline of 3 seconds.  The queues       *)
(* themselves are Uplink's.                                                *)

(* readLoop, or the keepalive, puts a packet into a channel of the slot.   *)
Feed(s) ==
    /\ s \in registered /\ "writer" \in live[s] /\ ~queued[s]
    /\ feeding \/ "keepalive" \in live[s]
    /\ queued' = [queued EXCEPT ![s] = TRUE]
    /\ UNCHANGED <<procVars, sharedVars, writerAt, callVars>>

Takes(s) ==
    /\ "writer" \in live[s] /\ queued[s]
    /\ queued' = [queued EXCEPT ![s] = FALSE]
    /\ UNCHANGED <<procVars, sharedVars, callVars>>

WriterTakes(s) == writerAt[s] = "loop" /\ Takes(s) /\ UNCHANGED writerAt

WriteFails(s) ==
    /\ writerAt[s] = "loop" /\ Takes(s)
    /\ writerAt' = [writerAt EXCEPT ![s] = "drain"]

WriterSeesDone(s) ==
    /\ "writer" \in live[s] /\ writerAt[s] = "loop" /\ CtxDone(s)
    /\ writerAt' = [writerAt EXCEPT ![s] = "drain"]
    /\ UNCHANGED <<procVars, sharedVars, queued, callVars>>

WriterDrains(s) == writerAt[s] = "drain" /\ Takes(s) /\ UNCHANGED writerAt

WriterExits(s) ==
    /\ "writer" \in live[s] /\ writerAt[s] = "drain" /\ ~queued[s]
    /\ writerAt' = [writerAt EXCEPT ![s] = "loop"]
    /\ Ends(s, "writer") /\ Cancel(s)
    /\ UNCHANGED <<procVars, sharedVars, queued, pc, armed, readerAt, deadline, closed>>

Writer(s) ==
    \/ WriterTakes(s) \/ WriteFails(s) \/ WriterSeesDone(s)
    \/ WriterDrains(s) \/ WriterExits(s)

-------------------------------------------------------------------------------
(* The Reader.                                                             *)
Read(s) ==
    /\ "reader" \in live[s] /\ readerAt[s] = "top"
    /\ deadline' = [deadline EXCEPT ![s] = "far"]
    /\ readerAt' = [readerAt EXCEPT ![s] = "read"]
    /\ UNCHANGED <<procVars, sharedVars, writerVars, pc, cancelled, live, armed, closed>>

Reading(s) == "reader" \in live[s] /\ readerAt[s] = "read"

ReaderAt(s, place) ==
    /\ readerAt' = [readerAt EXCEPT ![s] = place]
    /\ UNCHANGED <<procVars, sharedVars, writerVars, pc, cancelled, live, armed, deadline, closed>>

ReaderEnds(s) ==
    /\ readerAt' = [readerAt EXCEPT ![s] = "top"]
    /\ deadline' = [deadline EXCEPT ![s] = "over"]
    /\ Ends(s, "reader") /\ Cancel(s)
    /\ UNCHANGED <<procVars, sharedVars, writerVars, pc, armed, closed>>

Arrives(s) == Reading(s) /\ (Direct \/ "relayIn" \in live[s])

(* The one byte that answers a keepalive is skipped: the next Read follows *)
(* without a look at the context.                                          *)
ReadAnswer(s) == Arrives(s) /\ ReaderAt(s, "top")

ReadPacket(s) == Arrives(s) /\ ReaderAt(s, "offer")

Offering(s) == "reader" \in live[s] /\ readerAt[s] = "offer"

(* The select of the offer: the packet is taken, or dropped when ReturnCh  *)
(* is full, or the end of the session is seen.                             *)
Offered(s) == Offering(s) /\ ReaderAt(s, "top")

OfferSeesDone(s) == Offering(s) /\ CtxDone(s) /\ ReaderEnds(s)

(* Mutant: a time-out never ends the Reader.                               *)
ReadTimesOutAgain(s) == Reading(s) /\ deadline[s] = "far" /\ ReaderAt(s, "top")

(* The 30 minutes are over.                                                *)
ReadTimesOut(s) ==
    /\ Reading(s) /\ deadline[s] = "far"
    /\ IF CtxDone(s) THEN ReaderEnds(s) ELSE ReaderAt(s, "top")

(* The deadline set by the AfterFunc, which runs when the session is over. *)
ReadCutShort(s) == Reading(s) /\ deadline[s] = "now" /\ ReaderEnds(s)

ReadFails(s) == Reading(s) /\ ReaderEnds(s)

-------------------------------------------------------------------------------
(* The end: the waits, then the deferred calls, last registered first.     *)
ProxyWait(s) ==
    /\ pc[s] = "run" /\ live[s] \cap ProxyGoroutines = {}
    /\ Cancel(s)
    /\ GoesTo(s, "join")
    /\ UNCHANGED <<procVars, sharedVars, writerVars, live, armed, readerAt, deadline, closed>>

(* Mutant: relayWg is not waited for.                                      *)
JoinBindingOnly(s) ==
    /\ pc[s] = "join" /\ "binding" \notin live[s]
    /\ GoesTo(s, "closeConn")
    /\ UNCHANGED <<procVars, sharedVars, writerVars, cancelled, live, armed, readerAt, deadline, closed>>

(* relayWg.Wait and sessionWg.Wait.                                        *)
Join(s) ==
    /\ pc[s] = "join" /\ live[s] \cap (RelayGoroutines \cup {"binding"}) = {}
    /\ GoesTo(s, "closeConn")
    /\ UNCHANGED <<procVars, sharedVars, writerVars, cancelled, live, armed, readerAt, deadline, closed>>

(* stopConn, Unregister, ActiveConnections, activeConn.Close.              *)
CloseConn(s) ==
    /\ pc[s] = "closeConn"
    /\ armed' = [armed EXCEPT ![s] = @ \ {"conn"}]
    /\ registered' = registered \ {s}
    /\ active' = active - 1
    /\ GoesTo(s, IF Direct THEN "closeRelay" ELSE "closePipes")
    /\ UNCHANGED <<procVars, writerVars, sem, cancelled, live, readerAt, deadline, closed>>

(* stopRelay, pipeB.Close, pipeA.Close.                                    *)
ClosePipes(s) ==
    /\ pc[s] = "closePipes"
    /\ armed' = [armed EXCEPT ![s] = @ \ {"relay"}]
    /\ closed' = [closed EXCEPT ![s] = @ \cup {"pipes"}]
    /\ GoesTo(s, "closeRelay")
    /\ UNCHANGED <<procVars, sharedVars, writerVars, cancelled, live, readerAt, deadline>>

(* sessCancel, relay.Close, tc.Close, turnConn.Close.                      *)
CloseRelay(s) ==
    /\ pc[s] = "closeRelay"
    /\ Cancel(s)
    /\ closed' = [closed EXCEPT ![s] = @ \cup {"relay"}]
    /\ GoesTo(s, "returned")
    /\ UNCHANGED <<procVars, sharedVars, writerVars, live, armed, readerAt, deadline>>

Leave(s) == ProxyWait(s) \/ Join(s) \/ CloseConn(s) \/ ClosePipes(s) \/ CloseRelay(s)

Runs(s) ==
    \/ Register(s)
    \/ RelayDeadline(s) \/ ConnDeadline(s)
    \/ \E g \in RelayGoroutines : RelayGoroutineEnds(s, g) \/ RelayCut(s, g)
    \/ \E g \in Goroutines : SeesDone(s, g)
    \/ Disconnect(s)
    \/ Feed(s) \/ Writer(s)
    \/ Read(s) \/ ReadAnswer(s) \/ ReadPacket(s)
    \/ Offered(s) \/ OfferSeesDone(s)
    \/ ReadTimesOut(s) \/ ReadCutShort(s) \/ ReadFails(s)

Next == Stop \/ ReadLoopEnds \/ \E s \in Session : Setup(s) \/ Runs(s) \/ Leave(s)

(* Every wait of the set-up has a time-out, but for the gate, which the    *)
(* ticker opens.  A goroutine that can go on does, and the Writer with it, *)
(* which need not leave while it is fed.  The select of an offer that may  *)
(* see the context sees it if it is asked again and again: select picks    *)
(* among the cases that are ready.  Nothing need arrive, and neither the   *)
(* network nor the client need fail or stop.                               *)
Fairness ==
    /\ WF_vars(ReadLoopEnds)
    /\ \A s \in Session :
          /\ WF_vars(Setup(s) /\ pc[s] # "idle")
          /\ WF_vars(Register(s)) /\ WF_vars(Leave(s))
          /\ WF_vars(RelayDeadline(s)) /\ WF_vars(ConnDeadline(s))
          /\ \A g \in RelayGoroutines : WF_vars(RelayCut(s, g))
          /\ \A g \in Goroutines : WF_vars(SeesDone(s, g))
          /\ WF_vars(Disconnect(s))
          /\ WF_vars(Writer(s))
          /\ WF_vars(Read(s) \/ Offered(s))
          /\ SF_vars(OfferSeesDone(s))
          /\ WF_vars(ReadTimesOut(s)) /\ WF_vars(ReadCutShort(s))

Spec == Init /\ [][Next]_vars /\ Fairness

-------------------------------------------------------------------------------
(* The types of the variables.                                             *)
TypeOK ==
    /\ mode \in Modes
    /\ stopped \in BOOLEAN /\ feeding \in BOOLEAN
    /\ sem \in 0..HandshakeMax
    /\ active \in 0..Cardinality(Session)
    /\ registered \subseteq Session
    /\ pc \in [Session -> {"idle", "gate", "allocate", "certificate", "sem", "client",
                           "handshake", "ask", "register", "run", "join", "closeConn",
                           "closePipes", "closeRelay", "returned"}]
    /\ cancelled \in [Session -> BOOLEAN]
    /\ live \in [Session -> SUBSET Goroutines]
    /\ armed \in [Session -> SUBSET {"relay", "conn"}]
    /\ queued \in [Session -> BOOLEAN]
    /\ writerAt \in [Session -> {"loop", "drain"}]
    /\ readerAt \in [Session -> {"top", "read", "offer"}]
    /\ deadline \in [Session -> {"none", "far", "now", "over"}]
    /\ closed \in [Session -> SUBSET {"relay", "pipes"}]

(* Whatever way a call takes out of RunSession, it gives back what it took: *)
(* its place in handshakeSem (session.go:398, 415, 423), its count in      *)
(* ActiveConnections and its slot in the dispatcher.                       *)
GivesBack ==
    /\ mode # "ping" =>
          sem = Cardinality({s \in Session : pc[s] \in {"client", "handshake"}})
    /\ active = Cardinality({s \in Session :
                    pc[s] \in {"ask", "register", "run", "join", "closeConn"}})
    /\ \A s \in registered : pc[s] \in {"run", "join", "closeConn"}

(* A session that ran closes pipes and relay only after the goroutines     *)
(* that use them are gone; only the goroutine of DISCONNECT_RAW, which     *)
(* nobody waits for (session.go:516), may be left.                         *)
ClosedWhenQuiet ==
    \A s \in Session :
        (deadline[s] = "over" /\ pc[s] \in {"closeConn", "closePipes", "closeRelay", "returned"})
            => live[s] \subseteq {"disconnect"}

Over(s) == pc[s] = "returned" /\ live[s] = {}

(* A Reader that is answered for ever never asks for the context           *)
(* (session.go:642).                                                       *)
Answered(s) == []<><<ReadAnswer(s)>>_vars

(* After a stop every call returns and no goroutine outlives it for good,  *)
(* although the Reader may overwrite the deadline that should end it       *)
(* (session.go:506, 628) with its own and readLoop feeds the Writer until  *)
(* it sees the stop: on the early returns, which wait for nobody, the      *)
(* deferred calls end the goroutines, and that of DISCONNECT_RAW ends by   *)
(* itself.  Only answers to keepalives that never cease could prevent it,  *)
(* and with DTLS not even they: the relay is cut.                          *)
SessionStops ==
    \A s \in Session :
        \/ Answered(s) /\ Direct
        \/ []<>(pc[s] = "idle" \/ ~stopped \/ Over(s))

(* A session that is over for itself, while the client goes on, returns as *)
(* well, unless its Writer is fed for ever: it sees the context only when  *)
(* its channels are empty (session.go:590-598), and nothing stops readLoop *)
(* from filling them before Unregister.                                    *)
SessionReturnsUnlessFed ==
    \A s \in Session :
        \/ Answered(s) /\ Direct
        \/ []<>(\/ pc[s] = "idle" \/ ~CtxDone(s) \/ Over(s)
                \/ "writer" \in live[s] /\ queued[s])
===============================================================================
