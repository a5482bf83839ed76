-------------------------------- MODULE Client --------------------------------
(***************************************************************************)
(* The client process: main with its signal, stdin and config goroutines,  *)
(* the worker groups it starts in a cascade, and the workers' loops around *)
(* RunSession.  One worker of the first group at a time holds the right to *)
(* ask the server for the tunnel's configuration; the config goroutine     *)
(* takes the answer from configCh and attaches the TUN to the dispatcher.  *)
(*                                                                         *)
(* A session is reduced here to what its callers see: it fails before it   *)
(* is connected, or it asks (if told to), is up, and ends.                 *)
(***************************************************************************)
EXTENDS Integers, FiniteSets, Sequences

CONSTANTS
    NumGroups,      \* numGroups
    GroupSize,      \* workers in each group
    TunFdSock,      \* -tun-fd-sock is given: the TUN comes over a socket
    MaxSignals      \* how many signals are sent (bounds the model)

ASSUME GroupAssumption == NumGroups \in Nat \ {0} /\ GroupSize \in Nat \ {0}
ASSUME TunFdSockAssumption == TunFdSock \in BOOLEAN
ASSUME SignalAssumption == MaxSignals \in Nat

VARIABLES
    exit,       \* whether the process is over, and how
    ctxDone,    \* the root context is cancelled
    sent,       \* signals sent so far
    sig,        \* a signal is in the channel sig
    sigPc,      \* where the signal goroutine is
    stdinOpen,  \* the stdin goroutine reads on
    pauseFlag,  \* Doze-mode pause
    mainPc,     \* what main waits for
    gpc,        \* where each WorkerGroup is
    baton,      \* its signalReady: held by a sleeping goroutine, then passed
    wpc,        \* where each worker is
    getConf,    \* it has the right to ask for the configuration
    delivered,  \* configDelivered of its session
    sessErr,    \* what its session returned
    configSent, configRequestInFlight,
    configCh, configChClosed,
    cpc,        \* where the config goroutine is
    tun,        \* the native TUN and its policy rule
    attached,   \* d.ready is closed
    readPc      \* where the dispatcher's readLoop is

procVars == <<exit, sent, sig, sigPc, stdinOpen, pauseFlag>>
groupVars == <<gpc, baton>>
rightVars == <<configSent, configRequestInFlight>>
workerVars == <<wpc, getConf, delivered, sessErr>>
chanVars == <<configCh, configChClosed>>
tunVars == <<cpc, tun, attached, readPc>>
vars == <<procVars, ctxDone, mainPc, groupVars, workerVars, rightVars, chanVars,
          tunVars>>

Group == 1..NumGroups
Worker == Group \X (1..GroupSize)
GroupOf(w) == w[1]
Workers(g) == {w \in Worker : GroupOf(w) = g}
WorkersOver(g) == \A w \in Workers(g) : wpc[w] = "over"

configChCap == 1

Init ==
    /\ exit = "no" /\ ctxDone = FALSE
    /\ sent = 0 /\ sig = FALSE /\ sigPc = "first"
    /\ stdinOpen = TRUE /\ pauseFlag = FALSE
    /\ mainPc = "wait"
    /\ gpc = [g \in Group |-> IF g = 1 THEN "pause" ELSE "turn"]
    /\ baton = [g \in Group |-> "none"]
    /\ wpc = [w \in Worker |-> "new"]
    /\ getConf = [w \in Worker |-> FALSE]
    /\ delivered = [w \in Worker |-> FALSE]
    /\ sessErr = [w \in Worker |-> "none"]
    /\ configSent = FALSE /\ configRequestInFlight = FALSE
    /\ configCh = <<>> /\ configChClosed = FALSE
    /\ cpc = "select" /\ tun = "none" /\ attached = FALSE /\ readPc = "wait"

-------------------------------------------------------------------------------
(* Signals and stdin.                                                      *)
Signal ==
    /\ sent < MaxSignals
    /\ sent' = sent + 1
    /\ sig' = TRUE
    /\ UNCHANGED <<exit, sigPc, stdinOpen, pauseFlag, ctxDone, mainPc, groupVars,
                   workerVars, rightVars, chanVars, tunVars>>

(* The goroutine waits for a signal and cancels, then waits for another    *)
(* one, each time unless the context is done.                              *)
FirstSignal ==
    /\ sigPc = "first"
    /\ \/ /\ sig
          /\ sig' = FALSE /\ ctxDone' = TRUE /\ sigPc' = "second"
       \/ /\ ctxDone
          /\ sigPc' = "returned"
          /\ UNCHANGED <<sig, ctxDone>>
    /\ UNCHANGED <<exit, sent, stdinOpen, pauseFlag, mainPc, groupVars,
                   workerVars, rightVars, chanVars, tunVars>>

SecondSignal ==
    /\ sigPc = "second"
    /\ \/ /\ sig
          /\ sig' = FALSE /\ exit' = "forced" /\ sigPc' = sigPc
       \/ /\ ctxDone
          /\ sigPc' = "over"
          /\ UNCHANGED <<sig, exit>>
    /\ UNCHANGED <<sent, stdinOpen, pauseFlag, ctxDone, mainPc, groupVars,
                   workerVars, rightVars, chanVars, tunVars>>

(* PAUSE and RESUME; STOP, after which stdin is not read any more.         *)
StdinLine ==
    /\ stdinOpen
    /\ \/ /\ pauseFlag' = ~pauseFlag
          /\ UNCHANGED <<stdinOpen, ctxDone>>
       \/ /\ stdinOpen' = FALSE /\ ctxDone' = TRUE
          /\ UNCHANGED pauseFlag
    /\ UNCHANGED <<exit, sent, sig, sigPc, mainPc, groupVars, workerVars,
                   rightVars, chanVars, tunVars>>

-------------------------------------------------------------------------------
(* WorkerGroup.                                                            *)
(* Mutant: the wait does not look at the context.                          *)
WaitTurnOnly(g) ==
    /\ gpc[g] = "turn"
    /\ baton[g - 1] = "passed"
    /\ gpc' = [gpc EXCEPT ![g] = "pause"]
    /\ UNCHANGED <<procVars, ctxDone, mainPc, baton, workerVars, rightVars,
                   chanVars, tunVars>>

(* Cascaded start: wait for the previous group's signal.                   *)
WaitTurn(g) ==
    /\ gpc[g] = "turn"
    /\ \E next \in {"pause", "over"} :
          /\ IF next = "pause" THEN baton[g - 1] = "passed" ELSE ctxDone
          /\ gpc' = [gpc EXCEPT ![g] = next]
    /\ UNCHANGED <<procVars, ctxDone, mainPc, baton, workerVars, rightVars,
                   chanVars, tunVars>>

WaitResume(g) ==
    /\ gpc[g] = "pause"
    /\ ~pauseFlag \/ ctxDone
    /\ gpc' = [gpc EXCEPT ![g] = IF pauseFlag THEN "over" ELSE "creds"]
    /\ UNCHANGED <<procVars, ctxDone, mainPc, baton, workerVars, rightVars,
                   chanVars, tunVars>>

CredsFail(g) ==
    /\ gpc[g] = "creds"
    /\ gpc' = [gpc EXCEPT ![g] = "over"]
    /\ UNCHANGED <<procVars, ctxDone, mainPc, baton, workerVars, rightVars,
                   chanVars, tunVars>>

(* Credentials in hand: start the workers, and the goroutine that closes   *)
(* signalReady a second later.                                             *)
CredsOK(g) ==
    /\ gpc[g] = "creds"
    /\ gpc' = [gpc EXCEPT ![g] = "run"]
    /\ baton' = [baton EXCEPT ![g] = IF g < NumGroups THEN "held" ELSE "none"]
    /\ wpc' = [w \in Worker |-> IF GroupOf(w) = g THEN "stagger" ELSE wpc[w]]
    /\ UNCHANGED <<procVars, ctxDone, mainPc, getConf, delivered, sessErr,
                   rightVars, chanVars, tunVars>>

HandBaton(g) ==
    /\ baton[g] = "held"
    /\ baton' = [baton EXCEPT ![g] = "passed"]
    /\ UNCHANGED <<procVars, ctxDone, mainPc, gpc, workerVars, rightVars,
                   chanVars, tunVars>>

GroupReturnsWhen(g, over) ==
    /\ gpc[g] = "run"
    /\ over
    /\ gpc' = [gpc EXCEPT ![g] = "over"]
    /\ UNCHANGED <<procVars, ctxDone, mainPc, baton, workerVars, rightVars,
                   chanVars, tunVars>>

(* Mutant: the group does not wait for its workers once it is cancelled.   *)
GroupReturnsEarly(g) == GroupReturnsWhen(g, WorkersOver(g) \/ ctxDone)

GroupReturns(g) == GroupReturnsWhen(g, WorkersOver(g))

WorkerGroup(g) ==
    \/ WaitTurn(g) \/ WaitResume(g) \/ CredsFail(g) \/ CredsOK(g)
    \/ HandBaton(g) \/ GroupReturns(g)

-------------------------------------------------------------------------------
(* The workers.                                                            *)
Goto(w, pc) == wpc' = [wpc EXCEPT ![w] = pc]

(* The first worker of a group starts at once, the others after a delay.   *)
Stagger(w) ==
    /\ wpc[w] = "stagger"
    /\ Goto(w, IF w[2] > 1 /\ ctxDone THEN "over" ELSE "top")
    /\ UNCHANGED <<procVars, ctxDone, mainPc, groupVars, getConf, delivered,
                   sessErr, rightVars, chanVars, tunVars>>

(* The workers of the first group look whether the configuration has been  *)
(* sent; for the others configSent is set from the start.                  *)
LoopTop(w) ==
    /\ wpc[w] = "top"
    /\ Goto(w, IF ctxDone THEN "over"
               ELSE IF GroupOf(w) = 1 /\ ~configSent THEN "claim" ELSE "dial")
    /\ UNCHANGED <<procVars, ctxDone, mainPc, groupVars, getConf, delivered,
                   sessErr, rightVars, chanVars, tunVars>>

ClaimWhen(w, free) ==
    /\ wpc[w] = "claim"
    /\ getConf' = [getConf EXCEPT ![w] = free]
    /\ configRequestInFlight' = TRUE
    /\ Goto(w, "dial")
    /\ UNCHANGED <<procVars, ctxDone, mainPc, groupVars, delivered, sessErr,
                   configSent, chanVars, tunVars>>

(* Mutant: whoever finds the configuration unsent asks.                    *)
ClaimUnchecked(w) == ClaimWhen(w, TRUE)

(* CompareAndSwap(&configRequestInFlight, 0, 1).                           *)
Claim(w) == ClaimWhen(w, ~configRequestInFlight)

(* RunSession returns before it is connected.                              *)
DialFails(w) ==
    /\ wpc[w] = "dial"
    /\ \E e \in {"retry", "fatal"} : sessErr' = [sessErr EXCEPT ![w] = e]
    /\ Goto(w, "return")
    /\ UNCHANGED <<procVars, ctxDone, mainPc, groupVars, getConf, delivered,
                   rightVars, chanVars, tunVars>>

Connected(w) ==
    /\ wpc[w] = "dial"
    /\ Goto(w, IF getConf[w] THEN "ask" ELSE "up")
    /\ UNCHANGED <<procVars, ctxDone, mainPc, groupVars, getConf, delivered,
                   sessErr, rightVars, chanVars, tunVars>>

(* The server denies access for good ...                                   *)
AskDenied(w) ==
    /\ wpc[w] = "ask"
    /\ sessErr' = [sessErr EXCEPT ![w] = "fatal"]
    /\ Goto(w, "return")
    /\ UNCHANGED <<procVars, ctxDone, mainPc, groupVars, getConf, delivered,
                   rightVars, chanVars, tunVars>>

(* ... or has no configuration yet, or does not answer (45 s): the session *)
(* goes on without ...                                                     *)
AskFails(w) ==
    /\ wpc[w] = "ask"
    /\ Goto(w, "up")
    /\ UNCHANGED <<procVars, ctxDone, mainPc, groupVars, getConf, delivered,
                   sessErr, rightVars, chanVars, tunVars>>

(* ... or answers.                                                         *)
AskAnswered(w) ==
    /\ wpc[w] = "ask"
    /\ Goto(w, "deliver")
    /\ UNCHANGED <<procVars, ctxDone, mainPc, groupVars, getConf, delivered,
                   sessErr, rightVars, chanVars, tunVars>>

(* The answer is put in configCh; a full channel counts as delivered too.  *)
Deliver(w) ==
    /\ wpc[w] = "deliver"
    /\ configCh' = IF Len(configCh) < configChCap THEN Append(configCh, w) ELSE configCh
    /\ delivered' = [delivered EXCEPT ![w] = TRUE]
    /\ Goto(w, "up")
    /\ UNCHANGED <<procVars, ctxDone, mainPc, groupVars, getConf, sessErr,
                   rightVars, configChClosed, tunVars>>

(* The session's goroutines end.                                           *)
SessionEnds(w) ==
    /\ wpc[w] = "up"
    /\ sessErr' = [sessErr EXCEPT ![w] = "none"]
    /\ Goto(w, "return")
    /\ UNCHANGED <<procVars, ctxDone, mainPc, groupVars, getConf, delivered,
                   rightVars, chanVars, tunVars>>

(* After RunSession: the right is used up or given back, and the worker    *)
(* stops on a fatal error or when the client does.                         *)
ReturnAs(w, sentNow, inFlightNow) ==
    /\ wpc[w] = "return"
    /\ configSent' = sentNow
    /\ configRequestInFlight' = inFlightNow
    /\ getConf' = [getConf EXCEPT ![w] = FALSE]
    /\ delivered' = [delivered EXCEPT ![w] = FALSE]
    /\ Goto(w, IF ctxDone \/ sessErr[w] = "fatal" THEN "over" ELSE "sleep")
    /\ UNCHANGED <<procVars, ctxDone, mainPc, groupVars, sessErr, chanVars,
                   tunVars>>

SentNow(w) == configSent \/ (getConf[w] /\ delivered[w])

(* Mutants: the right is given back after every request; never.            *)
ReturnGivesBackAlways(w) ==
    ReturnAs(w, configSent, IF getConf[w] THEN FALSE ELSE configRequestInFlight)
ReturnKeepsRight(w) == ReturnAs(w, SentNow(w), configRequestInFlight)

Return(w) ==
    ReturnAs(w, SentNow(w), configRequestInFlight /\ ~(getConf[w] /\ ~delivered[w]))

Sleep(w) ==
    /\ wpc[w] = "sleep"
    /\ Goto(w, IF ctxDone THEN "over" ELSE "top")
    /\ UNCHANGED <<procVars, ctxDone, mainPc, groupVars, getConf, delivered,
                   sessErr, rightVars, chanVars, tunVars>>

WorkerLoop(w) ==
    \/ Stagger(w) \/ LoopTop(w) \/ Claim(w) \/ DialFails(w) \/ Connected(w)
    \/ AskDenied(w) \/ AskFails(w) \/ AskAnswered(w) \/ Deliver(w)
    \/ SessionEnds(w) \/ Return(w) \/ Sleep(w)

-------------------------------------------------------------------------------
(* The config goroutine.                                                   *)
TakeConfig ==
    /\ cpc = "select"
    /\ \/ /\ configCh # <<>>
          /\ configCh' = Tail(configCh)
          /\ cpc' = IF TunFdSock THEN "accept" ELSE "create"
       \/ /\ ctxDone \/ (configChClosed /\ configCh = <<>>)
          /\ cpc' = "over"
          /\ UNCHANGED configCh
    /\ UNCHANGED <<procVars, ctxDone, mainPc, groupVars, workerVars, rightVars,
                   configChClosed, tun, attached, readPc>>

(* recvTunFD: the peer connects and sends the descriptor, or it fails.     *)
RecvTunFD ==
    /\ cpc = "accept"
    /\ cpc' \in {"attach", "again"}
    /\ UNCHANGED <<procVars, ctxDone, mainPc, groupVars, workerVars, rightVars,
                   chanVars, tun, attached, readPc>>

RecvAgain ==
    /\ cpc = "again"
    /\ cpc' = IF ctxDone THEN "over" ELSE "accept"
    /\ UNCHANGED <<procVars, ctxDone, mainPc, groupVars, workerVars, rightVars,
                   chanVars, tun, attached, readPc>>

CreateTunReacting(stop) ==
    /\ cpc = "create"
    /\ \/ /\ tun' = "up" /\ cpc' = "attach"
          /\ UNCHANGED ctxDone
       \/ /\ cpc' = "over"
          /\ ctxDone' = (ctxDone \/ stop)
          /\ UNCHANGED tun
    /\ UNCHANGED <<procVars, mainPc, groupVars, workerVars, rightVars, chanVars,
                   attached, readPc>>

(* Mutant: a TUN that cannot be created is only logged.                    *)
CreateTunNoCancel == CreateTunReacting(FALSE)

(* createNativeRawTUN; its failure stops the client.                       *)
CreateTun == CreateTunReacting(TRUE)

AttachTUN ==
    /\ cpc = "attach"
    /\ attached' = TRUE
    /\ cpc' = "over"
    /\ UNCHANGED <<procVars, ctxDone, mainPc, groupVars, workerVars, rightVars,
                   chanVars, tun, readPc>>

(* The cleanup that runs once the context is done: the rule, then the link.*)
Cleanup ==
    /\ ctxDone
    /\ \/ tun = "up" /\ tun' = "ruleDeleted"
       \/ tun = "ruleDeleted" /\ tun' = "deleted"
    /\ UNCHANGED <<procVars, ctxDone, mainPc, groupVars, workerVars, rightVars,
                   chanVars, cpc, attached, readPc>>

(* readLoop reads the TUN.  A blocked Read ends with a packet, or when the *)
(* link is deleted under it.                                               *)
ReadLoop ==
    /\ \/ readPc = "wait" /\ attached /\ readPc' = "check"
       \/ readPc = "wait" /\ ctxDone /\ readPc' = "over"
       \/ readPc = "check" /\ readPc' = IF ctxDone THEN "over" ELSE "read"
    /\ UNCHANGED <<procVars, ctxDone, mainPc, groupVars, workerVars, rightVars,
                   chanVars, cpc, tun, attached>>

ReadReturns ==
    /\ readPc = "read"
    /\ readPc' = "check"
    /\ UNCHANGED <<procVars, ctxDone, mainPc, groupVars, workerVars, rightVars,
                   chanVars, cpc, tun, attached>>

-------------------------------------------------------------------------------
(* main: wg.Wait, cancel, close(configCh), <-configDone, disp.Shutdown.    *)
MainCancels ==
    /\ mainPc = "wait"
    /\ \A g \in Group : gpc[g] = "over"
    /\ ctxDone' = TRUE
    /\ mainPc' = "close"
    /\ UNCHANGED <<procVars, groupVars, workerVars, rightVars, chanVars, tunVars>>

MainCloses ==
    /\ mainPc = "close"
    /\ configChClosed' = TRUE
    /\ mainPc' = "join"
    /\ UNCHANGED <<procVars, ctxDone, groupVars, workerVars, rightVars, configCh,
                   tunVars>>

MainJoins ==
    /\ mainPc = "join"
    /\ cpc = "over"
    /\ mainPc' = "shutdown"
    /\ UNCHANGED <<procVars, ctxDone, groupVars, workerVars, rightVars, chanVars,
                   tunVars>>

MainExits ==
    /\ mainPc = "shutdown"
    /\ readPc = "over"
    /\ exit' = "clean"
    /\ UNCHANGED <<sent, sig, sigPc, stdinOpen, pauseFlag, ctxDone, mainPc,
                   groupVars, workerVars, rightVars, chanVars, tunVars>>

Main == MainCancels \/ MainCloses \/ MainJoins \/ MainExits

Running == exit = "no"

Next ==
    /\ Running
    /\ \/ Signal \/ FirstSignal \/ SecondSignal \/ StdinLine
       \/ \E g \in Group : WorkerGroup(g)
       \/ \E w \in Worker : WorkerLoop(w)
       \/ TakeConfig \/ RecvTunFD \/ RecvAgain \/ CreateTun \/ AttachTUN
       \/ Cleanup \/ ReadLoop \/ ReadReturns
       \/ MainCancels \/ MainCloses \/ MainJoins \/ MainExits

(* Every goroutine runs.  GetCreds, the dial, the request (45 s) and the   *)
(* shell commands of the TUN have time limits of their own; a session ends *)
(* when the client stops, and is not bound to end before; a peer of the    *)
(* descriptor's socket, a packet and a line on stdin need never come.      *)
Fairness ==
    /\ WF_vars(Running /\ FirstSignal) /\ WF_vars(Running /\ SecondSignal)
    /\ \A g \in Group : WF_vars(Running /\ WorkerGroup(g))
    /\ \A w \in Worker :
          WF_vars(Running /\ WorkerLoop(w) /\ (wpc[w] = "up" => ctxDone))
    /\ WF_vars(Running /\ TakeConfig) /\ WF_vars(Running /\ RecvAgain)
    /\ WF_vars(Running /\ CreateTun) /\ WF_vars(Running /\ AttachTUN)
    /\ WF_vars(Running /\ Cleanup) /\ WF_vars(Running /\ ReadLoop)
    /\ WF_vars(Running /\ tun = "deleted" /\ ReadReturns)
    /\ WF_vars(Running /\ Main)

Spec == Init /\ [][Next]_vars /\ Fairness

-------------------------------------------------------------------------------
(* Every variable keeps its type.                                          *)
TypeOK ==
    /\ exit \in {"no", "clean", "forced"} /\ ctxDone \in BOOLEAN
    /\ sent \in 0..MaxSignals /\ sig \in BOOLEAN
    /\ sigPc \in {"first", "returned", "second", "over"}
    /\ stdinOpen \in BOOLEAN /\ pauseFlag \in BOOLEAN
    /\ mainPc \in {"wait", "close", "join", "shutdown"}
    /\ gpc \in [Group -> {"turn", "pause", "creds", "run", "over"}]
    /\ baton \in [Group -> {"none", "held", "passed"}]
    /\ wpc \in [Worker -> {"new", "stagger", "top", "claim", "dial", "ask",
                           "deliver", "up", "return", "sleep", "over"}]
    /\ getConf \in [Worker -> BOOLEAN] /\ delivered \in [Worker -> BOOLEAN]
    /\ sessErr \in [Worker -> {"none", "retry", "fatal"}]
    /\ configSent \in BOOLEAN /\ configRequestInFlight \in BOOLEAN
    /\ configCh \in Seq(Worker) /\ configChClosed \in BOOLEAN
    /\ cpc \in {"select", "accept", "again", "create", "attach", "over"}
    /\ tun \in {"none", "up", "ruleDeleted", "deleted"}
    /\ attached \in BOOLEAN /\ readPc \in {"wait", "check", "read", "over"}

(* One worker at a time has the right to ask for the configuration, and    *)
(* until the configuration is sent the flag is up exactly while one does:  *)
(* no failure of a session loses the right, none gives it to two.          *)
ConfigRight ==
    /\ \A v, w \in Worker : getConf[v] /\ getConf[w] => v = w
    /\ ~configSent => (configRequestInFlight <=> \E w \in Worker : getConf[w])

(* Whoever brings a configuration finds configCh open and empty and the    *)
(* config goroutine at its select, unless the client is stopping: neither  *)
(* "already delivered by another worker" nor a send on a closed channel is *)
(* reachable.                                                              *)
DeliveryWelcome ==
    \A w \in Worker : wpc[w] = "deliver" =>
        ~configChClosed /\ configCh = <<>> /\ (cpc = "select" \/ ctxDone)

(* When main closes configCh no worker is left, and when it returns nothing*)
(* it has started is still at work, but for the cleanup of the TUN.        *)
MainIsLast ==
    /\ configChClosed => \A w \in Worker : wpc[w] \in {"new", "over"}
    /\ exit = "clean" => cpc = "over" /\ readPc = "over"

(* However the client is stopped, and wherever its goroutines are, it      *)
(* exits.                                                                  *)
StopTerminates == ctxDone ~> exit # "no"

(* A configuration that was delivered takes effect: the TUN is attached, or*)
(* the client exits.                                                       *)
ConfigTakesEffect == configCh # <<>> ~> attached \/ exit # "no"

(* "Cascaded start: wait for our turn": the turn comes, also when the group*)
(* before has given up.                                                    *)
TurnComes ==
    \A g \in Group \ {1} :
        gpc[g] = "turn" /\ gpc[g - 1] = "over" ~> gpc[g] # "turn"
===============================================================================
