----------------------------- MODULE ClientProofs -----------------------------
(***************************************************************************)
(* What TLAPS proves of Client, for any number of groups and of workers in *)
(* a group, with a TUN of either kind.                                     *)
(***************************************************************************)
EXTENDS Client, TLAPS

(* A worker runs only while its group does.                                *)
GroupState ==
    \A w \in Worker :
        /\ gpc[GroupOf(w)] \in {"turn", "pause", "creds"} => wpc[w] = "new"
        /\ gpc[GroupOf(w)] = "over" => wpc[w] \in {"new", "over"}

(* main gets past wg.Wait only after every group, past configDone only     *)
(* after the config goroutine.                                             *)
MainState ==
    /\ mainPc # "wait" => ctxDone /\ \A g \in Group : gpc[g] = "over"
    /\ configChClosed => mainPc \in {"join", "shutdown"}
    /\ mainPc = "shutdown" => cpc = "over"
    /\ exit = "clean" => cpc = "over" /\ readPc = "over"

(* The right to ask is held for one session, and only who has it asks.     *)
HolderState ==
    \A w \in Worker :
        /\ getConf[w] => wpc[w] \in {"dial", "ask", "deliver", "up", "return"}
        /\ wpc[w] \in {"ask", "deliver"} => getConf[w]
        /\ delivered[w] => getConf[w] /\ wpc[w] \in {"up", "return"}

(* The flag stays up once the configuration is sent.                       *)
RightState ==
    /\ \A v, w \in Worker : getConf[v] /\ getConf[w] => v = w
    /\ configRequestInFlight <=> configSent \/ \E w \in Worker : getConf[w]
    /\ configSent => \A w \in Worker : ~getConf[w]

(* A configuration in the channel, or taken from it, has been delivered.   *)
AnswerState ==
    configCh # <<>> \/ (cpc # "select" /\ ~ctxDone)
        => configSent \/ \E w \in Worker : delivered[w]

Inv == /\ TypeOK /\ GroupState /\ MainState
       /\ HolderState /\ RightState /\ AnswerState

LEMMA GroupOfWorker == \A w \in Worker : GroupOf(w) \in Group
  BY DEF Worker, GroupOf

USE GroupOfWorker

LEMMA InitInv == Init => Inv
<1>. SUFFICES ASSUME Init PROVE Inv
  OBVIOUS
<1>1. TypeOK
  <2>1. configCh \in Seq(Worker)
    BY DEF Init
  <2>2. gpc \in [Group -> {"turn", "pause", "creds", "run", "over"}]
    BY DEF Init
  <2>3. sent \in 0..MaxSignals
    BY SignalAssumption DEF Init
  <2>. QED BY <2>1, <2>2, <2>3 DEF Init, TypeOK
<1>2. GroupState /\ HolderState
  BY DEF Init, GroupState, HolderState
<1>3. MainState /\ RightState /\ AnswerState
  BY DEF Init, MainState, RightState, AnswerState
<1>. QED
  BY <1>1, <1>2, <1>3 DEF Inv

LEMMA WorkerInv ==
    ASSUME Inv, Running, NEW w \in Worker, WorkerLoop(w)
    PROVE  Inv'
<1>. USE DEF Inv, TypeOK, GroupState, MainState, HolderState, RightState, AnswerState, Goto, procVars, groupVars, rightVars, chanVars, tunVars
<1>1. CASE Stagger(w)
  BY <1>1 DEF Stagger
<1>2. CASE LoopTop(w)
  BY <1>2 DEF LoopTop
<1>3. CASE Claim(w)
  <2>1. CASE configRequestInFlight
    <3>1. getConf' = [getConf EXCEPT ![w] = FALSE] /\ configRequestInFlight' = TRUE
      BY <1>3, <2>1 DEF Claim, ClaimWhen
    <3>2. ~getConf[w]
      BY <1>3 DEF Claim, ClaimWhen
    <3>3. getConf' = getConf
      BY <3>1, <3>2
    <3>. QED BY <1>3, <2>1, <3>1, <3>3 DEF Claim, ClaimWhen
  <2>2. CASE ~configRequestInFlight
    <3>1. getConf' = [getConf EXCEPT ![w] = TRUE] /\ configRequestInFlight' = TRUE
      BY <1>3, <2>2 DEF Claim, ClaimWhen
    <3>. QED BY <1>3, <2>2, <3>1 DEF Claim, ClaimWhen
  <2>. QED BY <2>1, <2>2
<1>4. CASE DialFails(w)
  BY <1>4 DEF DialFails
<1>5. CASE Connected(w)
  BY <1>5 DEF Connected
<1>6. CASE AskDenied(w)
  BY <1>6 DEF AskDenied
<1>7. CASE AskFails(w)
  BY <1>7 DEF AskFails
<1>8. CASE AskAnswered(w)
  BY <1>8 DEF AskAnswered
<1>9. CASE Deliver(w)
  BY <1>9 DEF Deliver
<1>10. CASE SessionEnds(w)
  BY <1>10 DEF SessionEnds
<1>11. CASE Return(w)
  BY <1>11 DEF Return, ReturnAs, SentNow
<1>12. CASE Sleep(w)
  BY <1>12 DEF Sleep
<1>. QED
  BY <1>1, <1>2, <1>3, <1>4, <1>5, <1>6, <1>7, <1>8, <1>9, <1>10, <1>11, <1>12 DEF WorkerLoop

LEMMA GroupInv ==
    ASSUME Inv, Running, NEW g \in Group, WorkerGroup(g)
    PROVE  Inv'
<1>. USE DEF Inv, TypeOK, GroupState, MainState, HolderState, RightState, AnswerState, procVars, workerVars, rightVars, chanVars, tunVars
<1>1. CASE WaitTurn(g)
  BY <1>1 DEF WaitTurn
<1>2. CASE WaitResume(g)
  BY <1>2 DEF WaitResume
<1>3. CASE CredsFail(g)
  BY <1>3 DEF CredsFail
<1>4. CASE CredsOK(g)
  BY <1>4 DEF CredsOK
<1>5. CASE HandBaton(g)
  BY <1>5 DEF HandBaton
<1>6. CASE GroupReturns(g)
  BY <1>6 DEF GroupReturns, GroupReturnsWhen, WorkersOver, Workers
<1>. QED
  BY <1>1, <1>2, <1>3, <1>4, <1>5, <1>6 DEF WorkerGroup

LEMMA StepInv == Inv /\ [Next]_vars => Inv'
<1>. SUFFICES ASSUME Inv, [Next]_vars PROVE Inv'
  OBVIOUS
<1>. USE DEF Inv, TypeOK, GroupState, MainState, HolderState, RightState, AnswerState, procVars, groupVars, workerVars, rightVars, chanVars, tunVars
<1>1. CASE UNCHANGED vars
  BY <1>1 DEF vars
<1>2. CASE Running /\ Signal
  BY <1>2, SignalAssumption DEF Signal
<1>3. CASE Running /\ FirstSignal
  <2>1. (sig' = FALSE /\ ctxDone' = TRUE) \/ (sig' = sig /\ ctxDone' = ctxDone)
    BY <1>3 DEF FirstSignal
  <2>2. sigPc' \in {"first", "returned", "second", "over"}
    BY <1>3 DEF FirstSignal
  <2>3. CASE sig' = FALSE /\ ctxDone' = TRUE
    <3>1. UNCHANGED <<exit, sent, stdinOpen, pauseFlag, mainPc, groupVars,
                      workerVars, rightVars, chanVars, tunVars>>
      BY <1>3 DEF FirstSignal
    <3>2. TypeOK'
      <4>1. sig' \in BOOLEAN /\ ctxDone' \in BOOLEAN
        BY <2>3, Zenon
      <4>. QED BY <3>1, <2>2, <4>1
    <3>3. GroupState' /\ HolderState' /\ RightState'
      BY <3>1
    <3>4. MainState' /\ AnswerState'
      BY <3>1, <2>3
    <3>. QED BY <3>2, <3>3, <3>4
  <2>4. CASE sig' = sig /\ ctxDone' = ctxDone
    BY <1>3, <2>2, <2>4 DEF FirstSignal
  <2>. QED BY <2>1, <2>3, <2>4
<1>4. CASE Running /\ SecondSignal
  <2>1. sig' \in BOOLEAN /\ exit' \in {"no", "forced"}
    BY <1>4 DEF SecondSignal, Running
  <2>2. sigPc' \in {"first", "returned", "second", "over"}
    BY <1>4 DEF SecondSignal
  <2>. QED BY <1>4, <2>1, <2>2 DEF SecondSignal
<1>5. CASE Running /\ StdinLine
  <2>1. pauseFlag' \in BOOLEAN /\ stdinOpen' \in BOOLEAN
    BY <1>5 DEF StdinLine
  <2>2. ctxDone' = TRUE \/ ctxDone' = ctxDone
    BY <1>5 DEF StdinLine
  <2>3. CASE ctxDone' = TRUE
    BY <1>5, <2>1, <2>3 DEF StdinLine
  <2>4. CASE ctxDone' = ctxDone
    BY <1>5, <2>1, <2>4 DEF StdinLine
  <2>. QED BY <2>2, <2>3, <2>4
<1>6. CASE Running /\ \E g \in Group : WorkerGroup(g)
  BY <1>6, GroupInv
<1>7. CASE Running /\ \E w \in Worker : WorkerLoop(w)
  BY <1>7, WorkerInv
<1>8. CASE Running /\ TakeConfig
  <2>1. CASE configCh # <<>> /\ configCh' = Tail(configCh)
    <3>1. configCh' \in Seq(Worker)
      BY <2>1
    <3>2. cpc' \in {"accept", "create", "over"}
      BY <1>8 DEF TakeConfig
    <3>3. configSent \/ \E w \in Worker : delivered[w]
      BY <2>1
    <3>. QED BY <1>8, <3>1, <3>2, <3>3 DEF TakeConfig
  <2>2. CASE UNCHANGED configCh /\ cpc' = "over" /\ ctxDone
    BY <1>8, <2>2 DEF TakeConfig
  <2>. QED BY <1>8, <2>1, <2>2 DEF TakeConfig
<1>9. CASE Running /\ (RecvTunFD \/ RecvAgain)
  BY <1>9 DEF RecvTunFD, RecvAgain, Running
<1>10. CASE Running /\ CreateTun
  BY <1>10 DEF CreateTun, CreateTunReacting
<1>11. CASE Running /\ AttachTUN
  BY <1>11 DEF AttachTUN
<1>12. CASE Running /\ Cleanup
  BY <1>12 DEF Cleanup
<1>13. CASE Running /\ (ReadLoop \/ ReadReturns)
  BY <1>13 DEF ReadLoop, ReadReturns, Running
<1>14. CASE Running /\ (MainCancels \/ MainCloses \/ MainJoins \/ MainExits)
  <2>1. CASE MainCancels
    BY <1>14, <2>1 DEF MainCancels, Running
  <2>2. CASE MainCloses
    BY <1>14, <2>2 DEF MainCloses, Running
  <2>3. CASE MainJoins
    BY <1>14, <2>3 DEF MainJoins, Running
  <2>4. CASE MainExits
    BY <1>14, <2>4 DEF MainExits, Running
  <2>. QED BY <1>14, <2>1, <2>2, <2>3, <2>4
<1>. QED
  BY <1>1, <1>2, <1>3, <1>4, <1>5, <1>6, <1>7, <1>8, <1>9, <1>10, <1>11, <1>12, <1>13, <1>14 DEF Next

-------------------------------------------------------------------------------
(* The variables keep their types.                                         *)
THEOREM TypeCorrect == Spec => []TypeOK
<1>1. Inv => TypeOK
  BY DEF Inv
<1>. QED
  BY <1>1, InitInv, StepInv, PTL DEF Spec

(* The right to ask for the configuration is never given to two workers,   *)
(* and never lost.                                                         *)
THEOREM RightCorrect == Spec => []ConfigRight
<1>1. Inv => ConfigRight
  BY DEF Inv, RightState, ConfigRight
<1>. QED
  BY <1>1, InitInv, StepInv, PTL DEF Spec

(* No configuration is refused, and none is sent on a closed channel.      *)
THEOREM DeliveryCorrect == Spec => []DeliveryWelcome
<1>1. Inv => DeliveryWelcome
  <2>. SUFFICES ASSUME Inv, NEW w \in Worker, wpc[w] = "deliver"
                PROVE  ~configChClosed /\ configCh = <<>> /\ (cpc = "select" \/ ctxDone)
    BY DEF DeliveryWelcome
  <2>1. ~configChClosed
    BY DEF Inv, MainState, GroupState
  <2>2. getConf[w] /\ ~delivered[w]
    BY DEF Inv, HolderState
  <2>3. ~configSent /\ \A v \in Worker : ~delivered[v]
    BY <2>2 DEF Inv, HolderState, RightState
  <2>. QED
    BY <2>1, <2>3 DEF Inv, AnswerState
<1>. QED
  BY <1>1, InitInv, StepInv, PTL DEF Spec

(* main closes configCh after the last worker, and returns after the       *)
(* goroutines it waits for.                                                *)
THEOREM MainCorrect == Spec => []MainIsLast
<1>1. Inv => MainIsLast
  BY DEF Inv, MainState, GroupState, MainIsLast
<1>. QED
  BY <1>1, InitInv, StepInv, PTL DEF Spec

-------------------------------------------------------------------------------
(* The cascade.  A group begins only after the one before it has had its   *)
(* credentials, so all before it have had theirs.                          *)
Begun(g) ==
    \/ gpc[g] \in {"pause", "creds", "run"} \/ baton[g] # "none"
    \/ \E w \in Worker : GroupOf(w) = g /\ wpc[w] # "new"

CascadeOrder ==
    \A g \in Group :
        /\ Begun(g) => \A h \in 1..(g - 1) : baton[h] = "passed"
        /\ gpc[g] \in {"turn", "pause", "creds"} => baton[g] = "none"

(* A group that is over and has left no signal.                            *)
Broken(g) == gpc[g] = "over" /\ baton[g] = "none"

LEMMA GroupNumbers == Group \subseteq Nat \ {0} /\ 1 \in Group
  BY GroupAssumption DEF Group

LEMMA CascadeInit == Init => CascadeOrder
<1>. SUFFICES ASSUME Init, NEW g \in Group
              PROVE  /\ Begun(g) => \A h \in 1..(g - 1) : baton[h] = "passed"
                     /\ gpc[g] \in {"turn", "pause", "creds"} => baton[g] = "none"
  BY DEF CascadeOrder
<1>1. Begun(g) => g = 1
  BY DEF Begun, Init
<1>. QED BY <1>1 DEF Init

(* The steps that pass no signal, and begin no group that had not begun.   *)
LEMMA CascadeKept ==
    ASSUME CascadeOrder, baton' = baton,
           \A g \in Group : /\ Begun(g)' => Begun(g)
                            /\ gpc'[g] \in {"turn", "pause", "creds"} =>
                                  gpc[g] \in {"turn", "pause", "creds"}
    PROVE  CascadeOrder'
BY DEF CascadeOrder

(* A worker that moves had been started.                                   *)
LEMMA WorkerMoves ==
    ASSUME TypeOK, NEW w \in Worker, WorkerLoop(w)
    PROVE  /\ wpc[w] # "new" /\ \A v \in Worker \ {w} : wpc'[v] = wpc[v]
           /\ UNCHANGED <<gpc, baton>>
<1>. USE DEF TypeOK, Goto, groupVars
<1>1. CASE Stagger(w) \/ LoopTop(w) \/ Claim(w) \/ DialFails(w)
  BY <1>1 DEF Stagger, LoopTop, Claim, ClaimWhen, DialFails
<1>2. CASE Connected(w) \/ AskDenied(w) \/ AskFails(w) \/ AskAnswered(w)
  BY <1>2 DEF Connected, AskDenied, AskFails, AskAnswered
<1>3. CASE Deliver(w) \/ SessionEnds(w) \/ Return(w) \/ Sleep(w)
  BY <1>3 DEF Deliver, SessionEnds, Return, ReturnAs, Sleep
<1>. QED BY <1>1, <1>2, <1>3 DEF WorkerLoop

LEMMA CascadeGroup ==
    ASSUME TypeOK, CascadeOrder, NEW g \in Group, WorkerGroup(g)
    PROVE  CascadeOrder'
<1>. USE DEF TypeOK, workerVars
<1>1. CASE WaitTurn(g)
  <2>1. PICK next \in {"pause", "over"} :
          /\ gpc[g] = "turn"
          /\ next = "pause" => baton[g - 1] = "passed"
          /\ gpc' = [gpc EXCEPT ![g] = next] /\ UNCHANGED <<baton, wpc>>
    BY <1>1 DEF WaitTurn
  <2>2. CASE next = "over"
    BY <2>1, <2>2, CascadeKept DEF Begun
  <2>3. CASE next = "pause"
    <3>1. g \in Nat \ {0} /\ baton[g - 1] = "passed"
      BY <2>1, <2>3, GroupNumbers
    <3>2. \A h \in 1..(g - 1) : baton[h] = "passed"
      <4>1. CASE g = 1
        BY <4>1
      <4>2. CASE g # 1
        <5>1. g - 1 \in Group /\ Begun(g - 1)
          <6>1. g - 1 \in Group
            BY <3>1, <4>2, GroupAssumption DEF Group
          <6>. QED BY <3>1, <6>1 DEF Begun
        <5>2. \A h \in 1..((g - 1) - 1) : baton[h] = "passed"
          BY <5>1 DEF CascadeOrder
        <5>3. \A h \in 1..(g - 1) : h = g - 1 \/ h \in 1..((g - 1) - 1)
          BY <3>1
        <5>. QED BY <3>1, <5>2, <5>3
      <4>. QED BY <4>1, <4>2
    <3>3. \A k \in Group \ {g} : Begun(k)' => Begun(k)
      BY <2>1 DEF Begun
    <3>. QED BY <2>1, <2>3, <3>2, <3>3 DEF CascadeOrder
  <2>. QED BY <2>2, <2>3
<1>2. CASE WaitResume(g) \/ CredsFail(g)
  BY <1>2, CascadeKept DEF WaitResume, CredsFail, Begun
<1>3. CASE CredsOK(g)
  <2>1. /\ gpc[g] = "creds" /\ gpc' = [gpc EXCEPT ![g] = "run"]
        /\ \A k \in Group \ {g} : baton'[k] = baton[k]
        /\ wpc' = [w \in Worker |-> IF GroupOf(w) = g THEN "stagger" ELSE wpc[w]]
    BY <1>3 DEF CredsOK
  <2>2. baton[g] = "none" /\ Begun(g)
    BY <2>1 DEF CascadeOrder, Begun
  <2>3. \A k \in Group : Begun(k)' => Begun(k)
    BY <2>1, <2>2 DEF Begun
  <2>4. \A h \in Group : baton[h] = "passed" => baton'[h] = "passed"
    BY <2>1, <2>2
  <2>5. \A k \in Group : \A h \in 1..(k - 1) : h \in Group
    BY GroupAssumption DEF Group
  <2>. QED BY <2>1, <2>3, <2>4, <2>5 DEF CascadeOrder
<1>4. CASE HandBaton(g)
  <2>1. /\ baton[g] = "held" /\ baton' = [baton EXCEPT ![g] = "passed"]
        /\ UNCHANGED <<gpc, wpc>>
    BY <1>4 DEF HandBaton
  <2>2. \A k \in Group : Begun(k)' => Begun(k)
    BY <2>1 DEF Begun
  <2>3. \A h \in Group : baton[h] = "passed" => baton'[h] = "passed"
    BY <2>1
  <2>4. \A k \in Group : \A h \in 1..(k - 1) : h \in Group
    BY GroupAssumption DEF Group
  <2>. QED BY <2>1, <2>2, <2>3, <2>4 DEF CascadeOrder
<1>5. CASE GroupReturns(g)
  BY <1>5, CascadeKept DEF GroupReturns, GroupReturnsWhen, Begun
<1>. QED BY <1>1, <1>2, <1>3, <1>4, <1>5 DEF WorkerGroup

(* The steps of the process, the config goroutine and readLoop.            *)
LEMMA OthersLeaveGroups ==
    ASSUME \/ UNCHANGED vars
           \/ Signal \/ FirstSignal \/ SecondSignal \/ StdinLine
           \/ TakeConfig \/ RecvTunFD \/ RecvAgain \/ CreateTun \/ AttachTUN
           \/ Cleanup \/ ReadLoop \/ ReadReturns
           \/ MainCancels \/ MainCloses \/ MainJoins \/ MainExits
    PROVE  UNCHANGED <<gpc, baton, wpc>>
<1>. USE DEF groupVars, workerVars, vars
<1>1. CASE UNCHANGED vars \/ Signal \/ FirstSignal \/ SecondSignal \/ StdinLine
  BY <1>1 DEF Signal, FirstSignal, SecondSignal, StdinLine
<1>2. CASE TakeConfig \/ RecvTunFD \/ RecvAgain \/ CreateTun \/ AttachTUN
  BY <1>2 DEF TakeConfig, RecvTunFD, RecvAgain, CreateTun, CreateTunReacting, AttachTUN
<1>3. CASE Cleanup \/ ReadLoop \/ ReadReturns
  BY <1>3 DEF Cleanup, ReadLoop, ReadReturns
<1>4. CASE MainCancels \/ MainCloses \/ MainJoins \/ MainExits
  BY <1>4 DEF MainCancels, MainCloses, MainJoins, MainExits
<1>. QED BY <1>1, <1>2, <1>3, <1>4

LEMMA CascadeStep == TypeOK /\ CascadeOrder /\ [Next]_vars => CascadeOrder'
<1>. SUFFICES ASSUME TypeOK, CascadeOrder, [Next]_vars PROVE CascadeOrder'
  OBVIOUS
<1>1. ASSUME NEW w \in Worker, WorkerLoop(w) PROVE CascadeOrder'
  BY <1>1, WorkerMoves, CascadeKept DEF Begun
<1>2. ASSUME NEW g \in Group, WorkerGroup(g) PROVE CascadeOrder'
  BY <1>2, CascadeGroup
<1>3. CASE UNCHANGED <<gpc, baton, wpc>>
  BY <1>3, CascadeKept DEF Begun
<1>. QED BY <1>1, <1>2, <1>3, OthersLeaveGroups DEF Next

(* The workers of a group start only after every group before it has had   *)
(* its credentials and passed its signal on (group.go's signalReady).      *)
THEOREM CascadeCorrect == Spec => []CascadeOrder
<1>1. Inv => TypeOK
  BY DEF Inv
<1>. QED
  BY <1>1, InitInv, StepInv, CascadeInit, CascadeStep, PTL DEF Spec

(* TurnComes fails, and for good: if a group gives up without credentials, *)
(* nothing that happens later starts a worker of any group after it.       *)
BreakIsFinal ==
    \A g \in Group :
        Broken(g) /\ g < NumGroups =>
            Broken(g)' /\ \A w \in Worker : GroupOf(w) > g => wpc'[w] = "new"

LEMMA BreakStep == TypeOK /\ CascadeOrder /\ [Next]_vars => BreakIsFinal
<1>. SUFFICES ASSUME TypeOK, CascadeOrder, [Next]_vars,
                     NEW g \in Group, Broken(g), g < NumGroups
              PROVE  Broken(g)' /\ \A w \in Worker : GroupOf(w) > g => wpc'[w] = "new"
  BY DEF BreakIsFinal
<1>1. Broken(g)'
  <2>1. ASSUME NEW w \in Worker, WorkerLoop(w) PROVE Broken(g)'
    BY <2>1, WorkerMoves DEF Broken
  <2>2. ASSUME NEW k \in Group, WorkerGroup(k) PROVE Broken(g)'
    BY <2>2 DEF Broken, TypeOK, WorkerGroup, WaitTurn, WaitResume, CredsFail, CredsOK,
                HandBaton, GroupReturns, GroupReturnsWhen
  <2>3. CASE UNCHANGED <<gpc, baton, wpc>>
    BY <2>3 DEF Broken
  <2>. QED BY <2>1, <2>2, <2>3, OthersLeaveGroups DEF Next
<1>2. ASSUME NEW w \in Worker, GroupOf(w) > g PROVE wpc'[w] = "new"
  <2>1. CascadeOrder'
    BY CascadeStep
  <2>2. g \in 1..(GroupOf(w) - 1)
    BY <1>2, GroupOfWorker, GroupNumbers, GroupAssumption DEF Group
  <2>3. ~Begun(GroupOf(w))'
    BY <1>1, <2>1, <2>2 DEF CascadeOrder, Broken
  <2>. QED BY <2>3 DEF Begun
<1>. QED BY <1>1, <1>2

(* One group that leaves without a signal stops all groups after it.       *)
THEOREM CascadeBreaks == Spec => [][BreakIsFinal]_vars
<1>1. Inv => TypeOK
  BY DEF Inv
<1>. QED
  BY <1>1, InitInv, StepInv, CascadeInit, CascadeStep, BreakStep, PTL DEF Spec

-------------------------------------------------------------------------------
(* readLoop reads only what is attached, and a TUN of the process's own    *)
(* was created before.                                                     *)
TunState ==
    /\ cpc \in {"accept", "again"} => TunFdSock
    /\ cpc = "create" => ~TunFdSock
    /\ cpc = "attach" \/ attached => TunFdSock \/ tun # "none"
    /\ readPc \in {"check", "read"} => attached

LEMMA TunStateInit == Init => TunState
BY DEF Init, TunState

LEMMA TunStateStep == TunState /\ [Next]_vars => TunState'
<1>. SUFFICES ASSUME TunState, [Next]_vars PROVE TunState'
  OBVIOUS
<1>. USE DEF TunState, tunVars
<1>1. CASE UNCHANGED vars \/ Signal \/ FirstSignal \/ SecondSignal \/ StdinLine
  BY <1>1 DEF vars, Signal, FirstSignal, SecondSignal, StdinLine
<1>2. ASSUME NEW g \in Group, WorkerGroup(g) PROVE TunState'
  BY <1>2 DEF WorkerGroup, WaitTurn, WaitResume, CredsFail, CredsOK, HandBaton,
              GroupReturns, GroupReturnsWhen
<1>3. ASSUME NEW w \in Worker, WorkerLoop(w) PROVE TunState'
  <2>1. UNCHANGED tunVars
    BY <1>3 DEF WorkerLoop, Stagger, LoopTop, Claim, ClaimWhen, DialFails, Connected,
                AskDenied, AskFails, AskAnswered, Deliver, SessionEnds, Return, ReturnAs, Sleep
  <2>. QED BY <2>1
<1>4. CASE TakeConfig
  BY <1>4, TunFdSockAssumption DEF TakeConfig
<1>5. CASE RecvTunFD \/ RecvAgain \/ CreateTun \/ AttachTUN
  BY <1>5 DEF RecvTunFD, RecvAgain, CreateTun, CreateTunReacting, AttachTUN
<1>6. CASE Cleanup \/ ReadLoop \/ ReadReturns
  BY <1>6 DEF Cleanup, ReadLoop, ReadReturns
<1>7. CASE MainCancels \/ MainCloses \/ MainJoins \/ MainExits
  BY <1>7 DEF MainCancels, MainCloses, MainJoins, MainExits
<1>. QED BY <1>1, <1>2, <1>3, <1>4, <1>5, <1>6, <1>7 DEF Next

(* Shutdown waits for readLoop, and readLoop may sit in a Read that no     *)
(* packet ends: then there is a TUN of the process's own, whose cleanup    *)
(* ends the Read by deleting the link, or has ended it; only a descriptor  *)
(* that came over the socket has nobody to do so.                          *)
ReadHasTun == readPc = "read" => TunFdSock \/ tun \in {"up", "ruleDeleted", "deleted"}

(* A Read that no packet ends has a TUN whose cleanup ends it: the safety  *)
(* half of the last wait of main in StopTerminates.                        *)
THEOREM ReadIsWoken == Spec => []ReadHasTun
<1>1. Inv /\ TunState => ReadHasTun
  BY DEF Inv, TypeOK, TunState, ReadHasTun
<1>. QED
  BY <1>1, InitInv, StepInv, TunStateInit, TunStateStep, PTL DEF Spec

===============================================================================
