----------------------------- MODULE AnswersProofs -----------------------------
(***************************************************************************)
(* What TLAPS proves of Answers, for any links and any limits of attempts  *)
(* and captchas.                                                           *)
(***************************************************************************)
EXTENDS Answers, TLAPS

-------------------------------------------------------------------------------
(* The inductive invariant.  A request is open from the drain of its       *)
(* channel to the end of its wait, so whatever lies in the channel then    *)
(* was sent for it; and an answer to a printed prompt lies there only      *)
(* while that prompt is waited for, because the wait takes it or, when it  *)
(* is over, turns it into one that answers nothing.                        *)
Message == [value : Results \cup Link \cup {"empty", NoValue}, asked : BOOLEAN,
            answers : BOOLEAN]

FetchTypeOK ==
    /\ link \in Link \cup {NoValue}
    /\ pc \in {"idle", "lookUp", "vkcalls", "legacy", "pause", "solve", "page", "checkbox",
               "slider", "check", "breathe", "drain", "prompt", "wait"}
    /\ attempt \in 0..(AttemptLimit - 1) /\ step \in 0..5
    /\ captchas \in 0..CaptchaLimit /\ tries \in 0..2 /\ checks \in 0..MaxSliderChecks

OutsideTypeOK ==
    /\ authMode \in {"account", "vkcalls", "legacy"} /\ captchaMode \in {"wv", "rjs", "auto"}
    /\ stopped \in BOOLEAN
    /\ inPc \in {"read", "drain", "send", "over"}
    /\ inValue \in Results \cup Link \cup {"empty", NoValue}

StoredTypeOK == injected \subseteq Link /\ lockout \in BOOLEAN

AskInv ==
    /\ pc \in {"prompt", "wait"} => open = TRUE
    /\ pc \notin {"prompt", "wait"} => open = FALSE
    /\ pc = "wait" => prompted = TRUE
    /\ pc # "wait" => prompted = FALSE
    /\ chan = <<>> \/ \E m \in Message : chan = <<m>>
    /\ chan # <<>> /\ pc \in {"prompt", "wait"} => Answer.asked
    /\ chan # <<>> /\ pc # "wait" => ~Answer.answers
    /\ mismatched = FALSE

(* Credentials are asked for a link.                                       *)
LinkKnown == authMode = "account" => pc = "idle" \/ link \in Link

Inv == FetchTypeOK /\ OutsideTypeOK /\ StoredTypeOK /\ AskInv

USE DEF modeVars, stdinVars, solveVars, fetchVars, askVars, Outside

LEMMA InitInv == Init => Inv
<1>. SUFFICES ASSUME Init PROVE Inv
  OBVIOUS
<1>1. 0 \in 0..(AttemptLimit - 1) /\ 0 \in 0..5 /\ 0 \in 0..CaptchaLimit /\ 0 \in 0..2
      /\ 0 \in 0..MaxSliderChecks
  BY AnswersAssumption DEF MaxSliderChecks
<1>2. FetchTypeOK
  BY <1>1 DEF Init, AtRest, FetchTypeOK
<1>3. OutsideTypeOK /\ StoredTypeOK
  BY DEF Init, OutsideTypeOK, StoredTypeOK
<1>4. AskInv
  BY DEF Init, AtRest, AskInv
<1>. QED BY <1>2, <1>3, <1>4 DEF Inv

(* The steps that neither end a wait nor drain the channel.                *)
LEMMA NothingAsked ==
    ASSUME AskInv, UNCHANGED <<chan, mismatched>>, pc # "wait",
           pc' \notin {"prompt", "wait"}, open' = FALSE, prompted' = FALSE
    PROVE  AskInv'
BY DEF AskInv, Answer

LEMMA ReturnFacts ==
    ASSUME Return
    PROVE  /\ FetchTypeOK' /\ pc' = "idle"
           /\ open' = FALSE /\ prompted' = FALSE
<1>1. 0 \in 0..(AttemptLimit - 1) /\ 0 \in 0..5 /\ 0 \in 0..CaptchaLimit /\ 0 \in 0..2
      /\ 0 \in 0..MaxSliderChecks
  BY AnswersAssumption DEF MaxSliderChecks
<1>. QED BY <1>1 DEF Return, FetchTypeOK

LEMMA EnterStageFacts ==
    ASSUME FetchTypeOK, NEW s, EnterStage(s)
    PROVE  FetchTypeOK' /\ pc' \in {"page", "drain"}
<1>1. ASSUME s \in DOMAIN TriesOf PROVE TriesOf[s] \in 0..2
  BY <1>1 DEF TriesOf
<1>2. tries' \in 0..2 /\ checks' \in 0..MaxSliderChecks
  BY <1>1 DEF EnterStage, MaxSliderChecks
<1>. QED BY <1>2 DEF EnterStage, FetchTypeOK

LEMMA StageFailsFacts ==
    ASSUME FetchTypeOK, StoredTypeOK, StageFails
    PROVE  /\ FetchTypeOK' /\ StoredTypeOK' /\ pc' \in {"breathe", "page", "drain", "idle"}
           /\ open' = FALSE /\ prompted' = FALSE
           /\ UNCHANGED Outside
<1>1. CASE stopped \/ stage \notin DOMAIN StageAfter
  <2>1. CASE Return /\ lockout' = TRUE /\ UNCHANGED <<Outside, injected>>
    BY <2>1, ReturnFacts DEF StoredTypeOK
  <2>. QED BY <1>1, <2>1 DEF StageFails
<1>2. CASE ~stopped /\ stage \in DOMAIN StageAfter
  <2>1. /\ open' = FALSE /\ prompted' = FALSE
        /\ UNCHANGED <<Outside, injected, lockout>>
        /\ \/ pc' = "breathe" /\ UNCHANGED <<link, attempt, step, solveVars>>
           \/ EnterStage(StageAfter[stage])
    BY <1>2 DEF StageFails
  <2>2. CASE pc' = "breathe" /\ UNCHANGED <<link, attempt, step, solveVars>>
    BY <2>1, <2>2 DEF FetchTypeOK, StoredTypeOK
  <2>3. CASE EnterStage(StageAfter[stage])
    BY <2>1, <2>3, EnterStageFacts DEF StoredTypeOK
  <2>. QED BY <2>1, <2>2, <2>3
<1>. QED BY <1>1, <1>2

LEMMA SolvedFacts ==
    ASSUME FetchTypeOK, StoredTypeOK, Solved
    PROVE  FetchTypeOK' /\ StoredTypeOK' /\ pc' = "legacy" /\ UNCHANGED Outside
<1>1. tries' \in 0..2 /\ checks' \in 0..MaxSliderChecks
  BY DEF Solved, MaxSliderChecks
<1>. QED BY <1>1 DEF Solved, FetchTypeOK, StoredTypeOK

LEMMA NewChainFacts ==
    ASSUME FetchTypeOK, NEW path \in {"legacy", "pause"}, NewChain(path),
           attempt' \in 0..(AttemptLimit - 1)
    PROVE  FetchTypeOK' /\ pc' = path
<1>1. 1 \in 0..5 /\ 0 \in 0..CaptchaLimit
  BY AnswersAssumption
<1>. QED BY <1>1 DEF NewChain, FetchTypeOK

LEMMA TryFailsFacts ==
    ASSUME FetchTypeOK, StoredTypeOK, open = FALSE, prompted = FALSE, TryFails
    PROVE  /\ FetchTypeOK' /\ StoredTypeOK' /\ pc' \in {"breathe", "page", "drain", "idle"}
           /\ open' = FALSE /\ prompted' = FALSE
           /\ UNCHANGED Outside
<1>1. CASE tries > 1 /\ ~stopped
  <2>1. tries' \in 0..2 /\ checks' \in 0..MaxSliderChecks
    BY <1>1 DEF TryFails, FetchTypeOK, MaxSliderChecks
  <2>. QED BY <1>1, <2>1 DEF TryFails, FetchTypeOK, StoredTypeOK
<1>2. CASE ~(tries > 1 /\ ~stopped)
  BY <1>2, StageFailsFacts DEF TryFails
<1>. QED BY <1>1, <1>2

-------------------------------------------------------------------------------
(* The requests to VK: they ask nobody.                                    *)
LEMMA ChainsInv ==
    ASSUME Inv, LookUp \/ VKCallsPath \/ TokenChain
    PROVE  Inv'
<1>. USE DEF Inv
<1>0. /\ pc \notin {"prompt", "wait"} => open = FALSE /\ prompted = FALSE
      /\ AttemptLimit \in Nat \ {0} /\ CaptchaLimit \in Nat \ {0}
  BY AnswersAssumption DEF AskInv
<1>1. ASSUME UNCHANGED <<Outside, chan, mismatched>>, FetchTypeOK', StoredTypeOK',
             pc \notin {"prompt", "wait"}, pc' \notin {"prompt", "wait"},
             open' = FALSE, prompted' = FALSE
      PROVE  Inv'
  BY <1>1, NothingAsked DEF OutsideTypeOK
<1>2. CASE LookUp
  <2>1. CASE Return /\ UNCHANGED <<Outside, chan, injected, lockout, mismatched>> /\ pc = "lookUp"
    BY <1>1, <2>1, ReturnFacts DEF StoredTypeOK
  <2>2. CASE ~Return
    BY <1>0, <1>1, <1>2, <2>2 DEF LookUp, FetchTypeOK, StoredTypeOK
  <2>. QED BY <1>2, <2>1, <2>2 DEF LookUp
<1>3. ASSUME pc \in {"vkcalls", "legacy"}, NextStep(5) \/ CallUnavailable PROVE Inv'
  <2>1. CASE Return /\ UNCHANGED <<Outside, chan, injected, lockout, mismatched>>
    BY <1>1, <1>3, <2>1, ReturnFacts DEF StoredTypeOK
  <2>2. CASE /\ step # 5 /\ step' = step + 1
             /\ UNCHANGED <<pc, link, attempt, solveVars, askVars>>
             /\ UNCHANGED <<Outside, chan, injected, lockout, mismatched>>
    <3>1. step' \in 0..5
      BY <2>2 DEF FetchTypeOK
    <3>. QED BY <1>0, <1>1, <1>3, <2>2, <3>1 DEF FetchTypeOK, StoredTypeOK
  <2>. QED BY <1>3, <2>1, <2>2 DEF NextStep, CallUnavailable
<1>4. CASE CallsFail
  <2>1. FetchTypeOK' /\ pc' = "legacy"
    BY <1>4, NewChainFacts DEF CallsFail, FetchTypeOK
  <2>. QED BY <1>0, <1>1, <1>4, <2>1 DEF CallsFail, NewChain, StoredTypeOK
<1>5. CASE PreviewFails
  <2>1. FetchTypeOK' /\ StoredTypeOK'
    BY <1>5 DEF PreviewFails, FetchTypeOK, StoredTypeOK
  <2>. QED BY <1>0, <1>1, <1>5, <2>1 DEF PreviewFails
<1>6. CASE LegacyFails
  <2>1. CASE attempt + 1 = AttemptLimit
    BY <1>1, <1>6, <2>1, ReturnFacts DEF LegacyFails, StoredTypeOK
  <2>2. CASE attempt + 1 # AttemptLimit
    <3>1. attempt' \in 0..(AttemptLimit - 1)
      BY <1>0, <1>6, <2>2 DEF LegacyFails, FetchTypeOK
    <3>2. PICK path \in {"legacy", "pause"} : NewChain(path)
      BY <1>6, <2>2 DEF LegacyFails
    <3>3. FetchTypeOK' /\ pc' = path
      BY <3>1, <3>2, NewChainFacts
    <3>. QED BY <1>0, <1>1, <1>6, <3>2, <3>3 DEF LegacyFails, NewChain, StoredTypeOK
  <2>. QED BY <2>1, <2>2
<1>7. CASE Pause
  <2>1. CASE Return
    BY <1>1, <1>7, <2>1, ReturnFacts DEF Pause, StoredTypeOK
  <2>2. CASE ~Return
    BY <1>0, <1>1, <1>7, <2>2 DEF Pause, FetchTypeOK, StoredTypeOK
  <2>. QED BY <2>1, <2>2
<1>8. CASE CaptchaAsked
  <2>1. captchas' \in 0..CaptchaLimit
    BY <1>0, <1>8 DEF CaptchaAsked, TooMany, FetchTypeOK
  <2>. QED BY <1>0, <1>1, <1>8, <2>1 DEF CaptchaAsked, FetchTypeOK, StoredTypeOK
<1>9. CASE CaptchaTooMany
  BY <1>1, <1>9, ReturnFacts DEF CaptchaTooMany, GiveUpCaptcha, StoredTypeOK
<1>. QED
  BY <1>2, <1>3, <1>4, <1>5, <1>6, <1>7, <1>8, <1>9
     DEF VKCallsPath, CallsGoOn, CallsUnavailable, TokenChain, LegacyGoesOn, LegacyUnavailable

-------------------------------------------------------------------------------
(* The solver in Go, which asks nobody either.                             *)
LEMMA SolverInv ==
    ASSUME Inv, SolverInGo
    PROVE  Inv'
<1>. USE DEF Inv
<1>0. pc \notin {"prompt", "wait"} => open = FALSE /\ prompted = FALSE
  BY DEF AskInv
<1>1. ASSUME UNCHANGED <<Outside, chan, mismatched>>, FetchTypeOK', StoredTypeOK',
             pc \notin {"prompt", "wait"}, pc' \notin {"prompt", "wait"},
             open' = FALSE, prompted' = FALSE
      PROVE  Inv'
  BY <1>1, NothingAsked DEF OutsideTypeOK
<1>2. ASSUME pc \notin {"prompt", "wait"}, TryFails \/ RateLimited,
             UNCHANGED <<chan, mismatched>>
      PROVE  Inv'
  <2>1. CASE TryFails
    BY <1>0, <1>1, <1>2, <2>1, TryFailsFacts
  <2>2. CASE RateLimited
    BY <1>1, <1>2, <2>2, StageFailsFacts DEF RateLimited
  <2>. QED BY <1>2, <2>1, <2>2
<1>3. ASSUME pc \notin {"prompt", "wait"}, V2Solved, UNCHANGED <<chan, mismatched>>
      PROVE  Inv'
  BY <1>0, <1>1, <1>3, SolvedFacts DEF V2Solved
<1>4. ASSUME pc \notin {"prompt", "wait"}, pc' \in {"checkbox", "slider", "check"},
             checks' \in 0..MaxSliderChecks, Unmoved, UNCHANGED <<chan, mismatched>>
      PROVE  Inv'
  <2>1. FetchTypeOK' /\ StoredTypeOK'
    BY <1>4 DEF Unmoved, FetchTypeOK, StoredTypeOK
  <2>. QED BY <1>0, <1>1, <1>4, <2>1 DEF Unmoved
<1>5. CASE Solve
  <2>1. FetchTypeOK' /\ pc' \in {"page", "drain"}
    BY <1>5, EnterStageFacts DEF Solve
  <2>. QED BY <1>0, <1>1, <1>5, <2>1 DEF Solve, StoredTypeOK
<1>6. CASE Breathe
  <2>1. CASE /\ EnterStage(StageAfter[stage])
             /\ UNCHANGED <<Outside, chan, injected, lockout, askVars, mismatched>>
    <3>1. FetchTypeOK' /\ pc' \in {"page", "drain"}
      BY <2>1, EnterStageFacts
    <3>. QED BY <1>0, <1>1, <1>6, <2>1, <3>1 DEF Breathe, StoredTypeOK
  <2>2. CASE GiveUpCaptcha
    BY <1>1, <1>6, <2>2, ReturnFacts DEF Breathe, GiveUpCaptcha, StoredTypeOK
  <2>. QED BY <1>6, <2>1, <2>2 DEF Breathe
<1>7. CASE Page
  BY <1>2, <1>4, <1>7 DEF Page, FetchTypeOK
<1>8. CASE Checkbox
  BY <1>2, <1>3, <1>4, <1>8 DEF Checkbox, FetchTypeOK
<1>9. CASE Slider
  <2>1. CASE Answered /\ pc' = "check" /\ checks' \in 1..MaxSliderChecks /\ Unmoved
    BY <1>4, <1>9, <2>1 DEF Slider, MaxSliderChecks
  <2>. QED BY <1>2, <1>9, <2>1 DEF Slider
<1>10. CASE Check
  <2>1. CASE Answered /\ checks > 1 /\ pc' = "check" /\ checks' = checks - 1 /\ Unmoved
    <3>1. checks' \in 0..MaxSliderChecks
      BY <2>1 DEF FetchTypeOK, MaxSliderChecks
    <3>. QED BY <1>4, <1>10, <2>1, <3>1 DEF Check
  <2>. QED BY <1>2, <1>3, <1>10, <2>1 DEF Check
<1>. QED BY <1>5, <1>6, <1>7, <1>8, <1>9, <1>10 DEF SolverInGo

-------------------------------------------------------------------------------
(* The prompts: what is taken was sent for the prompt that takes it.       *)
LEMMA TakeFacts ==
    ASSUME Inv, Take, pc' \notin {"prompt", "wait"}, open' = FALSE, prompted' = FALSE
    PROVE  AskInv'
BY DEF Inv, AskInv, Take

LEMMA WaitOverFacts ==
    ASSUME Inv, WaitOver, UNCHANGED mismatched,
           pc' \notin {"prompt", "wait"}, open' = FALSE, prompted' = FALSE
    PROVE  AskInv'
<1>. USE DEF Inv, AskInv
<1>1. CASE chan = <<>>
  <2>1. chan' = <<>>
    BY <1>1 DEF WaitOver
  <2>. QED BY <2>1
<1>2. CASE chan # <<>>
  <2>1. PICK m \in Message : chan = <<m>>
    BY <1>2
  <2>. DEFINE n == [m EXCEPT !.asked = FALSE, !.answers = FALSE]
  <2>2. n \in Message /\ n.answers = FALSE
    BY DEF Message
  <2>3. chan' = <<n>>
    <3>1. DOMAIN chan = {1} /\ chan[1] = m
      BY <2>1
    <3>2. chan' = [i \in {1} |-> n]
      BY <3>1 DEF WaitOver
    <3>3. <<n>> = [i \in {1} |-> n]
      OBVIOUS
    <3>. QED BY <3>2, <3>3
  <2>4. Head(chan') = n
    BY <2>3
  <2>. HIDE DEF n
  <2>. QED BY <2>2, <2>3, <2>4 DEF Answer
<1>. QED BY <1>1, <1>2

LEMMA AsksInv ==
    ASSUME Inv, LinkKnown, Ask
    PROVE  Inv'
<1>. USE DEF Inv
<1>1. CASE Drain
  <2>1. FetchTypeOK' /\ OutsideTypeOK' /\ StoredTypeOK'
    BY <1>1 DEF Drain, FetchTypeOK, OutsideTypeOK, StoredTypeOK
  <2>2. AskInv'
    BY <1>1 DEF Drain, AskInv
  <2>. QED BY <2>1, <2>2
<1>2. CASE Prompt
  <2>1. FetchTypeOK' /\ OutsideTypeOK' /\ StoredTypeOK'
    BY <1>2 DEF Prompt, FetchTypeOK, OutsideTypeOK, StoredTypeOK
  <2>2. AskInv'
    BY <1>2 DEF Prompt, AskInv, Answer
  <2>. QED BY <2>1, <2>2
<1>3. CASE TakeToken
  <2>1. FetchTypeOK' /\ StoredTypeOK' /\ pc' = "legacy" /\ UNCHANGED Outside
    BY <1>3, SolvedFacts DEF TakeToken
  <2>2. AskInv'
    BY <1>3, <2>1, TakeFacts DEF TakeToken
  <2>. QED BY <2>1, <2>2 DEF OutsideTypeOK
<1>4. CASE TakeRefusal
  <2>1. AskInv'
    BY <1>4, StageFailsFacts, TakeFacts DEF TakeRefusal
  <2>. QED BY <1>4, <2>1, StageFailsFacts DEF TakeRefusal, OutsideTypeOK
<1>5. CASE TakeCreds
  <2>1. AskInv'
    BY <1>5, ReturnFacts, TakeFacts DEF TakeCreds
  <2>2. StoredTypeOK'
    <3>1. chan # <<>> /\ pc = "wait"
      BY <1>5 DEF TakeCreds, Take
    <3>. QED BY <1>5, <3>1 DEF TakeCreds, LinkKnown, FetchTypeOK, StoredTypeOK
  <2>. QED BY <1>5, <2>1, <2>2, ReturnFacts DEF TakeCreds, OutsideTypeOK
<1>6. CASE CaptchaWaitOver
  <2>1. AskInv'
    BY <1>6, StageFailsFacts, WaitOverFacts DEF CaptchaWaitOver
  <2>. QED BY <1>6, <2>1, StageFailsFacts DEF CaptchaWaitOver, OutsideTypeOK
<1>7. CASE CredsWaitOver
  <2>1. AskInv'
    BY <1>7, ReturnFacts, WaitOverFacts DEF CredsWaitOver
  <2>. QED BY <1>7, <2>1, ReturnFacts DEF CredsWaitOver, OutsideTypeOK, StoredTypeOK
<1>. QED BY <1>1, <1>2, <1>3, <1>4, <1>5, <1>6, <1>7 DEF Ask

-------------------------------------------------------------------------------
(* A fetch that begins, the reader of stdin, and the environment.          *)
LEMMA BeginInv ==
    ASSUME Inv, NEW l \in Link, Begin(l)
    PROVE  Inv'
<1>. USE DEF Inv
<1>1. FetchTypeOK' /\ OutsideTypeOK' /\ StoredTypeOK'
  BY DEF Begin, FetchTypeOK, OutsideTypeOK, StoredTypeOK
<1>2. pc' \notin {"prompt", "wait"}
  BY DEF Begin, OutsideTypeOK
<1>. QED BY <1>1, <1>2, NothingAsked DEF Begin, AskInv

LEMMA StdinInv ==
    ASSUME Inv, Stdin
    PROVE  Inv'
<1>. USE DEF Inv
<1>1. FetchTypeOK' /\ UNCHANGED <<pc, open, prompted, mismatched>>
  BY DEF Stdin, ReadCaptchaResult, ReadTurnCreds, ReadLast, DrainOld, Send, FetchTypeOK
<1>2. OutsideTypeOK' /\ StoredTypeOK'
  BY DEF Stdin, ReadCaptchaResult, ReadTurnCreds, ReadLast, DrainOld, Send, OutsideTypeOK,
         StoredTypeOK
<1>3. CASE UNCHANGED chan
  BY <1>1, <1>2, <1>3 DEF AskInv, Answer
<1>4. CASE DrainOld
  BY <1>1, <1>2, <1>4 DEF DrainOld, AskInv
<1>5. CASE Send
  <2>. DEFINE m == [value |-> inValue, asked |-> open, answers |-> prompted]
  <2>1. m \in Message
    BY DEF Message, AskInv, OutsideTypeOK
  <2>2. chan' = <<m>> /\ Head(chan') = m /\ m.asked = open /\ m.answers = prompted
    BY <1>5 DEF Send
  <2>. HIDE DEF m
  <2>3. AskInv'
    BY <1>1, <2>1, <2>2 DEF AskInv, Answer
  <2>. QED BY <1>1, <1>2, <2>3
<1>. QED BY <1>3, <1>4, <1>5 DEF Stdin, ReadCaptchaResult, ReadTurnCreds, ReadLast

LEMMA OutsideInv ==
    ASSUME Inv, Signal \/ LockoutOver \/ (\E l \in Link : Expires(l)) \/ UNCHANGED vars
    PROVE  Inv'
<1>. USE DEF Inv
<1>1. UNCHANGED <<fetchVars, askVars, solveVars, chan, mismatched, modeVars, stdinVars>>
  BY DEF Signal, LockoutOver, Expires, vars
<1>2. FetchTypeOK' /\ AskInv'
  BY <1>1 DEF FetchTypeOK, AskInv, Answer
<1>3. injected' \subseteq injected /\ stopped' \in BOOLEAN /\ lockout' \in BOOLEAN
  BY DEF Signal, LockoutOver, Expires, vars, OutsideTypeOK, StoredTypeOK
<1>4. OutsideTypeOK' /\ StoredTypeOK'
  BY <1>1, <1>3 DEF OutsideTypeOK, StoredTypeOK
<1>. QED BY <1>2, <1>4

(* No step of a fetch but its beginning sets the link.                     *)
LEMMA LinkStep ==
    ASSUME Inv, LinkKnown, [Next]_vars
    PROVE  LinkKnown'
<1>. USE DEF LinkKnown
<1>1. ASSUME UNCHANGED authMode, pc # "idle", UNCHANGED link \/ pc' = "idle"
      PROVE  LinkKnown'
  BY <1>1
<1>2. CASE LookUp \/ VKCallsPath
  BY <1>1, <1>2 DEF LookUp, VKCallsPath, CallsGoOn, CallsFail, CallsUnavailable, NextStep,
     CallUnavailable, NewChain, Return
<1>3. CASE TokenChain
  BY <1>1, <1>3 DEF TokenChain, LegacyGoesOn, PreviewFails, LegacyUnavailable, LegacyFails,
     Pause, CaptchaAsked, CaptchaTooMany, GiveUpCaptcha, NextStep, CallUnavailable, NewChain,
     Return
<1>4. ASSUME TryFails \/ StageFails PROVE UNCHANGED authMode /\ (UNCHANGED link \/ pc' = "idle")
  BY <1>4 DEF TryFails, StageFails, EnterStage, Return
<1>5. CASE SolverInGo
  BY <1>1, <1>4, <1>5 DEF SolverInGo, Solve, Breathe, Page, Checkbox, Slider, Check,
     RateLimited, V2Solved, Solved, Unmoved, EnterStage, GiveUpCaptcha, Return
<1>6. CASE Ask
  BY <1>1, <1>4, <1>6 DEF Ask, Drain, Prompt, TakeToken, TakeRefusal, TakeCreds, Take,
     CaptchaWaitOver, CredsWaitOver, WaitOver, Solved, Return
<1>7. ASSUME NEW l \in Link, Begin(l) PROVE LinkKnown'
  BY <1>7 DEF Begin
<1>8. CASE UNCHANGED <<authMode, pc, link>>
  BY <1>8
<1>. QED
  BY <1>2, <1>3, <1>5, <1>6, <1>7, <1>8
     DEF Next, Fetch, Stdin, ReadCaptchaResult, ReadTurnCreds, ReadLast, DrainOld, Send,
         Signal, LockoutOver, Expires, vars

LEMMA AnswersInv == Spec => [](Inv /\ LinkKnown)
<1>1. Init => Inv /\ LinkKnown
  BY InitInv DEF Init, AtRest, LinkKnown
<1>2. ASSUME Inv /\ LinkKnown, [Next]_vars PROVE (Inv /\ LinkKnown)'
  <2>1. Inv'
    BY <1>2, ChainsInv, SolverInv, AsksInv, BeginInv, StdinInv, OutsideInv DEF Next, Fetch
  <2>. QED BY <1>2, <2>1, LinkStep
<1>. QED BY <1>1, <1>2, PTL DEF Spec

-------------------------------------------------------------------------------
(* The types of the variables, with the limits of attempts, captchas and   *)
(* tries: getTokenChain (creds.go) solves at most CaptchaLimit captchas,   *)
(* fetchVkCreds makes at most AttemptLimit attempts.                       *)
THEOREM TypeCorrect == Spec => []TypeOK
<1>1. Inv => TypeOK
  <2>. SUFFICES ASSUME Inv PROVE TypeOK
    OBVIOUS
  <2>1. Len(chan) \in 0..1
    BY DEF Inv, AskInv
  <2>2. prompted \in BOOLEAN /\ open \in BOOLEAN /\ mismatched \in BOOLEAN
    BY DEF Inv, AskInv
  <2>. QED BY <2>1, <2>2 DEF Inv, FetchTypeOK, OutsideTypeOK, StoredTypeOK, TypeOK
<1>. QED BY <1>1, AnswersInv, PTL

(* An answer is taken by the prompt it answers: requestWebViewCaptcha and  *)
(* requestAccountTurnCreds take none that was sent before they drained the *)
(* channel, and throw away none that answers the prompt they wait for.     *)
THEOREM AnswersMatch == Spec => []AnswersMatchPrompts
<1>1. Inv => AnswersMatchPrompts
  BY DEF Inv, AskInv, AnswersMatchPrompts
<1>. QED BY <1>1, AnswersInv, PTL

-------------------------------------------------------------------------------
(* What StdinNeverBlocks rests on: nobody but the reader of stdin puts     *)
(* anything into the channel, so between its drain and its send nothing    *)
(* comes that it would have to wait behind (main.go:159, vk_account.go).   *)
SendReady == inPc = "send" => chan = <<>>

(* A step of a fetch, which empties the channel, spoils what is in it or   *)
(* leaves it alone.                                                        *)
LEMMA FetchFillsNothing ==
    ASSUME chan = <<>>, Fetch
    PROVE  chan' = <<>>
<1>1. CASE LookUp \/ VKCallsPath
  BY <1>1 DEF LookUp, VKCallsPath, CallsGoOn, CallsFail, CallsUnavailable, NextStep,
     CallUnavailable
<1>2. CASE TokenChain
  BY <1>2 DEF TokenChain, LegacyGoesOn, PreviewFails, LegacyUnavailable, LegacyFails,
     Pause, CaptchaAsked, CaptchaTooMany, GiveUpCaptcha, NextStep, CallUnavailable
<1>3. CASE SolverInGo
  BY <1>3 DEF SolverInGo, Solve, Breathe, Page, Checkbox, Slider, Check, GiveUpCaptcha
<1>4. CASE Ask
  BY <1>4 DEF Ask, Drain, Prompt, TakeToken, TakeRefusal, TakeCreds, Take, CaptchaWaitOver,
     CredsWaitOver, WaitOver
<1>. QED BY <1>1, <1>2, <1>3, <1>4 DEF Fetch

LEMMA FetchNotReading ==
    ASSUME Fetch
    PROVE  UNCHANGED inPc
<1>1. ASSUME TryFails \/ StageFails PROVE UNCHANGED inPc
  BY <1>1 DEF TryFails, StageFails
<1>. QED
  BY <1>1 DEF Fetch, LookUp, VKCallsPath, CallsGoOn, CallsFail, CallsUnavailable, NextStep,
     CallUnavailable, TokenChain, LegacyGoesOn, PreviewFails, LegacyUnavailable, LegacyFails,
     Pause, CaptchaAsked, CaptchaTooMany, GiveUpCaptcha, SolverInGo, Solve, Breathe, Page,
     Checkbox, Slider, Check, RateLimited, V2Solved, Solved, Unmoved, Ask, Drain, Prompt,
     TakeToken, TakeRefusal, TakeCreds, CaptchaWaitOver, CredsWaitOver

(* The reader of stdin finds the channel empty whenever it is about to     *)
(* send: its drain and its send need no requester in between.              *)
THEOREM SendNeverWaits == Spec => []SendReady
<1>1. Init => SendReady
  BY DEF Init, SendReady
<1>2. ASSUME SendReady, [Next]_vars PROVE SendReady'
  <2>1. CASE Fetch
    BY <1>2, <2>1, FetchFillsNothing, FetchNotReading DEF SendReady
  <2>2. CASE Stdin
    BY <1>2, <2>2 DEF Stdin, ReadCaptchaResult, ReadTurnCreds, ReadLast, DrainOld, Send, SendReady
  <2>3. CASE UNCHANGED <<inPc, chan>>
    BY <1>2, <2>3 DEF SendReady
  <2>4. UNCHANGED <<inPc, chan>> \/ Fetch \/ Stdin
    BY <1>2 DEF Next, Signal, LockoutOver, Expires, Begin, vars
  <2>. QED BY <2>1, <2>2, <2>3, <2>4
<1>. QED BY <1>1, <1>2, PTL DEF Spec
===============================================================================
