--------------------------------- MODULE Answers ---------------------------------
(***************************************************************************)
(* How credentials are fetched, and who is asked on the way: fetchVkCreds, *)
(* one call at a time under vkRequestMu, with the requests to VK, the      *)
(* captchas among them and the prompts that are answered over stdin, and   *)
(* the goroutine that reads stdin.  The answers come through a channel of  *)
(* one place, which the reader of stdin and the requester both drain.      *)
(***************************************************************************)
EXTENDS Naturals, Sequences

CONSTANTS
    Link,          \* the links of the calls
    AttemptLimit,  \* vkCredentialAttemptLimit
    CaptchaLimit   \* captchas that one chain of requests solves

ASSUME AnswersAssumption ==
    /\ Link # {}
    /\ AttemptLimit \in Nat \ {0} /\ CaptchaLimit \in Nat \ {0}

NumCredentials == 2      \* Len(vkCredentialsList)
MaxSliderChecks == 2     \* captchaV2MaxSliderChecks

Results == {"token", "refusal"}   \* of a captcha; a time-out or nothing refuses, too
NoValue == "none"

VARIABLES
    authMode,     \* vkAuthModeValue and vkAnonPathValue
    captchaMode,  \* captchaModeValue
    stopped,      \* the context of the client is done
    inPc,         \* where the reader of stdin is
    inValue,      \* the answer it has read
    chan,         \* TurnCredsResultChan for an account, else CaptchaResultChan
    injected,     \* the links in injectedCredsByLink that have not expired
    lockout,      \* the time is before globalCaptchaLockout
    pc,           \* where the call of fetchVkCreds is
    link,         \* the link it is for
    attempt,      \* its attempt with the legacy chain
    step,         \* the step of its chain
    captchas,     \* the captchas solved in this chain
    stage,        \* the stage of solveCaptchaBySelectedMode
    tries,        \* the tries solveVkCaptchaV2Attempts has left
    checks,       \* the guesses solveSliderCaptcha has left
    prompted,     \* the prompt was printed and is waited for
    open,         \* the channel was drained for a request that is not over
    mismatched    \* history: an answer went to a prompt it does not belong to

modeVars == <<authMode, captchaMode>>
stdinVars == <<inPc, inValue>>
solveVars == <<captchas, stage, tries, checks>>
fetchVars == <<pc, link, attempt, step>>
askVars == <<prompted, open>>
vars == <<modeVars, stopped, stdinVars, chan, injected, lockout, fetchVars,
          solveVars, askVars, mismatched>>

AtRest ==
    /\ pc = "idle" /\ link = NoValue /\ attempt = 0 /\ step = 0
    /\ captchas = 0 /\ stage = NoValue /\ tries = 0 /\ checks = 0
    /\ prompted = FALSE /\ open = FALSE

Init ==
    /\ authMode \in {"account", "vkcalls", "legacy"}
    /\ captchaMode \in {"wv", "rjs", "auto"}
    /\ stopped = FALSE
    /\ inPc = "read" /\ inValue = NoValue
    /\ chan = <<>>
    /\ injected \in SUBSET Link
    /\ authMode = "account" => captchaMode = "auto"
    /\ authMode # "account" => injected = {}
    /\ lockout = FALSE
    /\ AtRest
    /\ mismatched = FALSE

-------------------------------------------------------------------------------
(* The environment: a signal, and time.                                    *)
Signal ==
    /\ ~stopped /\ stopped' = TRUE
    /\ UNCHANGED <<modeVars, stdinVars, chan, injected, lockout, fetchVars, solveVars, askVars, mismatched>>

Expires(l) ==
    /\ l \in injected /\ injected' = injected \ {l}
    /\ UNCHANGED <<modeVars, stopped, stdinVars, chan, lockout, fetchVars, solveVars, askVars, mismatched>>

LockoutOver ==
    /\ lockout /\ lockout' = FALSE
    /\ UNCHANGED <<modeVars, stopped, stdinVars, chan, injected, fetchVars, solveVars, askVars, mismatched>>

-------------------------------------------------------------------------------
(* The reader of stdin.  A line that cannot be decoded is skipped, and so  *)
(* are here those for the channel that nobody reads in this mode.          *)
ReadCaptchaResult ==
    /\ inPc = "read" /\ authMode # "account"
    /\ inPc' = "drain" /\ inValue' \in Results
    /\ UNCHANGED <<modeVars, stopped, chan, injected, lockout, fetchVars, solveVars, askVars, mismatched>>

(* handleTurnCredsStdinLine: "error:" cancels, credentials are stored      *)
(* under the link of the line before they are passed on.                   *)
ReadTurnCreds ==
    /\ inPc = "read" /\ authMode = "account"
    /\ inPc' = "drain"
    /\ \/ inValue' = "empty" /\ UNCHANGED injected
       \/ \E l \in Link : inValue' = l /\ injected' = injected \cup {l}
    /\ UNCHANGED <<modeVars, stopped, chan, lockout, fetchVars, solveVars, askVars, mismatched>>

(* STOP, or the end of stdin.                                              *)
ReadLast ==
    /\ inPc = "read" /\ inPc' = "over"
    /\ stopped' \in {stopped, TRUE}
    /\ UNCHANGED <<modeVars, inValue, chan, injected, lockout, fetchVars, solveVars, askVars, mismatched>>

(* Mutant: what nobody took is left in the channel.                        *)
DrainOldKeeps ==
    /\ inPc = "drain" /\ inPc' = "send"
    /\ UNCHANGED <<modeVars, stopped, inValue, chan, injected, lockout,
                   fetchVars, solveVars, askVars, mismatched>>

DrainOld ==
    /\ inPc = "drain" /\ inPc' = "send"
    /\ chan' = <<>>
    /\ UNCHANGED <<modeVars, stopped, inValue, injected, lockout,
                   fetchVars, solveVars, askVars, mismatched>>

Send ==
    /\ inPc = "send" /\ chan = <<>>
    /\ chan' = <<[value |-> inValue, asked |-> open, answers |-> prompted]>>
    /\ inPc' = "read" /\ inValue' = NoValue
    /\ UNCHANGED <<modeVars, stopped, injected, lockout, fetchVars, solveVars, askVars, mismatched>>

Stdin == ReadCaptchaResult \/ ReadTurnCreds \/ ReadLast \/ DrainOld \/ Send

-------------------------------------------------------------------------------
(* fetchVkCreds.                                                           *)
Outside == <<modeVars, stopped, stdinVars>>

Return ==
    /\ pc' = "idle" /\ link' = NoValue /\ attempt' = 0 /\ step' = 0
    /\ captchas' = 0 /\ stage' = NoValue /\ tries' = 0 /\ checks' = 0
    /\ prompted' = FALSE /\ open' = FALSE

NewChain(path) ==
    /\ pc' = path /\ step' = 1 /\ captchas' = 0
    /\ UNCHANGED <<link, stage, tries, checks, askVars>>

(* A group's first fetch or its refresh, which forgets what was injected.  *)
Begin(l) ==
    /\ pc = "idle"
    /\ link' = IF authMode = "account" THEN l ELSE NoValue
    /\ pc' = IF authMode = "account" THEN "lookUp" ELSE authMode
    /\ step' = IF authMode = "account" THEN 0 ELSE 1
    /\ authMode # "account" => ~lockout
    /\ injected' \in {injected, injected \ {l}}
    /\ UNCHANGED <<Outside, chan, lockout, attempt, solveVars, askVars, mismatched>>

(* getInjectedTurnCreds.                                                   *)
LookUp ==
    /\ pc = "lookUp"
    /\ IF link \in injected
       THEN Return
       ELSE /\ pc' = "drain"
            /\ UNCHANGED <<link, attempt, step, solveVars, askVars>>
    /\ UNCHANGED <<Outside, chan, injected, lockout, mismatched>>

(* VK answers, or the request fails; once the client stops it fails.       *)
Answered == ~stopped

(* VK says that the call is unavailable: the fetch ends.                   *)
CallUnavailable ==
    /\ Answered
    /\ Return
    /\ UNCHANGED <<Outside, chan, injected, lockout, mismatched>>

NextStep(last) ==
    /\ Answered
    /\ IF step = last
       THEN Return
       ELSE step' = step + 1 /\ UNCHANGED <<pc, link, attempt, solveVars, askVars>>
    /\ UNCHANGED <<Outside, chan, injected, lockout, mismatched>>

(* getVKCredsViaVKCallsPath: five requests; any failure but an unavailable *)
(* call, which only the requests to messages.* tell, leads to the legacy   *)
(* chain.                                                                  *)
CallsGoOn == pc = "vkcalls" /\ NextStep(5)

CallsFail ==
    /\ pc = "vkcalls"
    /\ NewChain("legacy")
    /\ UNCHANGED <<Outside, attempt, chan, injected, lockout, mismatched>>

CallsUnavailable == pc = "vkcalls" /\ step \in {2, 3} /\ CallUnavailable

VKCallsPath == CallsGoOn \/ CallsFail \/ CallsUnavailable

(* getTokenChain: a failure of step 2 is ignored.                          *)
LegacyGoesOn == pc = "legacy" /\ NextStep(5)

PreviewFails ==
    /\ pc = "legacy" /\ step = 2
    /\ step' = 3
    /\ UNCHANGED <<Outside, pc, link, attempt, solveVars, askVars, chan, injected, lockout, mismatched>>

LegacyUnavailable == pc = "legacy" /\ step \in {2, 3} /\ CallUnavailable

(* The next attempt takes the other credentials; the pair is tried again   *)
(* after a pause.                                                          *)
LegacyFails ==
    /\ pc = "legacy" /\ step # 2
    /\ IF attempt + 1 = AttemptLimit
       THEN Return
       ELSE /\ attempt' = attempt + 1
            /\ NewChain(IF attempt % NumCredentials = NumCredentials - 1
                        THEN "pause" ELSE "legacy")
    /\ UNCHANGED <<Outside, chan, injected, lockout, mismatched>>

Pause ==
    /\ pc = "pause"
    /\ \/ pc' = "legacy" /\ UNCHANGED <<link, attempt, step, solveVars, askVars>>
       \/ stopped /\ Return
    /\ UNCHANGED <<Outside, chan, injected, lockout, mismatched>>

TooMany == captchas >= CaptchaLimit

(* Mutant: one captcha more.                                               *)
CaptchaAskedOneMore ==
    /\ pc = "legacy" /\ step = 3 /\ Answered /\ captchas <= CaptchaLimit
    /\ pc' = "solve" /\ captchas' = captchas + 1
    /\ UNCHANGED <<Outside, link, attempt, step, stage, tries, checks, askVars, chan, injected, lockout, mismatched>>

(* Step 3 is answered with a captcha; captchas counts the loop of step 3.  *)
CaptchaAsked ==
    /\ pc = "legacy" /\ step = 3 /\ Answered /\ ~TooMany
    /\ pc' = "solve" /\ captchas' = captchas + 1
    /\ UNCHANGED <<Outside, link, attempt, step, stage, tries, checks, askVars, chan, injected, lockout, mismatched>>

GiveUpCaptcha ==
    /\ lockout' = TRUE
    /\ Return
    /\ UNCHANGED <<Outside, chan, injected, mismatched>>

CaptchaTooMany == pc = "legacy" /\ step = 3 /\ Answered /\ TooMany /\ GiveUpCaptcha

TokenChain ==
    LegacyGoesOn \/ PreviewFails \/ LegacyUnavailable \/ LegacyFails \/ Pause
        \/ CaptchaAsked \/ CaptchaTooMany

-------------------------------------------------------------------------------
(* solveCaptchaBySelectedMode: the stages follow each other until one      *)
(* solves the captcha; "v2" is the solver in Go, the others are prompts.   *)
FirstStage == [wv |-> "selected", rjs |-> "v2rjs", auto |-> "v2first"]
StageAfter == [v2rjs |-> "rjsPrompt", v2first |-> "auto1", auto1 |-> "auto2",
               auto2 |-> "v2last", v2last |-> "manual"]
TriesOf == [v2rjs |-> 2, v2first |-> 2, v2last |-> 1]

EnterStage(s) ==
    /\ stage' = s
    /\ IF s \in DOMAIN TriesOf
       THEN pc' = "page" /\ tries' = TriesOf[s]
       ELSE pc' = "drain" /\ tries' = 0
    /\ checks' = 0
    /\ UNCHANGED <<link, attempt, step, captchas>>

Solve ==
    /\ pc = "solve"
    /\ EnterStage(FirstStage[captchaMode])
    /\ UNCHANGED <<Outside, chan, injected, lockout, askVars, mismatched>>

(* The captcha is solved: step 3 is asked again with the token.            *)
Solved ==
    /\ pc' = "legacy" /\ stage' = NoValue /\ tries' = 0 /\ checks' = 0
    /\ UNCHANGED <<Outside, link, attempt, step, captchas, injected, lockout>>

(* What follows a stage that failed; the solver in Go returns no error     *)
(* that isCaptchaSessionDead recognises.                                   *)
StageFails ==
    \/ /\ ~stopped /\ stage \in DOMAIN StageAfter
       /\ IF stage \in {"auto1", "auto2"}
          THEN pc' = "breathe" /\ UNCHANGED <<link, attempt, step, solveVars>>
          ELSE EnterStage(StageAfter[stage])
       /\ prompted' = FALSE /\ open' = FALSE
       /\ UNCHANGED <<Outside, injected, lockout>>
    \/ /\ stopped \/ stage \notin DOMAIN StageAfter
       /\ lockout' = TRUE
       /\ Return
       /\ UNCHANGED <<Outside, injected>>

(* The pause after an automatic prompt.                                    *)
Breathe ==
    /\ pc = "breathe"
    /\ \/ EnterStage(StageAfter[stage]) /\ UNCHANGED <<Outside, chan, injected, lockout, askVars, mismatched>>
       \/ stopped /\ GiveUpCaptcha

(* solveVkCaptchaV2Attempts: a rate limit or the last try ends it, and so  *)
(* does a stop in the pause after a try.                                   *)
TryFails ==
    IF tries > 1 /\ ~stopped
    THEN /\ pc' = "page" /\ tries' = tries - 1 /\ checks' = 0
         /\ UNCHANGED <<Outside, link, attempt, step, captchas, stage, injected, lockout, askVars>>
    ELSE StageFails

V2Solved == Answered /\ Solved /\ UNCHANGED askVars
RateLimited == Answered /\ StageFails
Unmoved == UNCHANGED <<Outside, link, attempt, step, captchas, stage, tries, injected, lockout, askVars>>

(* solveOnce up to the first show_type: the page, the proof of work, the   *)
(* settings and the debug info.                                            *)
Page ==
    /\ pc = "page"
    /\ \/ TryFails
       \/ Answered /\ pc' = "checkbox" /\ UNCHANGED checks /\ Unmoved
       \/ Answered /\ pc' = "slider" /\ UNCHANGED checks /\ Unmoved
    /\ UNCHANGED <<chan, mismatched>>

(* solveCheckboxCaptcha; another show_type, or the verdict BOT, leads to   *)
(* the slider, which ends the loop whatever its outcome: only the checkbox *)
(* reports another type (captcha_v2.go:591).                               *)
Checkbox ==
    /\ pc = "checkbox"
    /\ \/ TryFails
       \/ RateLimited
       \/ V2Solved
       \/ Answered /\ pc' = "slider" /\ UNCHANGED checks /\ Unmoved
    /\ UNCHANGED <<chan, mismatched>>

(* solveSliderCaptcha: the puzzle, then the best guesses.                  *)
Slider ==
    /\ pc = "slider"
    /\ \/ TryFails
       \/ RateLimited
       \/ Answered /\ pc' = "check" /\ checks' \in 1..MaxSliderChecks /\ Unmoved
    /\ UNCHANGED <<chan, mismatched>>

Check ==
    /\ pc = "check"
    /\ \/ TryFails
       \/ RateLimited
       \/ V2Solved
       \/ Answered /\ checks > 1 /\ pc' = "check" /\ checks' = checks - 1 /\ Unmoved
    /\ UNCHANGED <<chan, mismatched>>

SolverInGo == Solve \/ Breathe \/ Page \/ Checkbox \/ Slider \/ Check

-------------------------------------------------------------------------------
(* requestWebViewCaptcha and requestAccountTurnCreds: the channel is       *)
(* drained, the prompt is printed, and the answer is waited for.           *)
Answer == Head(chan)

(* Mutant: the channel is not drained.                                     *)
DrainNothing ==
    /\ pc = "drain" /\ pc' = "prompt" /\ open' = TRUE
    /\ UNCHANGED <<Outside, link, attempt, step, solveVars, prompted, chan, injected, lockout, mismatched>>

Drain ==
    /\ pc = "drain" /\ pc' = "prompt" /\ open' = TRUE
    /\ mismatched' = (mismatched \/ (chan # <<>> /\ Answer.answers))
    /\ chan' = <<>>
    /\ UNCHANGED <<Outside, link, attempt, step, solveVars, prompted, injected, lockout>>

Prompt ==
    /\ pc = "prompt" /\ pc' = "wait" /\ prompted' = TRUE
    /\ UNCHANGED <<Outside, link, attempt, step, solveVars, open, chan, injected, lockout, mismatched>>

Take ==
    /\ pc = "wait" /\ chan # <<>>
    /\ chan' = <<>>
    /\ mismatched' = (mismatched \/ ~Answer.asked)

TakeToken ==
    /\ Take /\ Answer.value = "token"
    /\ Solved
    /\ prompted' = FALSE /\ open' = FALSE

TakeRefusal == Take /\ authMode # "account" /\ Answer.value # "token" /\ StageFails

(* What is taken is stored under the link that is asked for, whatever link *)
(* it came for.                                                            *)
TakeCreds ==
    /\ Take /\ authMode = "account"
    /\ injected' = IF Answer.value = "empty" THEN injected ELSE injected \cup {link}
    /\ Return
    /\ UNCHANGED <<Outside, lockout>>

(* What comes too late stays in the channel, as an answer to no prompt.    *)
WaitOver ==
    /\ pc = "wait"
    /\ chan' = [i \in DOMAIN chan |-> [chan[i] EXCEPT !.asked = FALSE, !.answers = FALSE]]

(* Mutant: nothing but a stop ends the wait.                               *)
CaptchaWaitOverOnStop ==
    /\ WaitOver /\ authMode # "account" /\ stopped /\ StageFails
    /\ UNCHANGED mismatched

(* The time-out of a captcha's prompt, which a stop does not shorten.      *)
CaptchaWaitOver ==
    /\ WaitOver /\ authMode # "account" /\ StageFails
    /\ UNCHANGED mismatched

(* Five minutes, or the stop.                                              *)
CredsWaitOver ==
    /\ WaitOver /\ authMode = "account" /\ Return
    /\ UNCHANGED <<Outside, injected, lockout, mismatched>>

Ask == Drain \/ Prompt \/ TakeToken \/ TakeRefusal \/ TakeCreds \/ CaptchaWaitOver \/ CredsWaitOver

Fetch == LookUp \/ VKCallsPath \/ TokenChain \/ SolverInGo \/ Ask

Next ==
    \/ Signal \/ LockoutOver \/ \E l \in Link : Expires(l) \/ Begin(l)
    \/ Stdin \/ Fetch

(* Requests, prompts and pauses have time-outs; what stdin has been read   *)
(* is worked on.  Nobody need answer.                                      *)
Spec ==
    /\ Init /\ [][Next]_vars
    /\ WF_vars(DrainOld) /\ WF_vars(Send)
    /\ WF_vars(Fetch)

-------------------------------------------------------------------------------
(* The types of the variables; no chain solves more captchas, and no       *)
(* captcha takes more tries, than the code allows.                         *)
TypeOK ==
    /\ authMode \in {"account", "vkcalls", "legacy"} /\ captchaMode \in {"wv", "rjs", "auto"}
    /\ {stopped, lockout, prompted, open, mismatched} \subseteq BOOLEAN
    /\ inPc \in {"read", "drain", "send", "over"}
    /\ inValue \in Results \cup Link \cup {"empty", NoValue}
    /\ Len(chan) \in 0..1
    /\ injected \subseteq Link /\ link \in Link \cup {NoValue}
    /\ pc \in {"idle", "lookUp", "vkcalls", "legacy", "pause", "solve", "page", "checkbox",
               "slider", "check", "breathe", "drain", "prompt", "wait"}
    /\ attempt \in 0..(AttemptLimit - 1) /\ step \in 0..5
    /\ captchas \in 0..CaptchaLimit /\ tries \in 0..2 /\ checks \in 0..MaxSliderChecks

(* A late answer to an earlier prompt (vk_account.go:199, creds.go:726)    *)
(* that lies in its channel is not taken for the answer to the next, and   *)
(* the requester throws away no answer to the prompt it has printed.       *)
AnswersMatchPrompts == ~mismatched

(* The reader of stdin never waits for a requester, so it reads the STOP   *)
(* and the PAUSE behind an answer that nobody asked for (main.go:159).     *)
StdinNeverBlocks == inPc \in {"drain", "send"} ~> inPc = "read"

(* A fetch ends although nobody solves a captcha and nobody answers: it    *)
(* holds vkRequestMu, for which all the groups wait (creds.go:272).        *)
FetchEnds == pc # "idle" ~> pc = "idle"

===============================================================================
