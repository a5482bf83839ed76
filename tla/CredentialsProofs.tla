--------------------------- MODULE CredentialsProofs ---------------------------
(***************************************************************************)
(* What TLAPS proves of Credentials, for any number of groups and workers, *)
(* either mode and path, and any limits.                                   *)
(***************************************************************************)
EXTENDS Credentials, TLAPS

AtVK == {"throttle", "fetch", "account", "vkcalls", "chain"}
InCache == AtVK \cup {"serialize", "store"}
InGetCreds == InCache \cup {"rlock", "lock", "swap", "noCreds"}
InRefresh == InGetCreds \cup {"invalidate", "clear"}

(* No credentials are in use that have not been issued.                    *)
IssuedState ==
    /\ \A p \in Caller : got[p] <= issued
    /\ \A g \in Group : creds[g] <= issued /\ cache[g] <= issued
    /\ \A w \in Worker : snap[w] <= issued

(* The workers are started by their group, when it has credentials.        *)
StartState ==
    \A p \in Starter :
        /\ pc[p] \in InGetCreds \cup {"over"}
        /\ pc[p] # "over" =>
             /\ creds[GroupOf(p)] = 0
             /\ \A w \in Worker : GroupOf(w) = GroupOf(p) => pc[w] = "idle"

(* Who is between a Lock and its Unlock holds the mutex.                   *)
LockState ==
    /\ \A w \in Worker : pc[w] \in InRefresh => refreshMu[GroupOf(w)] = w
    /\ \A p \in Caller : pc[p] \in InCache => cacheMu[GroupOf(p)] = p
    /\ \A p \in Caller : pc[p] \in AtVK => vkMu = p

(* From the invalidation until the fetch nothing gets into the cache, so   *)
(* what a refresh brings is what VK has issued meanwhile.                  *)
RenewState ==
    \A w \in Worker :
        /\ pc[w] \in {"clear", "rlock", "lock"} => cache[GroupOf(w)] = 0
        /\ pc[w] = "store" => got[w] = 0 \/ got[w] > creds[GroupOf(w)]
        /\ pc[w] \in AtVK \cup {"serialize"} => got[w] = 0

(* The clocks of the code and of the history agree, and a refresh goes on  *)
(* past its gate only when RefreshGate has passed.                         *)
ClockState ==
    /\ requested = lastFetch /\ swapped = lastRefresh
    /\ \A w \in Worker :
          pc[w] \in InRefresh => swapped[GroupOf(w)] >= RefreshGate

Inv == /\ TypeOK /\ IssuedState /\ StartState /\ LockState /\ RenewState
       /\ ClockState
       /\ RefreshRenews /\ LockoutKept /\ ErrorsNeverPile

(* Callers are workers or the groups themselves, never both, and Nobody is *)
(* none of them.                                                           *)
LEMMA Callers ==
    /\ Caller = Starter \cup Worker
    /\ \A p \in Caller : GroupOf(p) \in Group /\ p # Nobody
    /\ \A w \in Worker : w \notin Starter
    /\ \A p, q \in Starter : GroupOf(p) = GroupOf(q) => p = q
  BY GroupAssumption DEF Caller, Starter, Worker, Group, GroupOf, Nobody

USE Callers

(* The limits the clocks are compared with are within their ranges.        *)
LEMMA Limits ==
    /\ ThrottleMin \in 0..ThrottleMin /\ 0 \in 0..ThrottleMin
    /\ RefreshGate \in 0..RefreshGate /\ 0 \in 0..RefreshGate
    /\ LongAgo \in 0..LongAgo /\ 0 \in 0..LongAgo
    /\ LockoutTime \in 0..LockoutTime /\ 0 \in 0..LockoutTime
    /\ 0 \in 0..MaxIssued
    /\ \A a, b \in Nat : b \in 0..a => Later(b, a) \in 0..a
  BY TimeAssumption, IssuedAssumption DEF LongAgo, Later

LEMMA InitInv == Init => Inv
<1>. SUFFICES ASSUME Init PROVE Inv
  OBVIOUS
<1>. USE DEF Init
<1>1. TypeOK
  <2>1. /\ ctxDone \in BOOLEAN /\ renew \in [Worker -> BOOLEAN]
    BY Zenon
  <2>2. attempt \in 0..(vkCredentialAttemptLimit - 1)
    BY DEF vkCredentialAttemptLimit
  <2>3. lockout \in 0..LockoutTime
    BY Limits
  <2>. QED BY Limits, <2>1, <2>2, <2>3 DEF TypeOK
<1>2. IssuedState
  BY DEF IssuedState
<1>3. StartState
  BY DEF StartState, InGetCreds
<1>4. LockState
  BY DEF LockState, InRefresh, InGetCreds, InCache, AtVK
<1>5. RenewState /\ ClockState /\ RefreshRenews /\ LockoutKept
  BY DEF RenewState, ClockState, RefreshRenews, LockoutKept, InRefresh, InGetCreds, InCache, AtVK
<1>6. ErrorsNeverPile
  BY DEF ErrorsNeverPile, maxCacheErrors
<1>. QED
  BY <1>1, <1>2, <1>3, <1>4, <1>5, <1>6 DEF Inv

LEMMA EnvironmentInv ==
    ASSUME Inv, Stop \/ Tick \/ \E g \in Group : Expire(g)
    PROVE  Inv'
<1>. USE DEF Inv, IssuedState, StartState, LockState, RenewState, ClockState, RefreshRenews, LockoutKept, ErrorsNeverPile, workVars, groupVars, cacheVars, errorVars, vkVars
<1>1. CASE Stop
  BY <1>1 DEF Stop, TypeOK
<1>2. CASE Tick
  <2>1. TypeOK'
    <3>1. /\ TypeOK /\ Tick
          /\ lastRefresh' = [g \in Group |-> Later(lastRefresh[g], RefreshGate)]
          /\ swapped' = [g \in Group |-> Later(swapped[g], RefreshGate)]
          /\ lastError' = [g \in Group |-> Later(lastError[g], LongAgo)]
      BY <1>2 DEF Tick
    <3>. HIDE DEF Inv, IssuedState, StartState, LockState, RenewState, ClockState, RefreshRenews, LockoutKept, ErrorsNeverPile
    <3>2. RefreshGate \in Nat /\ LongAgo \in Nat /\ ThrottleMin \in Nat
      BY TimeAssumption DEF LongAgo
    <3>3. \A g \in Group : /\ lastRefresh[g] \in 0..RefreshGate
                           /\ swapped[g] \in 0..RefreshGate
                           /\ lastError[g] \in 0..LongAgo
      BY <3>1 DEF TypeOK
    <3>4. \A g \in Group : /\ Later(lastRefresh[g], RefreshGate) \in 0..RefreshGate
                           /\ Later(swapped[g], RefreshGate) \in 0..RefreshGate
                           /\ Later(lastError[g], LongAgo) \in 0..LongAgo
      <4>1. \A a, b \in Nat : b \in 0..a => Later(b, a) \in 0..a
        BY Limits
      <4>2. \A a \in Nat : \A b \in 0..a : Later(b, a) \in 0..a
        BY <4>1
      <4>. QED BY <3>2, <3>3, <4>2
    <3>5. /\ lastRefresh' \in [Group -> 0..RefreshGate]
          /\ swapped' \in [Group -> 0..RefreshGate]
          /\ lastError' \in [Group -> 0..LongAgo]
      BY <3>1, <3>4
    <3>6. lastFetch' \in 0..ThrottleMin /\ requested' \in 0..ThrottleMin
      BY <3>1, <3>2, Limits DEF Tick, TypeOK
    <3>7. lockout' \in 0..LockoutTime
      BY <3>1, TimeAssumption DEF Tick, TypeOK
    <3>. QED BY <3>1, <3>5, <3>6, <3>7 DEF Tick, TypeOK, workVars, cacheVars
  <2>2. IssuedState' /\ StartState' /\ LockState' /\ RenewState' /\ RefreshRenews'
    BY <1>2 DEF Tick
  <2>4. ClockState'
    <3>1. \A a, t \in Nat : t >= a => Later(t, a) = t
      BY DEF Later
    <3>. QED BY <1>2, <3>1, TimeAssumption DEF Tick, TypeOK
  <2>3. LockoutKept' /\ ErrorsNeverPile'
    BY <1>2 DEF Tick, TypeOK
  <2>. QED BY <2>1, <2>2, <2>3, <2>4
<1>3. ASSUME NEW g \in Group, Expire(g) PROVE Inv'
  BY <1>3 DEF Expire, TypeOK
<1>. QED
  BY <1>1, <1>2, <1>3

LEMMA WorkerInv ==
    ASSUME Inv, NEW w \in Worker, WorkerLoop(w)
    PROVE  Inv'
<1>. USE DEF Inv, TypeOK, IssuedState, StartState, LockState, RenewState, ClockState, RefreshRenews, LockoutKept, ErrorsNeverPile, Goto, Held, InRefresh, InGetCreds, InCache, AtVK, workVars, groupVars, cacheVars, errorVars, vkVars
<1>1. CASE LoopTop(w)
  BY <1>1 DEF LoopTop
<1>2. CASE AllocateOK(w)
  <2>1. ErrorsNeverPile'
    <3>. SUFFICES ASSUME NEW g \in Group, errorCount'[g] >= maxCacheErrors
                  PROVE  \E v \in Worker : /\ GroupOf(v) = g /\ count'[v] >= maxCacheErrors
                                           /\ pc'[v] \in {"errTime", "errInvalidate", "errClear"}
      OBVIOUS
    <3>1. g # GroupOf(w) /\ errorCount'[g] = errorCount[g]
      BY <1>2 DEF AllocateOK, maxCacheErrors
    <3>2. PICK v \in Worker : /\ GroupOf(v) = g /\ count[v] >= maxCacheErrors
                              /\ pc[v] \in {"errTime", "errInvalidate", "errClear"}
      BY <3>1
    <3>. QED BY <1>2, <3>1, <3>2 DEF AllocateOK
  <2>2. TypeOK' /\ IssuedState' /\ StartState' /\ LockState' /\ ClockState'
    BY <1>2 DEF AllocateOK
  <2>3. RenewState' /\ RefreshRenews' /\ LockoutKept'
    BY <1>2 DEF AllocateOK
  <2>. QED BY <2>1, <2>2, <2>3
<1>3. CASE AllocateRefused(w)
  <2>1. refused' \subseteq 0..MaxIssued
    <3>1. snap[w] \in 0..MaxIssued /\ refused' = refused \cup {snap[w]}
      BY <1>3, IssuedAssumption DEF AllocateRefused
    <3>2. refused \subseteq 0..MaxIssued
      OBVIOUS
    <3>. HIDE DEF Inv, TypeOK, IssuedState, StartState, LockState, RenewState, ClockState, RefreshRenews, LockoutKept, ErrorsNeverPile
    <3>. QED BY <3>1, <3>2
  <2>2. renew' \in [Worker -> BOOLEAN]
    <3>1. PICK stale \in BOOLEAN : renew' = [renew EXCEPT ![w] = stale]
      BY <1>3 DEF AllocateRefused
    <3>. QED BY <3>1, Zenon
  <2>3. TypeOK'
    BY <1>3, <2>1, <2>2 DEF AllocateRefused
  <2>4. IssuedState' /\ StartState' /\ LockState' /\ ClockState' /\ RenewState'
    BY <1>3 DEF AllocateRefused
  <2>5. RefreshRenews' /\ LockoutKept' /\ ErrorsNeverPile'
    BY <1>3 DEF AllocateRefused
  <2>. QED BY <2>3, <2>4, <2>5
<1>4. CASE SessionEnds(w)
  BY <1>4 DEF SessionEnds
<1>5. CASE Returned(w)
  BY <1>5 DEF Returned
<1>6. CASE Decide(w)
  BY <1>6 DEF Decide
<1>8. CASE ErrWindow(w)
  BY <1>8 DEF ErrWindow
<1>9. CASE ErrReset(w)
  <2>1. ErrorsNeverPile'
    <3>. SUFFICES ASSUME NEW g \in Group, errorCount'[g] >= maxCacheErrors
                  PROVE  \E v \in Worker : /\ GroupOf(v) = g /\ count'[v] >= maxCacheErrors
                                           /\ pc'[v] \in {"errTime", "errInvalidate", "errClear"}
      OBVIOUS
    <3>1. g # GroupOf(w) /\ errorCount'[g] = errorCount[g]
      BY <1>9 DEF ErrReset, maxCacheErrors
    <3>2. PICK v \in Worker : /\ GroupOf(v) = g /\ count[v] >= maxCacheErrors
                              /\ pc[v] \in {"errTime", "errInvalidate", "errClear"}
      BY <3>1
    <3>. QED BY <1>9, <3>1, <3>2 DEF ErrReset
  <2>2. TypeOK' /\ IssuedState' /\ StartState' /\ LockState' /\ ClockState'
    BY <1>9 DEF ErrReset
  <2>3. RenewState' /\ RefreshRenews' /\ LockoutKept'
    BY <1>9 DEF ErrReset
  <2>. QED BY <2>1, <2>2, <2>3
<1>10. CASE ErrAdd(w)
  BY <1>10 DEF ErrAdd, maxCacheErrors
<1>11. CASE ErrTime(w)
  <2>1. /\ lastError' = [lastError EXCEPT ![GroupOf(w)] = 0]
        /\ UNCHANGED <<ctxDone, snap, renew, got, groupVars, cacheVars, errorCount,
                       vkVars, refused>>
    BY <1>11 DEF ErrTime, ErrTimeFrom
  <2>2. lastError' \in [Group -> 0..LongAgo]
    BY <2>1, Limits
  <2>3. CASE count[w] >= maxCacheErrors
    <3>1. /\ pc[w] = "errTime" /\ pc' = [pc EXCEPT ![w] = "errInvalidate"]
          /\ count' = count
      BY <1>11, <2>3 DEF ErrTime, ErrTimeFrom
    <3>. QED BY <2>1, <2>2, <3>1
  <2>4. CASE ~(count[w] >= maxCacheErrors)
    <3>1. /\ pc[w] = "errTime" /\ pc' = [pc EXCEPT ![w] = "returned"]
          /\ count' = [count EXCEPT ![w] = 0]
      BY <1>11, <2>4 DEF ErrTime, ErrTimeFrom
    <3>2. ErrorsNeverPile'
      BY <2>1, <2>4, <3>1
    <3>3. TypeOK' /\ IssuedState' /\ StartState' /\ LockState' /\ ClockState'
      BY <2>1, <2>2, <3>1
    <3>. QED BY <2>1, <3>1, <3>2, <3>3
  <2>. QED BY <2>3, <2>4
<1>12. CASE Invalidate(w)
  BY <1>12 DEF Invalidate, InvalidateCache
<1>13. CASE ClearErrors(w)
  <2>1. ErrorsNeverPile'
    <3>. SUFFICES ASSUME NEW g \in Group, errorCount'[g] >= maxCacheErrors
                  PROVE  \E v \in Worker : /\ GroupOf(v) = g /\ count'[v] >= maxCacheErrors
                                           /\ pc'[v] \in {"errTime", "errInvalidate", "errClear"}
      OBVIOUS
    <3>1. g # GroupOf(w) /\ errorCount'[g] = errorCount[g]
      BY <1>13 DEF ClearErrors, maxCacheErrors
    <3>2. PICK v \in Worker : /\ GroupOf(v) = g /\ count[v] >= maxCacheErrors
                              /\ pc[v] \in {"errTime", "errInvalidate", "errClear"}
      BY <3>1
    <3>. QED BY <1>13, <3>1, <3>2 DEF ClearErrors
  <2>2. TypeOK'
    <3>1. /\ errorCount' = [errorCount EXCEPT ![GroupOf(w)] = 0]
          /\ lastError' = [lastError EXCEPT ![GroupOf(w)] = LongAgo]
          /\ count' = [count EXCEPT ![w] = 0]
          /\ pc' = [pc EXCEPT ![w] = IF pc[w] = "clear" THEN "rlock" ELSE "returned"]
          /\ TypeOK /\ LongAgo \in 0..LongAgo
      BY <1>13, Limits DEF ClearErrors
    <3>2. /\ UNCHANGED <<ctxDone, snap, renew, got, groupVars, cacheVars, vkVars, refused>>
      BY <1>13 DEF ClearErrors
    <3>. HIDE DEF Inv, IssuedState, StartState, LockState, RenewState, ClockState, RefreshRenews, LockoutKept, ErrorsNeverPile
    <3>. QED BY <3>1, <3>2
  <2>4. IssuedState' /\ ClockState'
    BY <1>13 DEF ClearErrors
  <2>5. StartState' /\ LockState'
    BY <1>13 DEF ClearErrors
  <2>3. RenewState' /\ RefreshRenews' /\ LockoutKept'
    BY <1>13 DEF ClearErrors
  <2>. QED BY <2>1, <2>2, <2>3, <2>4, <2>5
<1>14. CASE LockRefresh(w)
  BY <1>14, TimeAssumption DEF LockRefresh
<1>15. CASE Gate(w)
  BY <1>15 DEF Gate
<1>. QED
  BY <1>1, <1>2, <1>3, <1>4, <1>5, <1>6, <1>8, <1>9, <1>10, <1>11, <1>12, <1>13, <1>14, <1>15 DEF WorkerLoop, handleAuthError

LEMMA ObtainInv ==
    ASSUME Inv, NEW p \in Caller, Obtain(p)
    PROVE  Inv'
<1>. USE DEF Inv, TypeOK, IssuedState, StartState, LockState, RenewState, ClockState, RefreshRenews, LockoutKept, ErrorsNeverPile, Goto, Held, InRefresh, InGetCreds, InCache, AtVK, workVars, groupVars, cacheVars, errorVars, vkVars
<1>1. CASE LookUp(p)
  BY <1>1 DEF LookUp
<1>2. CASE LookAgain(p)
  <2>1. CASE cache[GroupOf(p)] # 0
    <3>1. /\ pc[p] = "lock" /\ pc' = [pc EXCEPT ![p] = "swap"]
          /\ got' = [got EXCEPT ![p] = cache[GroupOf(p)]]
          /\ UNCHANGED <<ctxDone, workVars, groupVars, cacheVars, errorVars, vkVars, refused>>
      BY <1>2, <2>1 DEF LookAgain
    <3>2. TypeOK' /\ IssuedState' /\ StartState'
      BY <3>1
    <3>3. LockState' /\ ClockState'
      BY <3>1
    <3>4. RenewState' /\ RefreshRenews' /\ LockoutKept' /\ ErrorsNeverPile'
      BY <2>1, <3>1
    <3>. QED BY <3>2, <3>3, <3>4
  <2>2. CASE cache[GroupOf(p)] = 0
    <3>1. /\ pc[p] = "lock" /\ pc' = [pc EXCEPT ![p] = "serialize"]
          /\ got' = [got EXCEPT ![p] = 0]
          /\ cacheMu[GroupOf(p)] = Nobody
          /\ cacheMu' = [cacheMu EXCEPT ![GroupOf(p)] = p]
          /\ UNCHANGED <<ctxDone, workVars, groupVars, cache, errorVars, vkVars, refused>>
      BY <1>2, <2>2 DEF LookAgain
    <3>2. TypeOK' /\ IssuedState'
      BY <3>1
    <3>3. StartState' /\ ClockState'
      BY <3>1
    <3>4. LockState'
      BY <3>1
    <3>5. RenewState' /\ RefreshRenews'
      BY <3>1
    <3>6. LockoutKept' /\ ErrorsNeverPile'
      BY <3>1
    <3>. QED BY <3>2, <3>3, <3>4, <3>5, <3>6
  <2>. QED BY <2>1, <2>2
<1>3. CASE Store(p)
  BY <1>3 DEF Store
<1>4. CASE Serialize(p)
  BY <1>4 DEF Serialize
<1>5. CASE ThrottleOver(p)
  BY <1>5 DEF ThrottleOver
<1>6. CASE ThrottleStopped(p)
  BY <1>6 DEF ThrottleStopped, ThrottleLeaving
<1>7. CASE Fetch(p)
  <2>1. LockoutKept'
    <3>1. CASE AuthMode = "account"
      <4>1. pc' = [pc EXCEPT ![p] = "account"] /\ lockout' = lockout
        BY <1>7, <3>1 DEF Fetch
      <4>. QED BY <4>1
    <3>2. CASE AuthMode # "account"
      BY <1>7, <3>2 DEF Fetch
    <3>. QED BY <3>1, <3>2
  <2>2. TypeOK' /\ IssuedState' /\ StartState' /\ LockState' /\ ClockState'
    BY <1>7 DEF Fetch
  <2>3. RenewState' /\ RefreshRenews' /\ ErrorsNeverPile'
    BY <1>7 DEF Fetch
  <2>. QED BY <2>1, <2>2, <2>3
<1>8. CASE FetchLockedOut(p)
  <2>1. /\ pc' = [pc EXCEPT ![p] = "store"] /\ vkMu' = Nobody
        /\ lastFetch' = 0 /\ requested' = 0 /\ attempt' = 0
        /\ lockout' \in {lockout, LockoutTime}
    BY <1>8 DEF FetchLockedOut, FailsWith, Ends, EndsAt
  <2>2. /\ lastFetch' \in 0..ThrottleMin /\ requested' \in 0..ThrottleMin
        /\ attempt' \in 0..(vkCredentialAttemptLimit - 1)
        /\ lockout' \in 0..LockoutTime
    BY <2>1, Limits DEF vkCredentialAttemptLimit
  <2>3. TypeOK'
    BY <1>8, <2>1, <2>2 DEF FetchLockedOut, FailsWith
  <2>4. IssuedState' /\ StartState' /\ LockState' /\ ClockState'
    BY <1>8, <2>1 DEF FetchLockedOut, FailsWith
  <2>5. RenewState' /\ RefreshRenews' /\ LockoutKept' /\ ErrorsNeverPile'
    BY <1>8, <2>1 DEF FetchLockedOut, FailsWith
  <2>. QED BY <2>3, <2>4, <2>5
<1>9. CASE Succeeds(p)
  <2>1. /\ pc' = [pc EXCEPT ![p] = "store"] /\ vkMu' = Nobody
        /\ lastFetch' = 0 /\ requested' = 0 /\ attempt' = 0
        /\ got' = [got EXCEPT ![p] = issued + 1] /\ issued' = issued + 1
        /\ issued < MaxIssued /\ pc[p] \in {"account", "vkcalls", "chain"}
        /\ UNCHANGED <<ctxDone, workVars, groupVars, cacheVars, errorVars, lockout,
                       refused>>
    BY <1>9 DEF Succeeds, Ends, EndsAt
  <2>2. /\ lastFetch' \in 0..ThrottleMin /\ requested' \in 0..ThrottleMin
        /\ attempt' \in 0..(vkCredentialAttemptLimit - 1)
        /\ issued' \in 0..MaxIssued
    BY <2>1, Limits, IssuedAssumption DEF vkCredentialAttemptLimit
  <2>3. got' \in [Caller -> Nat] /\ \A q \in Caller : got'[q] <= issued'
    BY <2>1
  <2>4. TypeOK'
    BY <2>1, <2>2, <2>3
  <2>5. IssuedState'
    BY <2>1, <2>3
  <2>6. StartState' /\ LockState' /\ ClockState'
    BY <2>1
  <2>7. RenewState'
    BY <2>1
  <2>8. RefreshRenews' /\ LockoutKept' /\ ErrorsNeverPile'
    BY <2>1
  <2>. QED BY <2>4, <2>5, <2>6, <2>7, <2>8
<1>10. CASE FetchFails(p)
  <2>1. /\ pc' = [pc EXCEPT ![p] = "store"] /\ vkMu' = Nobody
        /\ lastFetch' = 0 /\ requested' = 0 /\ attempt' = 0
        /\ lockout' \in {lockout, LockoutTime}
    BY <1>10 DEF FetchFails, FailsWith, Ends, EndsAt
  <2>2. /\ lastFetch' \in 0..ThrottleMin /\ requested' \in 0..ThrottleMin
        /\ attempt' \in 0..(vkCredentialAttemptLimit - 1)
        /\ lockout' \in 0..LockoutTime
    BY <2>1, Limits DEF vkCredentialAttemptLimit
  <2>3. TypeOK'
    BY <1>10, <2>1, <2>2 DEF FetchFails, FailsWith
  <2>4. IssuedState' /\ StartState' /\ LockState' /\ ClockState'
    BY <1>10, <2>1 DEF FetchFails, FailsWith
  <2>5. RenewState' /\ RefreshRenews' /\ LockoutKept' /\ ErrorsNeverPile'
    BY <1>10, <2>1 DEF FetchFails, FailsWith
  <2>. QED BY <2>3, <2>4, <2>5
<1>11. CASE FallBack(p)
  BY <1>11 DEF FallBack
<1>12. CASE ChainRetries(p)
  BY <1>12 DEF ChainRetries, vkCredentialAttemptLimit
<1>13. CASE CaptchaFails(p)
  <2>1. /\ pc' = [pc EXCEPT ![p] = "store"] /\ vkMu' = Nobody
        /\ lastFetch' = 0 /\ requested' = 0 /\ attempt' = 0
        /\ lockout' \in {lockout, LockoutTime}
    BY <1>13 DEF CaptchaFails, Ends, EndsAt
  <2>2. /\ lastFetch' \in 0..ThrottleMin /\ requested' \in 0..ThrottleMin
        /\ attempt' \in 0..(vkCredentialAttemptLimit - 1)
        /\ lockout' \in 0..LockoutTime
    BY <2>1, Limits DEF vkCredentialAttemptLimit
  <2>3. TypeOK'
    BY <1>13, <2>1, <2>2 DEF CaptchaFails
  <2>4. IssuedState' /\ StartState' /\ LockState' /\ ClockState'
    BY <1>13, <2>1 DEF CaptchaFails
  <2>5. RenewState' /\ RefreshRenews' /\ LockoutKept' /\ ErrorsNeverPile'
    BY <1>13, <2>1 DEF CaptchaFails
  <2>. QED BY <2>3, <2>4, <2>5
<1>14. CASE Swap(p)
  <2>1. /\ pc[p] = "swap" /\ creds' = [creds EXCEPT ![GroupOf(p)] = got[p]]
        /\ got' = [got EXCEPT ![p] = 0]
        /\ UNCHANGED <<ctxDone, workVars, cacheVars, errorVars, vkVars, refused>>
    BY <1>14 DEF Swap, SwapAs
  <2>2. swapped' \in [Group -> 0..RefreshGate]
    BY <1>14, Limits DEF Swap, SwapAs
  <2>3. IssuedState'
    BY <2>1
  <2>4. CASE p \in Starter
    <3>1. /\ pc' = [q \in Caller |-> IF q = p THEN "over"
                                    ELSE IF GroupOf(q) = GroupOf(p) THEN "top" ELSE pc[q]]
          /\ UNCHANGED <<lastRefresh, refreshMu>>
      BY <1>14, <2>4 DEF Swap, SwapAs
    <3>2. \A q \in Starter : q # p => pc'[q] = pc[q]
      BY <2>4, <3>1
    <3>3. \A v \in Worker :
             /\ GroupOf(v) # GroupOf(p) => pc'[v] = pc[v]
             /\ GroupOf(v) = GroupOf(p) => pc'[v] = "top" /\ pc[v] = "idle"
      BY <2>1, <2>4, <3>1
    <3>4. TypeOK'
      BY <2>1, <2>2, <3>1
    <3>5. StartState'
      <4>. SUFFICES ASSUME NEW q \in Starter, q # p
                    PROVE  /\ pc'[q] \in InGetCreds \cup {"over"}
                           /\ pc'[q] # "over" =>
                                /\ creds'[GroupOf(q)] = 0
                                /\ \A v \in Worker : GroupOf(v) = GroupOf(q) => pc'[v] = "idle"
        BY <2>4, <3>1
      <4>1. GroupOf(q) # GroupOf(p) /\ creds'[GroupOf(q)] = creds[GroupOf(q)]
        BY <2>1, <2>4
      <4>2. \A v \in Worker : GroupOf(v) = GroupOf(q) => pc'[v] = pc[v]
        BY <3>3, <4>1
      <4>3. pc'[q] = pc[q]
        BY <3>2
      <4>4. /\ pc[q] \in InGetCreds \cup {"over"}
            /\ pc[q] # "over" =>
                 /\ creds[GroupOf(q)] = 0
                 /\ \A v \in Worker : GroupOf(v) = GroupOf(q) => pc[v] = "idle"
        OBVIOUS
      <4>. QED BY <4>1, <4>2, <4>3, <4>4
    <3>6. ClockState'
      <4>1. swapped' = swapped
        BY <1>14, <2>4 DEF Swap, SwapAs
      <4>. QED BY <2>1, <3>1, <3>3, <4>1
    <3>7. LockState' /\ RenewState' /\ RefreshRenews' /\ LockoutKept'
      BY <2>1, <2>4, <3>1, <3>2, <3>3
    <3>8. ErrorsNeverPile'
      BY <2>1, <3>3
    <3>. QED BY <2>3, <3>4, <3>5, <3>6, <3>7, <3>8
  <2>5. CASE p \in Worker
    <3>1. /\ pc' = [pc EXCEPT ![p] = "decide"]
          /\ lastRefresh' = [lastRefresh EXCEPT ![GroupOf(p)] = 0]
          /\ refreshMu' = [refreshMu EXCEPT ![GroupOf(p)] = Nobody]
      BY <1>14, <2>5 DEF Swap, SwapAs
    <3>2. lastRefresh' \in [Group -> 0..RefreshGate]
      BY <3>1, Limits
    <3>3. TypeOK'
      BY <2>1, <2>2, <3>1, <3>2
    <3>4. StartState' /\ LockState' /\ LockoutKept' /\ ErrorsNeverPile'
      BY <2>1, <2>5, <3>1
    <3>5. \A v \in Worker : v # p /\ GroupOf(v) = GroupOf(p) => pc[v] \notin InRefresh
      BY <2>1, <2>5
    <3>6. RenewState' /\ RefreshRenews'
      BY <2>1, <2>5, <3>1, <3>5
    <3>7. ClockState'
      <4>1. swapped' = [swapped EXCEPT ![GroupOf(p)] = 0]
        BY <1>14, <2>5 DEF Swap, SwapAs
      <4>. QED BY <2>1, <2>5, <3>1, <3>5, <4>1
    <3>. QED BY <2>3, <3>3, <3>4, <3>6, <3>7
  <2>. QED BY <2>4, <2>5
<1>15. CASE NoCreds(p)
  BY <1>15 DEF NoCreds, NoCredsReleasing
<1>. QED
  BY <1>1, <1>2, <1>3, <1>4, <1>5, <1>6, <1>7, <1>8, <1>9, <1>10, <1>11, <1>12, <1>13, <1>14, <1>15 DEF Obtain, GetCreds, fetchVkCreds

LEMMA StepInv == Inv /\ [Next]_vars => Inv'
<1>. SUFFICES ASSUME Inv, [Next]_vars PROVE Inv'
  OBVIOUS
<1>1. CASE UNCHANGED vars
  BY <1>1 DEF vars, Inv, TypeOK, IssuedState, StartState, LockState, RenewState, ClockState, RefreshRenews, LockoutKept, ErrorsNeverPile, workVars, groupVars, cacheVars, errorVars, vkVars
<1>. QED
  BY <1>1, EnvironmentInv, WorkerInv, ObtainInv DEF Next

(* TypeOK: every variable has a value of its kind.                         *)
THEOREM TypeCorrect == Spec => []TypeOK
<1>1. Inv => TypeOK
  BY DEF Inv
<1>. QED BY InitInv, StepInv, <1>1, PTL DEF Spec

(* RefreshRenews: a refresh never gives back the credentials the group     *)
(* already has, whatever the other workers do to the cache meanwhile.      *)
THEOREM RenewCorrect == Spec => []RefreshRenews
<1>1. Inv => RefreshRenews
  BY DEF Inv
<1>. QED BY InitInv, StepInv, <1>1, PTL DEF Spec

(* LockoutKept: during the captcha lockout nobody is in a fetch from VK.   *)
THEOREM LockoutCorrect == Spec => []LockoutKept
<1>1. Inv => LockoutKept
  BY DEF Inv
<1>. QED BY InitInv, StepInv, <1>1, PTL DEF Spec

(* ErrorsNeverPile: errors up to the limit are always about to be handled. *)
THEOREM ErrorsCorrect == Spec => []ErrorsNeverPile
<1>1. Inv => ErrorsNeverPile
  BY DEF Inv
<1>. QED BY InitInv, StepInv, <1>1, PTL DEF Spec

(* ThrottleKept: a fetch starts ThrottleMin after the last one ended.      *)
THEOREM ThrottleCorrect == Spec => ThrottleKept
<1>1. Inv /\ [Next]_vars
        => [\A p \in Caller : pc[p] = "throttle" /\ pc'[p] = "fetch"
                               => requested >= ThrottleMin]_vars
  <2>. SUFFICES ASSUME Inv, Next, NEW p \in Caller, pc[p] = "throttle", pc'[p] = "fetch"
                PROVE  lastFetch >= ThrottleMin
    BY DEF Inv, ClockState
  <2>1. ASSUME NEW w \in Worker, WorkerLoop(w) PROVE FALSE
    BY <2>1 DEF Inv, TypeOK, Goto, WorkerLoop, LoopTop, AllocateOK, AllocateRefused, SessionEnds, Returned, Decide, handleAuthError, ErrWindow, ErrReset, ErrAdd, ErrTime, ErrTimeFrom, Invalidate, InvalidateCache, ClearErrors, LockRefresh, Gate
  <2>2. ASSUME NEW q \in Caller, GetCreds(q) \/ NoCreds(q) PROVE lastFetch >= ThrottleMin
    BY <2>2 DEF Inv, TypeOK, Goto, GetCreds, fetchVkCreds, LookUp, LookAgain, Store, Serialize, ThrottleOver, ThrottleStopped, ThrottleLeaving, Fetch, FetchLockedOut, FailsWith, Ends, EndsAt, Succeeds, FetchFails, FallBack, ChainRetries, CaptchaFails, NoCreds, NoCredsReleasing
  <2>3. ASSUME NEW q \in Caller, Swap(q) PROVE FALSE
    BY <2>3 DEF Inv, TypeOK, Goto, Swap, SwapAs
  <2>. QED BY <2>1, <2>2, <2>3 DEF Next, Stop, Tick, Expire, Obtain
<1>. QED BY InitInv, StepInv, <1>1, PTL DEF Spec, ThrottleKept

(* RefreshesApart: only a refresh that passed its gate replaces the        *)
(* credentials of a group that has some.                                   *)
THEOREM RefreshCorrect == Spec => RefreshesApart
<1>1. Inv /\ [Next]_vars
        => [\A g \in Group : creds[g] # 0 /\ creds'[g] # creds[g]
                               => swapped[g] >= RefreshGate]_vars
  <2>. SUFFICES ASSUME Inv, Next, NEW g \in Group, creds[g] # 0, creds'[g] # creds[g]
                PROVE  swapped[g] >= RefreshGate
    OBVIOUS
  <2>1. ASSUME NEW w \in Worker, WorkerLoop(w) PROVE UNCHANGED creds
    BY <2>1 DEF groupVars, WorkerLoop, LoopTop, AllocateOK, AllocateRefused, SessionEnds, Returned, Decide, handleAuthError, ErrWindow, ErrReset, ErrAdd, ErrTime, ErrTimeFrom, Invalidate, InvalidateCache, ClearErrors, LockRefresh, Gate
  <2>2. ASSUME NEW q \in Caller, GetCreds(q) \/ NoCreds(q) PROVE UNCHANGED creds
    BY <2>2 DEF groupVars, GetCreds, fetchVkCreds, LookUp, LookAgain, Store, Serialize, ThrottleOver, ThrottleStopped, ThrottleLeaving, Fetch, FetchLockedOut, FailsWith, Ends, EndsAt, Succeeds, FetchFails, FallBack, ChainRetries, CaptchaFails, NoCreds, NoCredsReleasing
  <2>3. ASSUME NEW q \in Caller, Swap(q) PROVE swapped[g] >= RefreshGate
    <3>1. pc[q] = "swap" /\ GroupOf(q) = g
      BY <2>3 DEF Swap, SwapAs, Inv, TypeOK
    <3>2. q \in Worker
      BY <3>1 DEF Inv, StartState
    <3>. QED BY <3>1, <3>2 DEF Inv, ClockState, InRefresh, InGetCreds
  <2>. QED BY <2>1, <2>2, <2>3 DEF Next, Stop, Tick, Expire, Obtain, groupVars
<1>. QED BY InitInv, StepInv, <1>1, PTL DEF Spec, RefreshesApart

-------------------------------------------------------------------------------
(* The mutexes.  What is locked is held by somebody between its Lock and   *)
(* its Unlock, whichever way that takes; with the other direction, which   *)
(* is LockState, nobody leaves with a mutex.                               *)
HeldInside ==
    /\ \A g \in Group : refreshMu[g] # Nobody =>
          /\ refreshMu[g] \in Worker /\ GroupOf(refreshMu[g]) = g
          /\ pc[refreshMu[g]] \in InRefresh
    /\ \A g \in Group : cacheMu[g] # Nobody =>
          /\ cacheMu[g] \in Caller /\ GroupOf(cacheMu[g]) = g
          /\ pc[cacheMu[g]] \in InCache
    /\ vkMu # Nobody => vkMu \in Caller /\ pc[vkMu] \in AtVK

(* The steps that lock and unlock nothing, and move one caller that stays  *)
(* on the side of each mutex where it was.                                 *)
LEMMA HeldMove ==
    ASSUME TypeOK, HeldInside, NEW p \in Caller, NEW l, Goto(p, l),
           UNCHANGED <<refreshMu, cacheMu, vkMu>>,
           pc[p] \in InRefresh => l \in InRefresh,
           pc[p] \in InCache => l \in InCache,
           pc[p] \in AtVK => l \in AtVK
    PROVE  HeldInside'
<1>1. pc'[p] = l /\ \A q \in Caller \ {p} : pc'[q] = pc[q]
  BY DEF TypeOK, Goto
<1>2. \A q \in Caller : /\ pc[q] \in InRefresh => pc'[q] \in InRefresh
                        /\ pc[q] \in InCache => pc'[q] \in InCache
                        /\ pc[q] \in AtVK => pc'[q] \in AtVK
  BY <1>1
<1>. QED BY <1>2 DEF HeldInside

LEMMA HeldWorker ==
    ASSUME Inv, HeldInside, NEW w \in Worker, WorkerLoop(w)
    PROVE  HeldInside'
<1>. USE DEF workVars, groupVars, cacheVars, errorVars, vkVars
<1>1. CASE LockRefresh(w)
  <2>1. /\ pc'[w] = "invalidate" /\ pc[w] = "refresh"
        /\ \A q \in Caller \ {w} : pc'[q] = pc[q]
    BY <1>1 DEF LockRefresh, Inv, TypeOK, Goto
  <2>2. /\ refreshMu'[GroupOf(w)] = w
        /\ \A g \in Group \ {GroupOf(w)} : refreshMu'[g] = refreshMu[g]
    BY <1>1 DEF LockRefresh, Inv, TypeOK
  <2>3. UNCHANGED <<cacheMu, vkMu>>
    BY <1>1 DEF LockRefresh
  <2>. QED BY <2>1, <2>2, <2>3 DEF HeldInside, InRefresh, InGetCreds, InCache, AtVK
<1>2. CASE ~LockRefresh(w)
  <2>1. UNCHANGED <<refreshMu, cacheMu, vkMu>>
    BY <1>2 DEF WorkerLoop, LoopTop, AllocateOK, AllocateRefused, SessionEnds, Returned, Decide, handleAuthError, ErrWindow, ErrReset, ErrAdd, ErrTime, ErrTimeFrom, Invalidate, InvalidateCache, ClearErrors, Gate
  <2>2. \E l : /\ Goto(w, l)
              /\ \/ pc[w] \notin InRefresh
                 \/ pc[w] \in {"invalidate", "clear"} /\ l \in {"clear", "rlock"}
    BY <1>2 DEF WorkerLoop, LoopTop, AllocateOK, AllocateRefused, SessionEnds, Returned, Decide, handleAuthError, ErrWindow, ErrReset, ErrAdd, ErrTime, ErrTimeFrom, Invalidate, InvalidateCache, ClearErrors, Gate, InRefresh, InGetCreds, InCache, AtVK
  <2>. QED BY <2>1, <2>2, HeldMove DEF Inv, InRefresh, InGetCreds, InCache, AtVK
<1>. QED BY <1>1, <1>2

LEMMA HeldGetCreds ==
    ASSUME Inv, HeldInside, NEW p \in Caller, GetCreds(p)
    PROVE  HeldInside'
<1>. USE DEF workVars, groupVars, cacheVars, errorVars, vkVars
<1>1. CASE LookUp(p) \/ ThrottleOver(p) \/ Fetch(p) \/ FallBack(p)
  <2>1. UNCHANGED <<refreshMu, cacheMu, vkMu>>
    BY <1>1 DEF LookUp, ThrottleOver, Fetch, FallBack
  <2>2. \E l : /\ Goto(p, l)
              /\ \/ pc[p] = "rlock" /\ l \in {"swap", "lock"}
                 \/ pc[p] \in AtVK /\ l \in AtVK
    BY <1>1 DEF LookUp, ThrottleOver, Fetch, FallBack, AtVK
  <2>. QED BY <2>1, <2>2, HeldMove DEF Inv, InRefresh, InGetCreds, InCache, AtVK
<1>2. CASE ChainRetries(p)
  BY <1>2 DEF ChainRetries, HeldInside
<1>3. CASE LookAgain(p)
  <2>1. CASE cache[GroupOf(p)] # 0
    BY <1>3, <2>1, HeldMove DEF LookAgain, Inv, InRefresh, InGetCreds, InCache, AtVK
  <2>2. CASE cache[GroupOf(p)] = 0
    <3>1. /\ pc'[p] = "serialize" /\ pc[p] = "lock"
          /\ \A q \in Caller \ {p} : pc'[q] = pc[q]
      BY <1>3, <2>2 DEF LookAgain, Inv, TypeOK, Goto
    <3>2. /\ cacheMu'[GroupOf(p)] = p
          /\ \A g \in Group \ {GroupOf(p)} : cacheMu'[g] = cacheMu[g]
      BY <1>3, <2>2 DEF LookAgain, Inv, TypeOK
    <3>3. UNCHANGED <<refreshMu, vkMu>>
      BY <1>3 DEF LookAgain
    <3>. QED BY <3>1, <3>2, <3>3 DEF HeldInside, InRefresh, InGetCreds, InCache, AtVK
  <2>. QED BY <2>1, <2>2
<1>4. CASE Store(p)
  <2>1. /\ pc'[p] \in {"swap", "noCreds"} /\ pc[p] = "store"
        /\ \A q \in Caller \ {p} : pc'[q] = pc[q]
    BY <1>4 DEF Store, Inv, TypeOK, Goto
  <2>2. /\ cacheMu'[GroupOf(p)] = Nobody
        /\ \A g \in Group \ {GroupOf(p)} : cacheMu'[g] = cacheMu[g]
    BY <1>4 DEF Store, Inv, TypeOK
  <2>3. UNCHANGED <<refreshMu, vkMu>>
    BY <1>4 DEF Store
  <2>. QED BY <2>1, <2>2, <2>3 DEF HeldInside, InRefresh, InGetCreds, InCache, AtVK
<1>5. CASE Serialize(p)
  <2>1. /\ pc'[p] = "throttle" /\ pc[p] = "serialize"
        /\ \A q \in Caller \ {p} : pc'[q] = pc[q]
    BY <1>5 DEF Serialize, Inv, TypeOK, Goto
  <2>2. vkMu' = p /\ UNCHANGED <<refreshMu, cacheMu>>
    BY <1>5 DEF Serialize
  <2>. QED BY <2>1, <2>2 DEF HeldInside, InRefresh, InGetCreds, InCache, AtVK
<1>6. CASE ThrottleStopped(p) \/ FetchLockedOut(p) \/ Succeeds(p) \/ FetchFails(p) \/ CaptchaFails(p)
  <2>1. pc[p] \in AtVK /\ Goto(p, "store")
    BY <1>6 DEF ThrottleStopped, ThrottleLeaving, FetchLockedOut, Succeeds, FetchFails, CaptchaFails, FailsWith, Ends, EndsAt, AtVK
  <2>2. vkMu' = Nobody /\ UNCHANGED <<refreshMu, cacheMu>>
    BY <1>6 DEF ThrottleStopped, ThrottleLeaving, FetchLockedOut, Succeeds, FetchFails, CaptchaFails, FailsWith, Ends, EndsAt
  <2>3. pc'[p] = "store" /\ \A q \in Caller \ {p} : pc'[q] = pc[q]
    BY <2>1 DEF Inv, TypeOK, Goto
  <2>. QED BY <2>1, <2>2, <2>3 DEF HeldInside, InRefresh, InGetCreds, InCache
<1>. QED BY <1>1, <1>2, <1>3, <1>4, <1>5, <1>6 DEF GetCreds, fetchVkCreds

(* GetCreds is over, and with it the refresh.                              *)
LEMMA HeldOver ==
    ASSUME Inv, HeldInside, NEW p \in Caller, Swap(p) \/ NoCreds(p)
    PROVE  HeldInside'
<1>. USE DEF workVars, groupVars, cacheVars, errorVars, vkVars
<1>1. UNCHANGED <<cacheMu, vkMu>> /\ pc[p] \in {"swap", "noCreds"}
  BY DEF Swap, SwapAs, NoCreds, NoCredsReleasing
<1>2. CASE p \in Worker
  <2>1. /\ refreshMu'[GroupOf(p)] = Nobody
        /\ \A g \in Group \ {GroupOf(p)} : refreshMu'[g] = refreshMu[g]
    BY <1>2 DEF Swap, SwapAs, NoCreds, NoCredsReleasing, Inv, TypeOK
  <2>2. \A q \in Caller \ {p} : pc'[q] = pc[q]
    BY <1>2 DEF Swap, SwapAs, NoCreds, NoCredsReleasing, Inv, TypeOK, Goto
  <2>. QED BY <1>1, <2>1, <2>2 DEF HeldInside, InRefresh, InGetCreds, InCache, AtVK
<1>3. CASE p \in Starter
  <2>1. UNCHANGED refreshMu
    BY <1>3 DEF Swap, SwapAs, NoCreds, NoCredsReleasing
  <2>2. \A q \in Caller \ {p} : pc'[q] = pc[q] \/ pc[q] = "idle"
    <3>1. pc[p] # "over"
      BY <1>1
    <3>2. \A q \in Caller \ {p} : GroupOf(q) = GroupOf(p) => pc[q] = "idle"
      BY <1>3, <3>1 DEF Inv, StartState
    <3>. QED BY <1>3, <3>2 DEF Swap, SwapAs, NoCreds, NoCredsReleasing, Inv, TypeOK, Goto
  <2>. QED BY <1>1, <1>3, <2>1, <2>2 DEF HeldInside, InRefresh, InGetCreds, InCache, AtVK
<1>. QED BY <1>2, <1>3

LEMMA HeldStep == Inv /\ HeldInside /\ [Next]_vars => HeldInside'
<1>. SUFFICES ASSUME Inv, HeldInside, [Next]_vars PROVE HeldInside'
  OBVIOUS
<1>1. CASE UNCHANGED <<pc, refreshMu, cacheMu, vkMu>>
  BY <1>1 DEF HeldInside
<1>. QED
  BY <1>1, HeldWorker, HeldGetCreds, HeldOver
     DEF Next, Obtain, Stop, Tick, Expire, vars, groupVars, cacheVars, vkVars

(* No way out of refreshCreds, getVkCredsCached or fetchVkCredsSerialized  *)
(* leaves a mutex locked behind it.                                        *)
THEOREM MutexesReturned == Spec => []HeldInside
<1>1. Init => HeldInside
  BY DEF Init, HeldInside
<1>. QED BY <1>1, InitInv, StepInv, HeldStep, PTL DEF Spec

(* Who waits for whom: refreshMu is locked before the cache's mutex, and   *)
(* that before vkRequestMu.                                                *)
AtCacheMu == {"errInvalidate", "invalidate", "rlock", "lock"}
WaitsFor(p, q) ==
    \/ pc[p] = "refresh" /\ refreshMu[GroupOf(p)] = q
    \/ pc[p] \in AtCacheMu /\ cacheMu[GroupOf(p)] = q
    \/ pc[p] = "serialize" /\ vkMu = q
Level(p) ==
    CASE pc[p] = "refresh" -> 1
      [] pc[p] \in AtCacheMu -> 2
      [] pc[p] = "serialize" -> 3
      [] OTHER -> 4
WaitsInOrder == \A p, q \in Caller : WaitsFor(p, q) => Level(p) < Level(q)

(* Callers never wait for each other in a circle: each waits only for one  *)
(* that waits for a mutex further on, or for none.  For any number of      *)
(* groups and workers.                                                     *)
THEOREM NoCircularWait == Spec => []WaitsInOrder
<1>1. HeldInside => WaitsInOrder
  <2>. SUFFICES ASSUME HeldInside, NEW p \in Caller, NEW q \in Caller, WaitsFor(p, q)
                PROVE  Level(p) < Level(q)
    BY DEF WaitsInOrder
  <2>1. CASE pc[p] = "refresh" /\ refreshMu[GroupOf(p)] = q
    <3>1. pc[q] \in InRefresh
      BY <2>1 DEF HeldInside
    <3>2. Level(p) = 1
      BY <2>1 DEF Level, AtCacheMu
    <3>3. Level(q) \in {2, 3, 4}
      BY <3>1 DEF Level, InRefresh, InGetCreds, InCache, AtVK
    <3>. QED BY <3>2, <3>3
  <2>2. CASE pc[p] \in AtCacheMu /\ cacheMu[GroupOf(p)] = q
    <3>1. pc[q] \in InCache
      BY <2>2 DEF HeldInside
    <3>2. Level(p) = 2
      BY <2>2 DEF Level, AtCacheMu
    <3>3. Level(q) \in {3, 4}
      BY <3>1 DEF Level, AtCacheMu, InCache, AtVK
    <3>. QED BY <3>2, <3>3
  <2>3. CASE pc[p] = "serialize" /\ vkMu = q
    <3>1. pc[q] \in AtVK
      BY <2>3 DEF HeldInside
    <3>2. Level(p) = 3
      BY <2>3 DEF Level, AtCacheMu
    <3>3. Level(q) = 4
      BY <3>1 DEF Level, AtCacheMu, AtVK
    <3>. QED BY <3>2, <3>3
  <2>. QED BY <2>1, <2>2, <2>3 DEF WaitsFor
<1>. QED BY <1>1, MutexesReturned, PTL
===============================================================================
