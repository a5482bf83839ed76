----------------------------- MODULE Credentials -----------------------------
(***************************************************************************)
(* TURN credentials: the group that asks for the first ones, its workers   *)
(* that are refused with them and refresh them, the cache of the group,    *)
(* the count of authentication errors, and the fetch from VK that all      *)
(* groups share, with its throttle and its captcha lockout.                *)
(*                                                                         *)
(* Credentials are numbered in the order VK issues them; 0 is none.  Time  *)
(* is what has passed since an event, counted up to the limit that the     *)
(* code compares it with.  What a request, a captcha solver or a person    *)
(* answers is a choice.  A local variable is 0 outside its scope.          *)
(***************************************************************************)
EXTENDS Integers, FiniteSets

CONSTANTS
    NumGroups, GroupSize,
    AuthMode,       \* "account" or "anonymous"
    AnonPath,       \* "vkcalls" or "legacy"
    ThrottleMin,    \* the least minInterval, 3 s
    RefreshGate,    \* 15 s
    ErrorWindow,    \* errorWindow, 10 s
    LockoutTime,    \* 60 s
    MaxIssued       \* VK issues this many credentials (bounds the model)

ASSUME GroupAssumption == NumGroups \in Nat \ {0} /\ GroupSize \in Nat \ {0}
ASSUME ModeAssumption ==
    AuthMode \in {"account", "anonymous"} /\ AnonPath \in {"vkcalls", "legacy"}
ASSUME TimeAssumption ==
    /\ ThrottleMin \in Nat \ {0} /\ RefreshGate \in Nat \ {0}
    /\ ErrorWindow \in Nat \ {0} /\ LockoutTime \in Nat \ {0}
ASSUME IssuedAssumption == MaxIssued \in Nat

VARIABLES
    ctxDone,        \* the root context is cancelled
    pc,             \* where each caller is
    snap,           \* credsSnapshot of a worker
    renew,          \* its error is one that refreshes the credentials
    count,          \* what errorCount.Add(1) returned to it
    got,            \* what GetCreds returned
    creds,          \* the group's credentials
    refreshMu,      \* the holder of the group's refreshMu
    lastRefresh,    \* seconds since lastCredRefresh
    cache,          \* StreamCredentialsCache.creds of the group
    cacheMu,        \* the writer that holds the cache's mutex
    errorCount,
    lastError,      \* seconds since lastErrorTime
    vkMu,           \* the holder of vkRequestMu
    lastFetch,      \* seconds since globalLastVkFetchTime
    attempt,        \* attempt of the holder's fetchVkCreds
    lockout,        \* seconds until globalCaptchaLockout
    issued,         \* credentials VK has issued so far
    refused,        \* those a relay does not accept (any more)
    swapped,        \* history: seconds since the group's credentials changed
    requested       \* history: seconds since a fetch ended

workVars == <<snap, renew, count>>
groupVars == <<creds, refreshMu, lastRefresh, swapped>>
cacheVars == <<cache, cacheMu>>
errorVars == <<errorCount, lastError>>
vkVars == <<vkMu, lastFetch, attempt, lockout, issued, requested>>
vars == <<ctxDone, pc, workVars, got, groupVars, cacheVars, errorVars, vkVars,
          refused>>

maxCacheErrors == 3
vkCredentialAttemptLimit == 4
Nobody == <<0, 0>>

(* Member 0 of a group is WorkerGroup itself, which asks first.            *)
Group == 1..NumGroups
Worker == Group \X (1..GroupSize)
Starter == Group \X {0}
Caller == Starter \cup Worker
GroupOf(p) == p[1]

LongAgo == ErrorWindow + 1
Held(p) == cacheMu[GroupOf(p)] # Nobody
Goto(p, l) == pc' = [pc EXCEPT ![p] = l]

Init ==
    /\ ctxDone = FALSE
    /\ pc = [p \in Caller |-> IF p \in Starter THEN "rlock" ELSE "idle"]
    /\ snap = [w \in Worker |-> 0]
    /\ renew = [w \in Worker |-> FALSE]
    /\ count = [w \in Worker |-> 0]
    /\ got = [p \in Caller |-> 0]
    /\ creds = [g \in Group |-> 0]
    /\ refreshMu = [g \in Group |-> Nobody]
    /\ lastRefresh = [g \in Group |-> RefreshGate]
    /\ cache = [g \in Group |-> 0]
    /\ cacheMu = [g \in Group |-> Nobody]
    /\ errorCount = [g \in Group |-> 0]
    /\ lastError = [g \in Group |-> LongAgo]
    /\ vkMu = Nobody
    /\ lastFetch = ThrottleMin
    /\ attempt = 0
    /\ lockout = 0
    /\ issued = 0
    /\ refused = {}
    /\ swapped = [g \in Group |-> RefreshGate]
    /\ requested = ThrottleMin

-------------------------------------------------------------------------------
(* The environment.                                                        *)
Stop ==
    /\ ~ctxDone
    /\ ctxDone' = TRUE
    /\ UNCHANGED <<pc, workVars, got, groupVars, cacheVars, errorVars, vkVars,
                   refused>>

Later(t, limit) == IF t < limit THEN t + 1 ELSE t

(* A second passes, but not within the few instructions in which           *)
(* handleAuthError compares and stores the time it has read.               *)
Tick ==
    /\ \A w \in Worker : pc[w] \notin {"errReset", "errAdd", "errTime"}
    /\ lastRefresh' = [g \in Group |-> Later(lastRefresh[g], RefreshGate)]
    /\ swapped' = [g \in Group |-> Later(swapped[g], RefreshGate)]
    /\ lastError' = [g \in Group |-> Later(lastError[g], LongAgo)]
    /\ lastFetch' = Later(lastFetch, ThrottleMin)
    /\ requested' = Later(requested, ThrottleMin)
    /\ lockout' = IF lockout > 0 THEN lockout - 1 ELSE 0
    /\ UNCHANGED <<ctxDone, pc, workVars, got, creds, refreshMu, cacheVars,
                   errorCount, vkMu, attempt, issued, refused>>

(* ExpiresAt passes.                                                       *)
Expire(g) ==
    /\ cache[g] # 0
    /\ cache' = [cache EXCEPT ![g] = 0]
    /\ UNCHANGED <<ctxDone, pc, workVars, got, groupVars, cacheMu, errorVars,
                   vkVars, refused>>

-------------------------------------------------------------------------------
(* The worker's loop around RunSession.                                    *)
LoopTop(w) ==
    /\ pc[w] = "top"
    /\ snap' = [snap EXCEPT ![w] = creds[GroupOf(w)]]
    /\ Goto(w, IF ctxDone THEN "over" ELSE "allocate")
    /\ UNCHANGED <<ctxDone, renew, count, got, groupVars, cacheVars, errorVars,
                   vkVars, refused>>

(* A successful Allocate resets the error count.                           *)
AllocateOK(w) ==
    /\ pc[w] = "allocate" /\ snap[w] \notin refused
    /\ errorCount' = [errorCount EXCEPT ![GroupOf(w)] = 0]
    /\ Goto(w, "up")
    /\ UNCHANGED <<ctxDone, workVars, got, groupVars, cacheVars, lastError,
                   vkVars, refused>>

(* The relay does not accept the credentials.  Both a 401 and a stale      *)
(* nonce count as an authentication error, but only the latter is one of   *)
(* those for which the worker refreshes the credentials.                   *)
AllocateRefused(w) ==
    /\ pc[w] = "allocate"
    /\ refused' = refused \cup {snap[w]}
    /\ \E stale \in BOOLEAN : renew' = [renew EXCEPT ![w] = stale]
    /\ Goto(w, "errWindow")
    /\ UNCHANGED <<ctxDone, snap, count, got, groupVars, cacheVars, errorVars,
                   vkVars>>

(* The session ends, before or after Allocate, for another reason; among   *)
(* them are a lost allocation and an incomplete answer, which refresh.     *)
SessionEnds(w) ==
    /\ pc[w] \in {"allocate", "up"}
    /\ \E lost \in BOOLEAN : renew' = [renew EXCEPT ![w] = lost]
    /\ Goto(w, "returned")
    /\ UNCHANGED <<ctxDone, snap, count, got, groupVars, cacheVars, errorVars,
                   vkVars, refused>>

Returned(w) ==
    /\ pc[w] = "returned"
    /\ Goto(w, IF ctxDone THEN "over" ELSE IF renew[w] THEN "refresh" ELSE "decide")
    /\ renew' = [renew EXCEPT ![w] = FALSE]
    /\ UNCHANGED <<ctxDone, snap, count, got, groupVars, cacheVars, errorVars,
                   vkVars, refused>>

(* Some errors end the worker (the hash is dead, error 29, no socket);     *)
(* after others it sleeps, unless the client stops.                        *)
Decide(w) ==
    /\ pc[w] = "decide"
    /\ \E l \in {"top", "over"} : Goto(w, l)
    /\ UNCHANGED <<ctxDone, workVars, got, groupVars, cacheVars, errorVars,
                   vkVars, refused>>

-------------------------------------------------------------------------------
(* handleAuthError, called within RunSession.                              *)
ErrWindow(w) ==
    /\ pc[w] = "errWindow"
    /\ Goto(w, IF lastError[GroupOf(w)] > ErrorWindow THEN "errReset" ELSE "errAdd")
    /\ UNCHANGED <<ctxDone, workVars, got, groupVars, cacheVars, errorVars,
                   vkVars, refused>>

ErrReset(w) ==
    /\ pc[w] = "errReset"
    /\ errorCount' = [errorCount EXCEPT ![GroupOf(w)] = 0]
    /\ Goto(w, "errAdd")
    /\ UNCHANGED <<ctxDone, workVars, got, groupVars, cacheVars, lastError,
                   vkVars, refused>>

ErrAdd(w) ==
    /\ pc[w] = "errAdd"
    /\ errorCount' = [errorCount EXCEPT ![GroupOf(w)] = @ + 1]
    /\ count' = [count EXCEPT ![w] = errorCount[GroupOf(w)] + 1]
    /\ Goto(w, "errTime")
    /\ UNCHANGED <<ctxDone, snap, renew, got, groupVars, cacheVars, lastError,
                   vkVars, refused>>

ErrTimeFrom(w, limit) ==
    /\ pc[w] = "errTime"
    /\ lastError' = [lastError EXCEPT ![GroupOf(w)] = 0]
    /\ IF count[w] >= limit
       THEN Goto(w, "errInvalidate") /\ UNCHANGED count
       ELSE Goto(w, "returned") /\ count' = [count EXCEPT ![w] = 0]
    /\ UNCHANGED <<ctxDone, snap, renew, got, groupVars, cacheVars, errorCount,
                   vkVars, refused>>

(* Mutant: one error too many is tolerated.                                *)
ErrTimeLenient(w) == ErrTimeFrom(w, maxCacheErrors + 1)

ErrTime(w) == ErrTimeFrom(w, maxCacheErrors)

handleAuthError(w) == ErrWindow(w) \/ ErrReset(w) \/ ErrAdd(w) \/ ErrTime(w)

(* invalidate, called by handleAuthError and by refreshCreds: the cache    *)
(* under its mutex, then the two counters.                                 *)
InvalidateCache(w, value) ==
    /\ pc[w] \in {"errInvalidate", "invalidate"} /\ ~Held(w)
    /\ cache' = [cache EXCEPT ![GroupOf(w)] = value]
    /\ Goto(w, IF pc[w] = "invalidate" THEN "clear" ELSE "errClear")
    /\ UNCHANGED <<ctxDone, workVars, got, groupVars, cacheMu, errorVars, vkVars,
                   refused>>

(* Mutant: only the counters are cleared.                                  *)
InvalidateCounters(w) == InvalidateCache(w, cache[GroupOf(w)])

Invalidate(w) == InvalidateCache(w, 0)

ClearErrors(w) ==
    /\ pc[w] \in {"errClear", "clear"}
    /\ errorCount' = [errorCount EXCEPT ![GroupOf(w)] = 0]
    /\ lastError' = [lastError EXCEPT ![GroupOf(w)] = LongAgo]
    /\ count' = [count EXCEPT ![w] = 0]
    /\ Goto(w, IF pc[w] = "clear" THEN "rlock" ELSE "returned")
    /\ UNCHANGED <<ctxDone, snap, renew, got, groupVars, cacheVars, vkVars, refused>>

-------------------------------------------------------------------------------
(* refreshCreds.                                                           *)
(* Only the holder of refreshMu stores the time of a refresh, so that to   *)
(* lock it and to look at the time is one step.                            *)
LockRefresh(w) ==
    /\ pc[w] = "refresh" /\ refreshMu[GroupOf(w)] = Nobody
    /\ lastRefresh[GroupOf(w)] >= RefreshGate
    /\ refreshMu' = [refreshMu EXCEPT ![GroupOf(w)] = w]
    /\ Goto(w, "invalidate")
    /\ UNCHANGED <<ctxDone, workVars, got, creds, lastRefresh, swapped, cacheVars,
                   errorVars, vkVars, refused>>

(* Within RefreshGate of the last refresh there is nothing to do.          *)
Gate(w) ==
    /\ pc[w] = "refresh" /\ refreshMu[GroupOf(w)] = Nobody
    /\ lastRefresh[GroupOf(w)] < RefreshGate
    /\ Goto(w, "decide")
    /\ UNCHANGED <<ctxDone, workVars, got, groupVars, cacheVars, errorVars, vkVars,
                   refused>>

(* The credentials have come: WorkerGroup starts its workers with them, or *)
(* refreshCreds puts them in the place of the old ones.                    *)
SwapAs(p, last) ==
    /\ pc[p] = "swap"
    /\ creds' = [creds EXCEPT ![GroupOf(p)] = got[p]]
    /\ swapped' = [swapped EXCEPT ![GroupOf(p)] = IF p \in Worker THEN 0 ELSE @]
    /\ IF p \in Starter
       THEN /\ pc' = [q \in Caller |->
                        IF q = p THEN "over"
                        ELSE IF GroupOf(q) = GroupOf(p) THEN "top" ELSE pc[q]]
            /\ UNCHANGED <<lastRefresh, refreshMu>>
       ELSE /\ lastRefresh' = last
            /\ refreshMu' = [refreshMu EXCEPT ![GroupOf(p)] = Nobody]
            /\ Goto(p, "decide")
    /\ got' = [got EXCEPT ![p] = 0]
    /\ UNCHANGED <<ctxDone, workVars, cacheVars, errorVars, vkVars, refused>>

(* Mutant: the time of the refresh is not stored.                          *)
SwapWithoutTime(p) == SwapAs(p, lastRefresh)

Swap(p) == SwapAs(p, [lastRefresh EXCEPT ![GroupOf(p)] = 0])

NoCredsReleasing(p, mu) ==
    /\ pc[p] = "noCreds"
    /\ refreshMu' = mu
    /\ Goto(p, IF p \in Starter THEN "over" ELSE "decide")
    /\ UNCHANGED <<ctxDone, workVars, got, creds, lastRefresh, swapped, cacheVars,
                   errorVars, vkVars, refused>>

(* Mutant: an error leaves refreshMu locked.                               *)
NoCredsKeepsLock(p) == NoCredsReleasing(p, refreshMu)

(* GetCreds failed: WorkerGroup returns, refreshCreds reports it.          *)
NoCreds(p) ==
    NoCredsReleasing(p, IF p \in Worker
                        THEN [refreshMu EXCEPT ![GroupOf(p)] = Nobody]
                        ELSE refreshMu)

-------------------------------------------------------------------------------
(* getVkCredsCached: a look under the read lock, and a second one under    *)
(* the write lock, which is then kept while VK is asked.                   *)
LookUp(p) ==
    /\ pc[p] = "rlock" /\ ~Held(p)
    /\ got' = [got EXCEPT ![p] = cache[GroupOf(p)]]
    /\ Goto(p, IF cache[GroupOf(p)] # 0 THEN "swap" ELSE "lock")
    /\ UNCHANGED <<ctxDone, workVars, groupVars, cacheVars, errorVars, vkVars,
                   refused>>

LookAgain(p) ==
    /\ pc[p] = "lock" /\ ~Held(p)
    /\ got' = [got EXCEPT ![p] = cache[GroupOf(p)]]
    /\ IF cache[GroupOf(p)] # 0
       THEN Goto(p, "swap") /\ UNCHANGED cacheMu
       ELSE /\ Goto(p, "serialize")
            /\ cacheMu' = [cacheMu EXCEPT ![GroupOf(p)] = p]
    /\ UNCHANGED <<ctxDone, workVars, groupVars, cache, errorVars, vkVars, refused>>

Store(p) ==
    /\ pc[p] = "store"
    /\ cache' = [cache EXCEPT ![GroupOf(p)] = IF got[p] # 0 THEN got[p] ELSE @]
    /\ cacheMu' = [cacheMu EXCEPT ![GroupOf(p)] = Nobody]
    /\ Goto(p, IF got[p] # 0 THEN "swap" ELSE "noCreds")
    /\ UNCHANGED <<ctxDone, workVars, got, groupVars, errorVars, vkVars, refused>>

-------------------------------------------------------------------------------
(* fetchVkCredsSerialized: one fetch at a time, ThrottleMin apart.         *)
Serialize(p) ==
    /\ pc[p] = "serialize" /\ vkMu = Nobody
    /\ vkMu' = p
    /\ Goto(p, "throttle")
    /\ UNCHANGED <<ctxDone, workVars, got, groupVars, cacheVars, errorVars,
                   lastFetch, attempt, lockout, issued, requested, refused>>

ThrottleOver(p) ==
    /\ pc[p] = "throttle" /\ lastFetch >= ThrottleMin
    /\ Goto(p, "fetch")
    /\ UNCHANGED <<ctxDone, workVars, got, groupVars, cacheVars, errorVars, vkVars,
                   refused>>

ThrottleLeaving(p, mu) ==
    /\ pc[p] = "throttle" /\ lastFetch < ThrottleMin /\ ctxDone
    /\ vkMu' = mu
    /\ Goto(p, "store")
    /\ UNCHANGED <<ctxDone, workVars, got, groupVars, cacheVars, errorVars,
                   lastFetch, attempt, lockout, issued, requested, refused>>

(* Mutant: the early return leaves vkRequestMu locked.                     *)
ThrottleKeepsLock(p) == ThrottleLeaving(p, vkMu)

ThrottleStopped(p) == ThrottleLeaving(p, Nobody)

(* A fetch ends: its time is stored and vkRequestMu unlocked.              *)
EndsAt(p, last) ==
    /\ lastFetch' = last
    /\ requested' = 0
    /\ vkMu' = Nobody
    /\ attempt' = 0
    /\ Goto(p, "store")

Ends(p) == EndsAt(p, 0)

FailsWith(p) ==
    /\ Ends(p)
    /\ UNCHANGED <<ctxDone, workVars, got, groupVars, cacheVars, errorVars,
                   lockout, issued, refused>>

(* VK, or the person asked, gives credentials newer than any given before. *)
Succeeds(p) ==
    /\ pc[p] \in {"account", "vkcalls", "chain"}
    /\ issued < MaxIssued
    /\ issued' = issued + 1
    /\ got' = [got EXCEPT ![p] = issued + 1]
    /\ Ends(p)
    /\ UNCHANGED <<ctxDone, workVars, groupVars, cacheVars, errorVars, lockout,
                   refused>>

(* fetchVkCreds: with an account ask for it; else stay away from VK while  *)
(* the captcha lockout lasts.                                              *)
Fetch(p) ==
    /\ pc[p] = "fetch"
    /\ AuthMode = "account" \/ lockout = 0
    /\ Goto(p, IF AuthMode = "account" THEN "account"
               ELSE IF AnonPath = "vkcalls" THEN "vkcalls" ELSE "chain")
    /\ UNCHANGED <<ctxDone, workVars, got, groupVars, cacheVars, errorVars, vkVars,
                   refused>>

FetchLockedOut(p) ==
    /\ pc[p] = "fetch" /\ AuthMode = "anonymous" /\ lockout > 0
    /\ FailsWith(p)

(* Mutant: a failed fetch does not count for the throttle.                 *)
FetchFailsUncounted(p) ==
    /\ pc[p] \in {"account", "vkcalls", "chain"}
    /\ EndsAt(p, lastFetch)
    /\ UNCHANGED <<ctxDone, workVars, got, groupVars, cacheVars, errorVars,
                   lockout, issued, refused>>

(* Nobody answers in five minutes, or the answer is a refusal; or the call *)
(* itself is gone, which no other path can mend.                           *)
FetchFails(p) ==
    /\ pc[p] \in {"account", "vkcalls", "chain"}
    /\ FailsWith(p)

(* The VK Calls path failed otherwise: the legacy chain follows.           *)
FallBack(p) ==
    /\ pc[p] = "vkcalls"
    /\ Goto(p, "chain")
    /\ UNCHANGED <<ctxDone, workVars, got, groupVars, cacheVars, errorVars, vkVars,
                   refused>>

(* Another error: the next of the attempts, after the second one with a    *)
(* pause that the context ends.                                            *)
ChainRetries(p) ==
    /\ pc[p] = "chain" /\ attempt + 1 < vkCredentialAttemptLimit
    /\ ~(ctxDone /\ attempt = 1)
    /\ attempt' = attempt + 1
    /\ UNCHANGED <<ctxDone, pc, workVars, got, groupVars, cacheVars, errorVars,
                   vkMu, lastFetch, lockout, issued, requested, refused>>

(* Mutant: a captcha that was not solved is an error like another.         *)
CaptchaRetries(p) ==
    /\ pc[p] = "chain" /\ attempt + 1 < vkCredentialAttemptLimit
    /\ lockout' = LockoutTime
    /\ attempt' = attempt + 1
    /\ UNCHANGED <<ctxDone, pc, workVars, got, groupVars, cacheVars, errorVars,
                   vkMu, lastFetch, issued, requested, refused>>

(* A captcha was not solved: no more attempts, and none for a minute.      *)
CaptchaFails(p) ==
    /\ pc[p] = "chain"
    /\ lockout' = LockoutTime
    /\ Ends(p)
    /\ UNCHANGED <<ctxDone, workVars, got, groupVars, cacheVars, errorVars, issued,
                   refused>>

-------------------------------------------------------------------------------
fetchVkCreds(p) ==
    \/ Fetch(p) \/ FetchLockedOut(p) \/ Succeeds(p) \/ FetchFails(p)
    \/ FallBack(p) \/ ChainRetries(p) \/ CaptchaFails(p)

GetCreds(p) ==
    \/ LookUp(p) \/ LookAgain(p) \/ Store(p) \/ Serialize(p)
    \/ ThrottleOver(p) \/ ThrottleStopped(p) \/ fetchVkCreds(p)

WorkerLoop(w) ==
    \/ LoopTop(w) \/ AllocateOK(w) \/ AllocateRefused(w) \/ SessionEnds(w)
    \/ Returned(w) \/ Decide(w) \/ handleAuthError(w)
    \/ Invalidate(w) \/ ClearErrors(w) \/ LockRefresh(w) \/ Gate(w)

Obtain(p) == GetCreds(p) \/ Swap(p) \/ NoCreds(p)

Next ==
    \/ Stop \/ Tick
    \/ \E g \in Group : Expire(g)
    \/ \E w \in Worker : WorkerLoop(w)
    \/ \E p \in Caller : Obtain(p)

(* Every goroutine that can run does, and every request ends.  It is       *)
(* disabled, and enabled again, only while it waits for a mutex, which is  *)
(* given to whoever waits for it long enough.  Time passes, however often  *)
(* a worker counts an error.  A session need not end before the client     *)
(* stops.                                                                  *)
Fairness ==
    /\ SF_vars(Tick)
    /\ \A w \in Worker :
          /\ SF_vars(pc[w] # "up" /\ (WorkerLoop(w) \/ Obtain(w)))
          /\ WF_vars(ctxDone /\ SessionEnds(w))
    /\ \A p \in Starter : SF_vars(Obtain(p))

Spec == Init /\ [][Next]_vars /\ Fairness

-------------------------------------------------------------------------------
(* Every variable has a value of its kind.                                 *)
TypeOK ==
    /\ ctxDone \in BOOLEAN
    /\ pc \in [Caller -> {"idle", "top", "allocate", "up", "errWindow", "errReset",
                          "errAdd", "errTime", "errInvalidate", "errClear",
                          "returned", "refresh", "invalidate", "clear",
                          "rlock", "lock", "serialize", "throttle", "fetch",
                          "account", "vkcalls", "chain", "store", "swap",
                          "noCreds", "decide", "over"}]
    /\ snap \in [Worker -> Nat] /\ renew \in [Worker -> BOOLEAN]
    /\ count \in [Worker -> Nat] /\ got \in [Caller -> Nat]
    /\ creds \in [Group -> Nat] /\ cache \in [Group -> Nat]
    /\ refreshMu \in [Group -> Worker \cup {Nobody}]
    /\ cacheMu \in [Group -> Caller \cup {Nobody}]
    /\ vkMu \in Caller \cup {Nobody}
    /\ errorCount \in [Group -> Nat]
    /\ lastError \in [Group -> 0..LongAgo]
    /\ lastRefresh \in [Group -> 0..RefreshGate]
    /\ swapped \in [Group -> 0..RefreshGate]
    /\ lastFetch \in 0..ThrottleMin /\ requested \in 0..ThrottleMin
    /\ attempt \in 0..(vkCredentialAttemptLimit - 1)
    /\ lockout \in 0..LockoutTime
    /\ issued \in 0..MaxIssued
    /\ refused \subseteq 0..MaxIssued

(* What a refresh is about to put in the place of the group's credentials  *)
(* was issued after them: neither the cache, nor another worker's refresh  *)
(* or error handling, makes it give the refused ones back.                 *)
RefreshRenews ==
    \A w \in Worker : pc[w] = "swap" => got[w] > creds[GroupOf(w)]

(* A refresh replaces credentials only when they are RefreshGate old or    *)
(* more, however many workers fail with them at once; those the group      *)
(* started with may be replaced at once.                                   *)
RefreshesApart ==
    [][\A g \in Group : creds[g] # 0 /\ creds'[g] # creds[g]
                            => swapped[g] >= RefreshGate]_vars

(* Over all groups, a fetch starts ThrottleMin or more after the last one  *)
(* ended, with whatever result ("Throttle: 3-6 seconds between requests"). *)
ThrottleKept ==
    [][\A p \in Caller : pc[p] = "throttle" /\ pc'[p] = "fetch"
                             => requested >= ThrottleMin]_vars

(* While the lockout after an unsolved captcha lasts, no group talks to VK *)
(* without an account, not even one that was waiting for its turn.         *)
LockoutKept ==
    \A p \in Caller : pc[p] \in {"vkcalls", "chain"} => lockout = 0

(* As long as the errors counted reach the limit, somebody who counted one *)
(* of them is about to invalidate the cache: no limit is passed unnoticed  *)
(* by workers that count, reset and clear at the same time.                *)
ErrorsNeverPile ==
    \A g \in Group : errorCount[g] >= maxCacheErrors =>
        \E w \in Worker : /\ GroupOf(w) = g /\ count[w] >= maxCacheErrors
                          /\ pc[w] \in {"errTime", "errInvalidate", "errClear"}

(* Every refresh comes to its end, through refreshMu, the mutex of the     *)
(* cache and vkRequestMu: nobody keeps one of them and no two wait for each*)
(* other.                                                                  *)
RefreshReturns ==
    \A g \in Group : refreshMu[g] # Nobody ~> refreshMu[g] = Nobody

(* Once the client stops, everybody ends, also in the middle of a fetch.   *)
StopEnds == ctxDone ~> \A p \in Caller : pc[p] \in {"idle", "over"}
===============================================================================
