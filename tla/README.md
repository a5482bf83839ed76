# Verification of the qWDTT OpenWrt client

TLA+ models of `src/client` (the Go program `qwdtt-client`), TLC runs over
small instances, and TLAPS proofs for instances of every size.

The client carries the IP packets of a LAN through TURN relays. It obtains TURN
credentials, keeps one session per worker open to a relay, asks the server once
for the address of the tunnel, brings up a TUN and then copies packets between
the TUN and the sessions.

## Inventory

| Component | State | Operations | Talks to |
| --- | --- | --- | --- |
| Dispatcher, uplink (`dispatcher.go`) | `workers`, `rrIndex`, `rrCount`, `chunkStartTs`, `lastPktTime` under `mu`; each slot's `SendCh`, `PrioCh` | `readLoop`, `Register`, `Unregister`, `AttachTUN`, `Shutdown` | TUN; the sessions, by channels |
| Session (`session.go`) | `sessCtx`, its goroutines, the deadlines of its connection | set-up, Writer, keepalive, Reader, relay goroutines, teardown | dispatcher, relay, worker |
| Packet buffers (`dispatcher.go:13`) | `pktPool` | `getPktBuf`, `putPktBuf` | everybody on the packet path |
| Dispatcher, downlink | `ReturnCh` | the Readers' offer, `writeLoop` | TUN |
| Process (`main.go`) | root context, signals, `pauseFlag`, `configCh`, the cascade's channels | `main`, signal, stdin and config goroutines | groups, TUN, dispatcher |
| Worker groups (`group.go`) | `configSent`, `configRequestInFlight`, credentials, refresh gate | cascade, worker loop, `refreshCreds` | sessions, credentials |
| Credentials (`creds.go`) | cache per group, error window, throttle, captcha lockout | `getVkCredsCached`, `handleAuthError`, `invalidate`, the fetch chain | VK, stdin |
| Account credentials, captcha answers (`vk_account.go`, `main.go:142`) | injected credentials, one-place result channels | request, answer, inject, invalidate | stdin |
| Obfuscation (`obfs.go`) | per connection a random SSRC, a packet counter and its initial values; one key for all | wrap, unwrap | session |
| Native TUN (`raw_tun_native_linux.go`) | interface, policy rule, route table 51820 | create, configure, cleanup | kernel |
| DoH, SOCKS, WireGuard, captcha solvers, LuCI, scripts | little or none | I/O | outside |

Nearly everything hard is in the interleavings: the packet path is shared by
`readLoop`, which holds `d.mu`, and by the Writers, which do not; a slot is
removed while packets are put in it; `configSent` and `configRequestInFlight`
are two atomics; the process stops at any point of its start; and a select that
forgets the context keeps it alive. `PROJECT.json` lists every such hazard at
its line, with the property that watches it or a note why none does.

What makes each component correct:

* uplink: a buffer has one owner; the packets of a chunk use one relay; a packet
  is dropped only when every worker refused it; `readLoop` never waits;
* sessions: all goroutines end when the session or the client does, and leave
  nothing behind in a slot that is gone;
* process: a stop at any point ends the process; `configCh` is closed last;
* configuration: one request at a time, the right to ask is never lost, an
  answer is not refused and takes effect;
* credentials: a late error does not discard fresh credentials; an answer goes to
  the request it belongs to; the locks cannot wait for each other;
* nonce: never repeated for a key; TUN: no rule survives a stop and a restart.

## Modules

| Module | Models |
| --- | --- |
| `PacketBuffer` | abstract: a buffer goes pool, producer, queue, consumer, pool, with one holder; implemented by `Uplink` and by `Downlink` |
| `Uplink` | `readLoop`, `Register`/`Unregister`, and per session the Writer, keepalive and exits |
| `MCUplink` | instances of `Uplink`, with symmetry |
| `UplinkProofs` | TLAPS proofs about `Uplink` |
| `Client` | main, signal, stdin and config goroutines, groups, workers |
| `MCClient` | instances of `Client` |
| `ClientProofs` | TLAPS proofs about `Client` |
| `Credentials` | `WorkerGroup`'s first fetch, the worker's loop, `handleAuthError`, `refreshCreds`, the cache and the fetch from VK |
| `MCCredentials` | instances of `Credentials` |
| `CredentialsProofs` | TLAPS proofs about `Credentials` |
| `NativeTun` | `createNativeRawTUN`, its commands, `cleanup`, and what the kernel keeps between two lives of the process |
| `Downlink` | composes `NativeTun` with the Readers, `ReturnCh` and `writeLoop` |
| `MCDownlink` | an instance of `Downlink` |
| `DownlinkProofs` | TLAPS proofs about `NativeTun` and `Downlink` |
| `Session` | `RunSession` from the dialling to the last deferred `Close`, and `RunPing` |
| `MCSession` | an instance of `Session`, with the bound `RunsAlone` |
| `SessionProofs` | TLAPS proofs about `Session` |
| `Answers` | `fetchVkCreds` step by step: both chains, the captchas, the prompts, and the reader of stdin |
| `MCAnswers` | an instance of `Answers` |
| `AnswersProofs` | TLAPS proofs about `Answers` |
| `Obfs` | the nonce of a wrapped packet and the lengths by which one is unwrapped |
| `MCObfs` | an instance of `Obfs` |
| `ObfsProofs` | TLAPS proofs about `Obfs` |
| `QueueLemmas` | lemmas about appending to, taking from and removing from a sequence, for `UplinkProofs` and `DownlinkProofs` |

Definitions keep the names of the source, and the `map` of `PROJECT.json` gives
the lines of each. A definition whose comment begins with "Mutant" is a wrong
variant of the one after it; no specification uses it.

### Uplink

`readLoop` is the program counter `rpc`: `wait` (for `AttachTUN`), `top`,
`read`, `lock`, then `prio` for a small packet, `dwell` and `send`. It holds
`d.mu` in the last three, so `Register` and `Unregister` wait (`MuFree`), but
the Writers do not take that lock: each attempt on one channel is a step of its
own and channels fill and drain during the scan. The Writer is `wpc`: the look
at `PrioCh` and the three-way select are two steps, and the drain after the
context is done goes one packet at a time while `readLoop` still knows the slot.

Abstractions. A packet is its buffer and its size. Time is the gap before a
packet and the age of the chunk, cut off at `maxDwellMS`; a wall clock that runs
backwards is not modelled. A worker identity is a session: after `Unregister` it
may register again with new channels, as `RunSession` does. A write ends with
success or failure within its deadline. That the Reader ends once the session's
context is done is assumed here; `Session` shows it, but for answers to keepalives
that never cease (`SessionStops`). `sync.Pool`
may discard buffers and make new ones; a fixed set of buffers that are reused as
early as possible is the case in which a wrong owner shows.

`chunkSlot`, `chunkOf`, `refused` and `overtaken` are history variables; no
action of the code reads them.

### Client

`gpc[g]` follows `WorkerGroup` (`turn`, `pause`, `creds`, `run`), `baton[g]` its
`signalReady`, `wpc[w]` the worker's loop: `top`, `claim` (it has seen
`configSent = 0` and is about to compare-and-swap), then `RunSession` reduced to
`dial`, `ask`, `deliver`, `up`, then `return` and `sleep`. `main` is `mainPc`,
the config goroutine `cpc`, `readLoop` is reduced to `readPc` because `Shutdown`
waits for it. A blocked read of the native TUN ends when a packet arrives or
`cleanup` deletes the link, not when the descriptor is closed, since the TUN is
in blocking mode. `exit` ends everything: no action happens after it. A timer
and the context are not seen as ready at the same moment: where a select waits
for both and the context is done, it leaves by the context.

### Credentials

A caller is a worker, or member 0 of its group: `WorkerGroup`, which fetches the
first credentials and starts the workers. `pc[p]` follows it through the loop of
the worker (`top` to `decide`), `handleAuthError` (`errWindow` to `errTime`),
`invalidate` (`errInvalidate`, `errClear` from there; `invalidate`, `clear` from
`refreshCreds`), `refreshCreds` (`refresh`, `swap`, `noCreds`), the cache
(`rlock`, `lock`, `store`), `fetchVkCredsSerialized` (`serialize`, `throttle`) and
`fetchVkCreds` (`fetch`, then `account`, `vkcalls` or `chain`). Each mutex is the
variable that holds its owner; each atomic is read or written by a step of its
own, so that workers of a group meet in the middle of the counting.

Abstractions. Credentials are numbered as VK issues them; what an account
answers is taken to be newer than what was there. Time is what has passed since
an event, up to the limit the code compares it with; no second passes between
the instructions of `handleAuthError` that read the clock and store it. The
throttle waits the least its random interval may be. Which of the many errors of
the HTTP chain occurs is a choice, reduced to what the code does next: the next
attempt, the legacy chain, the lockout, or the end. A local variable is 0 out of
its scope.

The cache of a group is read by `WorkerGroup`, when it is empty, and by
`refreshCreds`, which has invalidated it and still holds `refreshMu`. Its hits are
modelled but no state reaches one, as the invariant of the proofs says; what
`handleAuthError` invalidates would not be read again. `RefreshRenews` is what
matters of it: no refresh gives the refused credentials back.

`swapped` and `requested` are history variables.

### NativeTun and Downlink

The config goroutine of `NativeTun` is `pc`, one command of `configure` at a
time: each works or fails, and a failure gives up (`Checked`) or is ignored
(`Ignored`), as the code has it. The goroutine that `context.AfterFunc` starts
is `cpc`. `kernel` is what outlives a command: the link, whether it is up, the
route of table 51820 and the rule. The link lives as long as a descriptor or a
`Read` that is under way refers to it, and takes its routes along; the rule
stays until somebody deletes it. `Dies` and `Respawns` are the end of the
process, whichever it was, and procd's new start: memory is lost, the rule is
not. `failed` is history, and what the properties allow for: a command that
cannot run at all leaves things behind.

`Downlink` EXTENDS `NativeTun` and adds, per session, the Reader (`rdr`), whose
offer to `ReturnCh` is a select with the session's context and a default, and
`writeLoop` (`wpc`). In `wg` mode there is no TUN, and packets go to the address
`readLoop` learnt. An exit needs `writeLoop`, the config goroutine and
`readLoop` to be over, a crash needs nothing.

Abstractions. The contents of a packet; a Reader's own time-out, which changes
nothing here and is in `Session`; addresses, names and priorities of the
commands.

### Session

A member of `Session` is one call of `RunSession` (or, in mode `ping`, of
`RunPing`, one after another). `pc` follows the call; `live` is the set of its goroutines
that run, `armed` its `context.AfterFunc`s, `closed` what can no longer be
read. `direct` and `rawDirect` are the transports that talk over the relay's
connection, `classic` has pipes, two relay goroutines and a DTLS handshake
under `handshakeSem`. `WrapKey` is always set, so a classic session is never raw
(`session.go:293`). The Reader (`readerAt`, `deadline`) is modelled with its
race: it sets a deadline of 30 minutes, and may do so after the AfterFunc has
set one that is over. Between Read and the select of the offer there is a step
(`ReadPacket`, then `Offered` or `OfferSeesDone`); the answer to a keepalive goes
straight back to the next Read (`ReadAnswer`) and never meets the context.

The Writer (`writerAt`, `queued`) is in its loop or drains. Of its two channels
`Session` keeps whether anything lies in them: `readLoop`, while it runs
(`feeding`), and the keepalive fill them (`Feed`) until the slot is
unregistered, and the Writer leaves only through a drain that finds them empty.
What lies where, and the priority check as a step of its own, is in `Uplink`.

The steps that wait for the network have a time-out, which is a failure like any
other here. Any session that asks may be refused (FATAL_AUTH). The group's ticker
is a step that is taken at some time. A request for the configuration ends within 45
seconds and does not look at the context. DISCONNECT_RAW may be lost: when the
client stops, both contexts its goroutine selects on are done.

### Answers

`pc` is the one call of `fetchVkCreds` that runs; `vkRequestMu`, which
`Credentials` models, lets no second one in. It goes through the requests of the
VK Calls chain (`vkcalls`, `step`) and the legacy chain (`legacy`, with
`attempt` over the two application keys and a pause after each pair), and for
each captcha through the stages of the captcha mode: the solver in Go
(`page`, `checkbox`, `slider`, `check` with its tries) and the prompts (`drain`,
`prompt`, `wait`). The loop of `solveOnce` over the show types
(`captcha_v2.go:232`) has no counter and needs none: only the checkbox reports
another type (`captcha_v2.go:591`), every type but `checkbox` and `slider` is an
error, and the slider ends the loop with a token or an error, so there are at
most two passes. The reader of stdin is `inPc`: for an answer it drains the
result channel and sends, and the requester drains it too before it asks.
There is one result channel for a mode of authentication, `chan`.

What a request answers is a choice of what the code tells apart. The errors that
`isCaptchaSessionDead` recognises are not among those `solveVkCaptchaV2Attempts`
returns, so the branches for an expired captcha session (`creds.go:499`, `632`,
`655`) are never taken and not modelled. In the VK Calls chain only the
requests to `messages.*` report an unavailable call. A prompt for a captcha waits
for its time-out even if the client stops.

An answer carries, as history, whether it was sent while a request was open
(`asked`) and while its prompt was out (`answers`), and `mismatched` is history as well. What `AnswersMatchPrompts` does not say is that an answer names
its prompt: it cannot, the lines have no number. A late account answer that
arrives while the next prompt is out is taken for it and stored under its
link as well as under its own.

### Obfs

`TakeCount` is what happens under `state.mu`; `Seal` follows outside of it, so
that goroutines of one connection overtake each other. The widths are
parameters: `M` values of the sequence number, `M * M` of the timestamp, as
2^16 and 2^32. All streams are sealed with one `WrapKey`; the first four bytes of
the nonce are the SSRC, which is random for each stream and keeps the nonces of
two streams apart with high probability, which is not modelled. Within a stream
it is constant, so one stream is modelled, with its counter and initial values. `Receive` follows a packet of the server
with either header and any padding through `ReadFrom`'s cut to the buffer and
the arithmetic of `obfsUnwrapPacket`. The cipher is external: what is opened is
exactly what was sealed.

## Runs

| Run | Configuration | Shows |
| --- | --- | --- |
| `uplink_packets` | 2 workers, 3 buffers, sizes 100 and 200, gaps 0 and 11 ms, channels of 1 | `BufferInOnePlace`, `AckOvertakenOnce`, `EveryWorkerTried`, `UnregisteredIsQuiet`, `RRIndexInBounds`, `ChunkAffinity` |
| `uplink_chunk_size` | 2 workers, 4 buffers, size 100 | violation: `ChunkSizeKept` |
| `uplink_liveness` | 1 worker, 3 buffers, sizes 100 and 200, gaps 0, 8, 11 ms | `ReadLoopNeverBlocks`, `ShutdownCompletes`, `SessionEndsUnlessFed`, `BufferLife`: `Uplink` implements `PacketBuffer` |
| `client_config` | 1 group of 3, TUN by socket, 2 signals | `ConfigRight`, `DeliveryWelcome`, `MainIsLast` |
| `client_liveness` | 2 groups of 1, native TUN, 1 signal | `StopTerminates`, `ConfigTakesEffect` |
| `client_cascade` | 2 groups of 1 | violation: `TurnComes` |
| `creds_refresh` | account, 1 group of 2, 3 credentials | `RefreshRenews`, `ErrorsNeverPile`, `RefreshesApart` |
| `creds_groups` | anonymous with VK Calls, 2 groups of 1 | `LockoutKept`, `ThrottleKept`, `RefreshReturns`, `StopEnds` |
| `downlink` | 2 sessions, 3 buffers, `ReturnCh` of 1, both modes | `TypeOK`, `LeftoversNeverBlock`, `LanRouted`, `CleanupComplete`, `DownlinkFlows`, `StopEndsProcess`, `DownlinkBufferLife`: `Downlink` implements `PacketBuffer` |
| `session` | 2 calls, 1 place for handshakes, all transports | `TypeOK`, `GivesBack`, `ClosedWhenQuiet`, `SessionStops`, `SessionReturnsUnlessFed` |
| `answers` | 2 links, 4 attempts, 3 captchas, all modes | `TypeOK`, `AnswersMatchPrompts`, `StdinNeverBlocks`, `FetchEnds` |
| `obfs` | 2 goroutines, `M` = 4, half of the counter's 64 values, payloads 0, 1, 1580, 1581 | `NonceFresh`, `UnwrapExact` |

All type invariants are proved. Those of `Downlink`, `Session` and `Answers` are
among the runs' properties as well. The inductive invariants of the proofs were
run through TLC, on the instances of these runs, before they were proved.

Bounds. Two workers give every order of removal before, at and behind the
index, and a scan that starts at either and ends in a demotion or, with both
`SendCh` full and a packet in hand, in a drop; three are used where one request
for the configuration fails while two others compete. Channels of one
place are full at once, which takes the real 32 and more packets to happen; the
proofs hold for any capacity. Sizes 100 and 200 give chunks of one and three
packets and lie on both sides of `prioThreshold`. Gaps 8 and 11 are below and
above the pause of 10 ms, and two of 8 exceed the 15 ms of `maxDwellMS`. The
gap of 8 is in the run of one worker only, as two would have too many states: with
several workers, a chunk that ends by its age is left to `AffinityCorrect` and
`IndexCorrect`, which hold for any gaps. Two groups are the shortest cascade.
Deadlock is not checked: the client may stop, and may wait for packets for ever.

Two workers of one group compete for `refreshMu`, the error count and the cache;
two groups compete for `vkRequestMu`. The times are 1 or 2 instead of 3, 10, 15
and 60 s: each is still reached from below, and the
lockout outlasts the throttle; the proofs hold for any. Three
credentials are the first ones and two refreshes, which is what `RefreshesApart`
relates; the run of two groups needs no second ones.

In `downlink`, two Readers meet at a full `ReturnCh` while a third buffer is
written; the process may be started again any number of times. In `session`, one
place for handshakes makes the second call wait, as the fourth does in the code;
the calls meet at every step of the set-up and of the end, but by the constraint
`RunsAlone` a call that runs does so while the other one has not begun or is
over. Running calls share only the two counters and the set of slots, for which
the theorems have no such bound; and a constraint only cuts behaviours off: one
that waits for ever at its edge for a step beyond it is not fair, so nothing is
refuted for that reason, and each call that runs is seen to its end with the
other one still idle. In `uplink_chunk_size` two
packets fill the `PrioCh` of both workers, one the `SendCh` of the first, and the
fourth is the one that is sent to the second worker twice running.
In `answers`, attempts, captchas, tries and guesses are the code's own numbers.
In `obfs`, with `M` = 4, the sequence number wraps 8 times and the timestamp,
which each packet advances by 6 of 16, wraps 12 times; the proofs of
`ObfsProofs` take the real widths. 1580 is the longest payload that fits with
the longer header and the longest padding; 1581 is cut with both, and fits otherwise.
An empty payload is dropped by `obfsUnwrapPacket`. `UnwrapCorrect` takes any
sizes; with the 24 bytes of padding of the audio mode it is the payload's own
buffer and not the read buffer that limits the payload, so `Fits` names both.

The liveness runs of `Uplink` and `Client` use one worker per group: what is at
stake is the worker against `readLoop`, `main` or the config goroutine, and the
tableau of more does not finish in reasonable time.

## Fairness

Every goroutine that can run does (weak fairness of its steps), which the Go
scheduler gives. `Unregister` has strong fairness: it needs `d.mu`, which
`readLoop` takes and releases again and again, and `sync.Mutex` does not starve a
waiter. Nothing is assumed of the outside: packets, signals, stdin lines and a
peer of the descriptor's socket need never come, a relay need never fail, and a
session need not end before the client stops; nobody need answer a prompt, and
procd need not start the client again. A caller of `Credentials` has strong
fairness for the same reason, as it waits for three mutexes; it covers a session only
up to `Allocate`, and its end once the client stops. Time passes (strong
fairness of `Tick`), also for a worker that keeps counting errors. Requests, dials and writes end
because they have time limits of their own. `readLoop`'s read ends, once the
client stops, because the socket is closed or the link deleted.

`SeesStop` in `Downlink` and `OfferSeesDone` in `Session` have strong fairness:
they are the branch of a select for the context, which Go takes at random among
those that are ready. For `OfferSeesDone` this says nothing about arrivals: the
packet has been read, and the select is what is asked again and again. The
Writer has weak fairness as a whole, in `Session` as in `Uplink`: a Writer that
always finds a packet goes on without a look at the context, and a drain that is
refilled does not end, which is the exception of `SessionEndsUnlessFed` and
`SessionReturnsUnlessFed`. After a stop `readLoop` ends (weak fairness of
`ReadLoopEnds`, which `ShutdownCompletes` of `Uplink` justifies) and the exception
is gone. A Reader whose every Read returns an answer to a keepalive, in the
transports without DTLS, is the other exception of both properties. In `Session`
the steps of the set-up are fair because each has a time-out, or waits for a
ticker; in `Answers` those of the fetch for the same reason; in `NativeTun` the
commands, which `exec` waits for, end.

## Findings

* `ChunkSizeKept`: the comment at `dispatcher.go:55` says that `chunkSizeFor` is
  "how many consecutive packets of that size to send to one worker before
  switching to the next". When the current worker is full, the scan opens a
  chunk at another one with `rrCount = 1` (`dispatcher.go:365`) and does not
  compare it with the chunk's size. For a packet of at most 100 bytes that size
  is one, so the next such packet goes to the same worker; the run shows the two
  in a row.
* `TurnComes`: a group without credentials returns (`group.go:77`) without
  passing the baton; later groups, and `main`, wait until the client is stopped.
  The run shows it for two groups, the theorem `CascadeBreaks` for any number.

Observed and not checked, because the property would only restate one guard of
the code:

* after NOCONF (`session.go:463`) the right to ask for the configuration stays
  with a session that may last for hours;
* the select for the second signal (`main.go:132`) is left at once by `ctx.Done`,
  so a second signal forces nothing;
* the comment at `group.go:238` says a worker whose credentials are invalid is
  stopped; the condition below it only names a socket that is gone.

## Proofs

Every safety property of the passing runs, the two action properties of
`Credentials`, that of `Uplink`, and both implementations of `PacketBuffer` are
proved for all values of the constants.

`UplinkProofs` shows `TypeOK`, `RRIndexInBounds`, `ChunkAffinity`,
`UnregisteredIsQuiet`, `AckOvertakenOnce`, `BufferInOnePlace`,
`EveryWorkerTried` and `BufferLife` for any sets of workers and buffers, any
sizes, gaps and capacities. There are five layers of invariants, each on top of
`Inv` and the ones before that it needs.

* `Inv` adds to the chunk's properties that `readLoop` has a packet with its
  size, and a scan position below the number of workers, while it is placing
  one: without it `Slot(scan)` might be outside `workers`. The arithmetic of the
  index (`ModFacts`, `IndexFacts`) and what removing a slot does to a sequence
  (`RemoveAtFacts`) are lemmas of their own. `Unregister` resets `rrCount`, so a
  chunk does not outlive a removal; `Register` appends, so the slot the index
  names does not change.
* `Quiet` and `Passed` are about one slot. `AckOvertakenOnce` alone is not
  inductive: it needs that the Writer reaches its select only after a look at
  `PrioCh`, so that whoever is passed there is passed once.
* `Owned` says of each buffer that it is in the pool, in `readLoop`'s hand, in a
  Writer's hand or queued (`NoneLost`), in only one of them (`HeldOnce`), and
  queued once (`SlotOnce`). Every step is shown to be one of a few moves of one
  buffer (`HandedOn`), which keep `Owned` and are the steps of `PacketBuffer`:
  the invariant and the refinement are proved from the same decomposition.
* `Tried` says that during a scan the workers that refused are the ones the scan
  has passed. That `nw` attempts from any index reach every worker is
  `ScanReaches`.
* `ChannelsKept` bounds every channel by its capacity, so that room and refusal
  leave no third case and some step of the scan can always be taken (`Open`).
  `Rank` starts at no more than `2 nw + 1`, every step of the scan lowers it, and
  nobody else moves it (`LoopAdvances`): `readLoop` leaves `d.mu` after that many
  steps of its own.

`DownlinkProofs` shows `TypeOK`, `LeftoversNeverBlock`, `LanRouted`,
`CleanupComplete` and `DownlinkBufferLife` for any sessions, buffers and
capacity of `ReturnCh`, and for any sequence of exits, crashes and respawns. For
the TUN, `Configured` says what each command of `configure` has established and
that it is still there at all later ones, `Cleaned` the same of `cleanup`, and
`Attached` that the cleanup begins only after the last command. `TunInv` is
inductive for the steps of the TUN, and the packets leave its variables alone.
`PathInv` is `Owned` again, for the Readers, `ReturnCh` and `writeLoop`.
`WriterStays` shows that only a stop ends `writeLoop`, which survives every write
error, and `ReadEnds` that a stopped client sits in the Read of its TUN only while
the cleanup has not deleted the link, or after deleting it failed.

`SessionProofs` shows `TypeOK`, `GivesBack` and `ClosedWhenQuiet` for any finite
set of calls and any capacity of `handshakeSem`, whatever the server answers.
`GivesBack` counts the calls in
certain places, and each step moves one call: `Moves` says what it does to the
two sets, `Counts` what that does to their sizes. `Ended` adds which goroutines
there are where, without which `ClosedWhenQuiet` is not inductive. `NothingHangs`
says that what a call waits for is bound to end: a relay goroutine that
`relayWg.Wait` waits for has its AfterFunc still to run or reads what is closed,
and a Reader never reads without a deadline, whoever set it last. Its invariant
follows the AfterFuncs and the closes along every way out of `RunSession`
(`RelaysCut`) and the Reader from one Read to the next (`ReaderTimed`).

`AnswersProofs` shows `TypeOK` and `AnswersMatchPrompts` for any links and limits.
`AskInv` says that a request is open exactly from its drain to the end of its
wait, that what lies in the channel meanwhile was sent for it, and that an answer
to a printed prompt is in the channel only while that prompt is waited for.
That credentials are stored under a link of a call needs `LinkKnown`. `SendNeverWaits` is the
safety half of `StdinNeverBlocks`: nobody but the reader of stdin fills the
channel.

`ClientProofs` shows `TypeOK`, `ConfigRight`, `DeliveryWelcome` and
`MainIsLast` for any number of groups and workers and both kinds of TUN. The
inductive invariant says when a worker can run at all (`GroupState`), how far
`main` is (`MainState`), that the right to ask is held only within a session and
that only its holder asks (`HolderState`), that the flag is up exactly while the
right is held or the configuration is sent (`RightState`), and that a
configuration in the channel, or taken from it, was delivered by the holder
(`AnswerState`). `ConfigRight` alone is not inductive: it needs that the flag
stays up after the configuration is sent, for a worker that read `configSent`
before. On the cascade, `CascadeCorrect` shows that a group begins only after all
groups before it have had credentials and passed the baton, and `CascadeBreaks`
the price of it, the finding `TurnComes` for any number of groups: after a group
that gives up, no worker of a later one is ever started. `ReadIsWoken` is about
the last thing `main` waits for: a Read in which `readLoop` sits is of a TUN that
the process created and cleans up, unless the descriptor came over the socket.

`CredentialsProofs` shows `TypeOK`, `RefreshRenews`, `LockoutKept`,
`ErrorsNeverPile`, `ThrottleKept` and `RefreshesApart` for any number of groups
and workers, any times and both modes. The inductive invariant says who holds
which mutex where (`LockState`), that nobody but `WorkerGroup` runs before there
are credentials (`StartState`), that everything given was issued
(`IssuedState`), and, for `RefreshRenews`, that from the moment a worker holds
`refreshMu` and has invalidated, the cache stays empty until it stores what VK
issued to it, which is newer than the group's credentials (`RenewState`):
`refreshMu` is held over the fetch, so nobody else can change either meanwhile. `ClockState` ties the two history
variables to the times the code keeps. `MutexesReturned` adds the other direction
of `LockState`: a locked mutex has its holder within the critical section.
From it follows `NoCircularWait`, the order `refreshMu`, cache mutex,
`vkRequestMu` in which every caller waits, which is the safety half of
`RefreshReturns`.

`ObfsProofs` shows `NonceFresh` for any number of goroutines, any widths with
`T = M * M`, any step and any initial values, as long as no more than `M * T`
packets are sent, which for the code are the 2^48 of its comment. The
argument is arithmetic first (`NonceInjective`): two counters with the same
sequence number differ by a multiple of `M`, and then, as `Step` enters the
timestamp only with that multiple, their timestamps agree only if the carry
`c \div M` makes them differ by a multiple of `M * T`. The
inductive invariant then says that the counters in the hands of goroutines are
distinct, below `count`, and not yet used. `TypeCorrect` keeps the fields of
every header within their widths. `UnwrapCorrect` shows `UnwrapExact` for any
sizes of payloads, padding and buffers: linear arithmetic on lengths, by cases of
whether the packet was cut.

The assumptions are the named ones of the modules, on the types and ranges of the
constants only. Only model-checked is liveness: the provers have neither
fairness nor ENABLED. Those properties are `ReadLoopNeverBlocks`,
`ShutdownCompletes`, `SessionEndsUnlessFed`, `StopTerminates`,
`ConfigTakesEffect`, `RefreshReturns`, `StopEnds`, `DownlinkFlows`,
`StopEndsProcess`, `SessionStops`, `SessionReturnsUnlessFed`, `StdinNeverBlocks`
and `FetchEnds`. For eight of them the safety fact they rest on is proved, a way out of every wait or
a rank that only falls: `LoopAdvances` (`ReadLoopNeverBlocks`), `ReadIsWoken`
(`StopTerminates`), `NoCircularWait` (`RefreshReturns`), `WriterStays`
(`DownlinkFlows`), `ReadEnds` (`StopEndsProcess`), `NothingHangs`
(`SessionStops`, `SessionReturnsUnlessFed`) and `SendNeverWaits` (`StdinNeverBlocks`). What remains for
TLC is that fairness turns these into progress.

## Plan

All modules of the plan are written and all safety properties of the runs
proved. What may be added are the safety facts behind the other liveness
properties, such as that every step of a fetch uses up one of its attempts
(`FetchEnds`). New code in the components listed as not modelled would first need
modules of its own.

## Not modelled

The texts and cryptography of the protocols; what is inside the requests to VK,
the proof of work and the ranking of the slider's positions (`Answers` has the
order of the requests and what follows their outcomes); DNS over HTTPS, whose
resolvers keep no state but a cache; SOCKS and WireGuard (not supported in this
build), statistics, LuCI, packaging. The modes of the process that end before the
dispatcher starts and keep no state (`-check-hashes`, the self-test); `-ping` is
the mode `ping` of `Session`.
