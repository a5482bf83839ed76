---------------------------------- MODULE Obfs ----------------------------------
(***************************************************************************)
(* The RTP-like obfuscation of obfs.go: the nonce that obfsWrapPacket      *)
(* derives from a packet counter, with goroutines that wrap packets of one *)
(* connection at the same time, and the lengths by which obfsUnwrapPacket  *)
(* finds the ciphertext in what was read.  The cipher is external: Open    *)
(* succeeds on exactly what was sealed.                                    *)
(***************************************************************************)
EXTENDS Integers

CONSTANTS
    Writer,    \* the goroutines that write to the connection
    M,         \* values of the 16-bit sequence number
    Step,      \* the timestamp of one audio frame (960)
    Limit,     \* packets sent in a session; counter bits: 48
    Plains,    \* payload sizes of received packets
    PadMax,    \* ObfsConfig.PaddingMax
    ReadBuf    \* readBufSize

T == M * M     \* values of the 32-bit timestamp

ASSUME WidthAssumption == M \in Nat \ {0} /\ Step \in Nat
ASSUME LimitAssumption == Limit \in Nat /\ Limit <= M * T
ASSUME LengthAssumption == Plains \subseteq Nat /\ PadMax \in 1..254 /\ ReadBuf \in Nat

VARIABLES
    initSeq, initTs, count,   \* ObfsState
    hand,     \* the counter each goroutine took, Free if it wraps nothing
    used,     \* history: the nonces of the packets that were sealed
    reused,   \* history: a nonce was used for a second packet
    recv      \* the last packet read: its payload, and what unwrap returned

sendVars == <<count, hand, used, reused>>
vars == <<initSeq, initTs, sendVars, recv>>

Free == -1
Dropped == -1
None == [plain |-> Dropped, got |-> Dropped]

Init ==
    /\ initSeq \in 0..(M - 1) /\ initTs \in 0..(T - 1)
    /\ count = 0
    /\ hand = [w \in Writer |-> Free]
    /\ used = {} /\ reused = FALSE
    /\ recv = None

-------------------------------------------------------------------------------
(* The fields of packet c: uint16 and uint32 arithmetic wraps around.      *)
SeqOf(init, c) == (init + c) % M
TsOf(init, c) == (init + c * Step + c \div M) % T

(* Mutant: the timestamp counts frames only.                               *)
NonceWithoutCarry(c) == <<SeqOf(initSeq, c), (initTs + c * Step) % T>>

Nonce(c) == <<SeqOf(initSeq, c), TsOf(initTs, c)>>

(* Mutant: the counter is increased after the packet is sealed.            *)
TakeCountOnly(w) ==
    /\ hand[w] = Free /\ count < Limit
    /\ hand' = [hand EXCEPT ![w] = count]
    /\ UNCHANGED <<initSeq, initTs, count, used, reused, recv>>

(* Under state.mu: c := state.count; state.count++.                        *)
TakeCount(w) ==
    /\ hand[w] = Free /\ count < Limit
    /\ hand' = [hand EXCEPT ![w] = count]
    /\ count' = count + 1
    /\ UNCHANGED <<initSeq, initTs, used, reused, recv>>

(* Outside the mutex: header, nonce, Seal, WriteTo.                        *)
Seal(w) ==
    /\ hand[w] # Free
    /\ reused' = (reused \/ Nonce(hand[w]) \in used)
    /\ used' = used \cup {Nonce(hand[w])}
    /\ hand' = [hand EXCEPT ![w] = Free]
    /\ UNCHANGED <<initSeq, initTs, count, recv>>

-------------------------------------------------------------------------------
headerLegacy == 12
headerFull == 24      \* with the X bit
overhead == 16        \* chacha20poly1305.Overhead
slack == 80           \* what the read buffers have beyond the payload
Byte == {0, 1, PadMax, 255}   \* what the last byte of a cut packet may be

(* A packet on the wire; pad counts its own length byte, and without the P *)
(* bit there is none.                                                      *)
Wire(header, plain, pad) ==
    [header |-> header, sealed |-> plain + overhead, pad |-> pad]
WireLen(p) == p.header + p.sealed + p.pad

(* Mutant: the X bit of the incoming packet is not looked at.              *)
UnwrapLegacy(p, len, last) ==
    IF (len - last) - headerLegacy = p.sealed THEN p.sealed - overhead ELSE Dropped

(* obfsUnwrapPacket of len bytes, the last of which is last; a buffer of   *)
(* ReadBuf bytes takes the payload.                                        *)
Unwrap(p, len, last) ==
    LET end == IF p.pad = 0 THEN len ELSE len - last
        ciphertext == end - p.header
        wellFormed ==
            /\ len > p.header
            /\ p.pad # 0 => last \in 1..(len - p.header)
            /\ ciphertext > overhead
            /\ ciphertext - overhead <= ReadBuf
        opens == ciphertext = p.sealed
    IN  IF wellFormed /\ opens THEN ciphertext - overhead ELSE Dropped

(* The relay delivers a packet of the server, with either header, padding  *)
(* or none; ReadFrom cuts it to the buffer, and the last byte of what is   *)
(* left may then be anything.                                              *)
Receive(header, plain, pad) ==
    LET p == Wire(header, plain, pad)
        whole == WireLen(p) <= ReadBuf + slack
        len == IF whole THEN WireLen(p) ELSE ReadBuf + slack
    IN  /\ \E last \in IF whole THEN {pad} ELSE Byte :
              recv' = [plain |-> plain, got |-> Unwrap(p, len, last)]
        /\ UNCHANGED <<initSeq, initTs, sendVars>>

(* What obfsIsRTPPacket refuses is skipped.                                *)
ReceiveForeign ==
    /\ recv' = None
    /\ UNCHANGED <<initSeq, initTs, sendVars>>

Next ==
    \/ \E w \in Writer : TakeCount(w) \/ Seal(w)
    \/ \E header \in {headerLegacy, headerFull}, plain \in Plains,
          pad \in {0, 1, PadMax} : Receive(header, plain, pad)
    \/ ReceiveForeign

Spec == Init /\ [][Next]_vars

-------------------------------------------------------------------------------
(* Every variable keeps its type; the fields of the header their widths.   *)
TypeOK ==
    /\ initSeq \in 0..(M - 1) /\ initTs \in 0..(T - 1)
    /\ count \in 0..Limit
    /\ hand \in [Writer -> 0..(Limit - 1) \cup {Free}]
    /\ used \subseteq (0..(M - 1)) \X (0..(T - 1))
    /\ reused \in BOOLEAN
    /\ recv \in [plain : Plains \cup {Dropped}, got : Nat \cup {Dropped}]

(* obfs.go:80 calls the counter one of 48 bits: as long as it is one, no   *)
(* two packets of a connection are sealed with the same nonce, although    *)
(* its fields wrap around every 2^16 and every 2^32, and although several  *)
(* goroutines wrap packets at once.                                        *)
NonceFresh == ~reused

(* What unwrap returns is the payload or nothing, and it is the payload    *)
(* for every one but the empty that fits its buffer, and the read buffer   *)
(* with the longer header and the longest padding, whichever header and    *)
(* padding it came with.                                                   *)
Fits(plain) ==
    /\ plain \in 1..ReadBuf
    /\ headerFull + plain + overhead + PadMax <= ReadBuf + slack
UnwrapExact ==
    /\ recv.got \in {recv.plain, Dropped}
    /\ Fits(recv.plain) => recv.got = recv.plain
===============================================================================
