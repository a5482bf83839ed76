------------------------------- MODULE ObfsProofs -------------------------------
(***************************************************************************)
(* Proofs about Obfs: the nonce of a packet determines its counter, for    *)
(* any width of the sequence number, and so no nonce is used twice.        *)
(***************************************************************************)
EXTENDS Obfs, TLAPS

(* Division with remainder, and its uniqueness.                            *)
LEMMA DivMod ==
    ASSUME NEW a \in Int, NEW n \in Nat \ {0}
    PROVE  /\ a = n * (a \div n) + (a % n)
           /\ a \div n \in Int /\ a % n \in 0..(n - 1)
<1>1. a = n * (a \div n) + (a % n)
    BY SMTT(30)
<1>2. a \div n \in Int /\ a % n \in 0..(n - 1)
    BY SMTT(30)
<1>. QED BY <1>1, <1>2

LEMMA DivUnique ==
    ASSUME NEW a \in Nat, NEW q \in Int, NEW r \in Nat, NEW n \in Int,
           n > 0, a = n * q + r, r < n
    PROVE  a \div n = q
BY SMTT(30)

(* Two numbers with the same remainder differ by a multiple.               *)
LEMMA SameRemainder ==
    ASSUME NEW a \in Int, NEW b \in Int, NEW n \in Nat \ {0}, a % n = b % n
    PROVE  \E k \in Int : b - a = k * n
<1>. DEFINE qa == a \div n
            qb == b \div n
            r == a % n
<1>1. a = n * qa + r /\ b = n * qb + r
    BY DivMod
<1>2. qa \in Int /\ qb \in Int /\ r \in Int
    BY DivMod
<1>. HIDE DEF qa, qb, r
<1>3. b - a = (qb - qa) * n
    BY <1>1, <1>2
<1>. QED BY <1>2, <1>3

(* The odd factor of the timestamp can be inverted modulo M * M, because   *)
(* (1 + Step * M) * (1 - Step * M) differs from 1 by a multiple of it.     *)
LEMMA FactorInvertible ==
    ASSUME NEW k \in Int, NEW j \in Int, k * (Step * M + 1) = j * T
    PROVE  \E i \in Int : k = i * T
<1>. USE WidthAssumption
<1>. DEFINE x == Step * M
             s == Step * Step
<1>1. x \in Nat /\ s \in Nat /\ T \in Nat
    BY DEF T
<1>2. x * x = s * T
    BY DEF T
<1>3. (k * (x + 1)) * (1 - x) = k - k * (x * x)
    BY <1>1
<1>4. k = (j * T) * (1 - x) + k * (s * T)
    BY <1>2, <1>3
<1>. HIDE DEF x, s
<1>5. (j * T) * (1 - x) + k * (s * T) = (j * (1 - x) + k * s) * T
    BY <1>1
<1>6. j * (1 - x) + k * s \in Int
    BY <1>1
<1>. QED BY <1>4, <1>5, <1>6

(* A multiple of n below n in size is 0.                                   *)
LEMMA SmallMultiple ==
    ASSUME NEW i \in Int, NEW n \in Nat \ {0}, i * n < n, -n < i * n
    PROVE  i = 0
<1>1. CASE i >= 1
    <2>1. i * n >= n BY <1>1
    <2>. QED BY <2>1
<1>2. CASE i <= -1
    <2>1. i * n <= -n BY <1>2
    <2>. QED BY <2>1
<1>. QED BY <1>1, <1>2

(* The two fields together determine the counter of the packet.            *)
THEOREM NonceInjective ==
    ASSUME NEW s \in Nat, NEW t \in Nat,
           NEW a \in 0..(M * T - 1), NEW b \in 0..(M * T - 1),
           SeqOf(s, a) = SeqOf(s, b), TsOf(t, a) = TsOf(t, b)
    PROVE  a = b
<1>. USE WidthAssumption
<1>1. T \in Nat \ {0}
    BY DEF T
<1>2. PICK k \in Int : b - a = k * M
    <2>1. (s + a) % M = (s + b) % M
        BY DEF SeqOf
    <2>2. a \in Int /\ b \in Int /\ s + a \in Int /\ s + b \in Int
        BY <1>1
    <2>3. PICK k \in Int : (s + b) - (s + a) = k * M
        BY <2>1, <2>2, SameRemainder
    <2>. QED BY <2>2, <2>3
<1>3. b \div M = a \div M + k
    <2>. DEFINE q == a \div M
                r == a % M
    <2>1. a \in Nat /\ b \in Nat
        BY <1>1
    <2>2. a = M * q + r
        <3>1. a \in Int /\ M \in Nat \ {0}
            BY <2>1
        <3>. QED BY <3>1, DivMod, Zenon
    <2>3. r \in 0..(M - 1) /\ q \in Int
        BY <2>1, DivMod
    <2>. HIDE DEF q, r
    <2>4. b = M * (q + k) + r
        BY <2>1, <2>2, <2>3, <1>2
    <2>5. b \div M = q + k
        BY <2>1, <2>3, <2>4, DivUnique
    <2>. QED BY <2>5 DEF q
<1>4. PICK j \in Int : (b - a) * Step + (b \div M - a \div M) = j * T
    <2>. DEFINE p == t + a * Step + a \div M
                q == t + b * Step + b \div M
    <2>1. p \in Int /\ q \in Int /\ a \in Int /\ b \in Int
        BY <1>1
    <2>2. p % T = q % T
        BY DEF TsOf
    <2>3. q - p = (b - a) * Step + (b \div M - a \div M)
        BY <2>1
    <2>4. a \div M \in Int /\ b \div M \in Int
        BY <2>1, DivMod
    <2>. HIDE DEF p, q
    <2>5. PICK j \in Int : q - p = j * T
        BY <2>1, <2>2, <1>1, SameRemainder
    <2>. QED BY <2>3, <2>5
<1>5. k * (Step * M + 1) = j * T
    <2>1. (b - a) * Step = k * (Step * M)
        BY <1>2
    <2>2. a \div M \in Int
        BY <1>1
    <2>. QED BY <2>1, <2>2, <1>3, <1>4
<1>6. PICK i \in Int : k = i * T
    BY <1>5, FactorInvertible
<1>7. -(M * T) < b - a /\ b - a < M * T /\ M * T \in Nat \ {0}
    BY <1>1
<1>8. b - a = i * (M * T)
    BY <1>2, <1>6, <1>1
<1>9. i = 0
    <2>. DEFINE n == M * T
    <2>1. n \in Nat \ {0} /\ i * n < n /\ -n < i * n
        BY <1>7, <1>8
    <2>. HIDE DEF n
    <2>. QED BY <2>1, SmallMultiple
<1>. QED BY <1>8, <1>9, <1>1

-------------------------------------------------------------------------------
(* The inductive invariant: what a goroutine holds is a counter of its own *)
(* below count, and every nonce used so far is that of another counter.    *)
SendTypeOK ==
    /\ initSeq \in 0..(M - 1) /\ initTs \in 0..(T - 1)
    /\ count \in 0..Limit
    /\ hand \in [Writer -> 0..(Limit - 1) \cup {Free}]
HandsApart ==
    \A w \in Writer : hand[w] # Free =>
        /\ hand[w] < count
        /\ \A v \in Writer \ {w} : hand[v] # hand[w]
UsedBefore ==
    \A n \in used : \E c \in 0..(count - 1) :
        n = Nonce(c) /\ \A w \in Writer : hand[w] # c
IInv == SendTypeOK /\ HandsApart /\ UsedBefore /\ ~reused

LEMMA InitIInv == Init => IInv
<1>. SUFFICES ASSUME Init PROVE IInv
    OBVIOUS
<1>1. SendTypeOK
    BY LimitAssumption DEF Init, SendTypeOK
<1>2. HandsApart /\ UsedBefore /\ ~reused
    BY DEF Init, HandsApart, UsedBefore
<1>. QED BY <1>1, <1>2 DEF IInv

(* Taking the counter under the mutex gives each goroutine its own.        *)
LEMMA TakeCountIInv ==
    ASSUME IInv, NEW w \in Writer, TakeCount(w)
    PROVE  IInv'
<1>. USE DEF IInv
<1>1. SendTypeOK'
    BY LimitAssumption DEF SendTypeOK, TakeCount
<1>2. HandsApart'
    BY DEF SendTypeOK, HandsApart, TakeCount, Free
<1>3. UsedBefore'
    <2>. SUFFICES ASSUME NEW n \in used
                  PROVE  \E c \in 0..(count' - 1) :
                            n = Nonce(c)' /\ \A v \in Writer : hand'[v] # c
        BY DEF UsedBefore, TakeCount
    <2>1. PICK c \in 0..(count - 1) : n = Nonce(c) /\ \A v \in Writer : hand[v] # c
        BY DEF UsedBefore
    <2>2. Nonce(c)' = Nonce(c)
        BY DEF TakeCount, Nonce, SeqOf, TsOf
    <2>3. c \in 0..(count' - 1) /\ \A v \in Writer : hand'[v] # c
        BY <2>1 DEF TakeCount, SendTypeOK
    <2>. QED BY <2>1, <2>2, <2>3
<1>. QED BY <1>1, <1>2, <1>3 DEF TakeCount

(* The nonce of the counter in hand differs from all those used, which     *)
(* belong to other counters.                                               *)
LEMMA SealIInv ==
    ASSUME IInv, NEW w \in Writer, Seal(w)
    PROVE  IInv'
<1>. USE DEF IInv
<1>. DEFINE h == hand[w]
<1>1. h \in 0..(count - 1) /\ h \in 0..(M * T - 1) /\ h # Free
    <2>1. h \in 0..(Limit - 1) /\ h < count /\ count \in Nat /\ h # Free
        BY DEF SendTypeOK, HandsApart, Seal
    <2>2. M * T \in Nat /\ Limit <= M * T /\ Limit \in Nat
        BY WidthAssumption, LimitAssumption DEF T
    <2>. HIDE DEF h
    <2>. QED BY <2>1, <2>2
<1>2. SendTypeOK'
    BY DEF SendTypeOK, Seal
<1>3. HandsApart'
    BY DEF SendTypeOK, HandsApart, Seal
<1>4. UsedBefore'
    <2>. SUFFICES ASSUME NEW n \in used'
                  PROVE  \E c \in 0..(count' - 1) :
                            n = Nonce(c)' /\ \A v \in Writer : hand'[v] # c
        BY DEF UsedBefore
    <2>1. \A c : Nonce(c)' = Nonce(c)
        BY DEF Seal, Nonce, SeqOf, TsOf
    <2>2. count' = count
        BY DEF Seal
    <2>3. CASE n \in used
        <3>1. PICK c \in 0..(count - 1) : n = Nonce(c) /\ \A v \in Writer : hand[v] # c
            BY <2>3 DEF UsedBefore
        <3>2. \A v \in Writer : hand'[v] # c
            BY <3>1 DEF Seal, SendTypeOK, Free
        <3>. QED BY <3>1, <3>2, <2>1, <2>2
    <2>4. CASE n = Nonce(h)
        <3>1. \A v \in Writer : hand'[v] # h
            BY <1>1 DEF Seal, SendTypeOK, HandsApart
        <3>. HIDE DEF h
        <3>. QED BY <3>1, <2>1, <2>2, <2>4, <1>1
    <2>. QED BY <2>3, <2>4 DEF Seal
<1>5. Nonce(h) \notin used
    <2>. SUFFICES ASSUME Nonce(h) \in used PROVE FALSE
        OBVIOUS
    <2>1. PICK c \in 0..(count - 1) : Nonce(h) = Nonce(c) /\ hand[w] # c
        BY DEF UsedBefore
    <2>2. c \in 0..(M * T - 1)
        <3>1. count \in Nat /\ count <= Limit /\ c \in 0..(count - 1)
            BY DEF SendTypeOK
        <3>2. M * T \in Nat /\ Limit <= M * T /\ Limit \in Nat
            BY WidthAssumption, LimitAssumption DEF T
        <3>. QED BY <3>1, <3>2
    <2>3. SeqOf(initSeq, h) = SeqOf(initSeq, c) /\ TsOf(initTs, h) = TsOf(initTs, c)
        BY <2>1 DEF Nonce
    <2>4. initSeq \in Nat /\ initTs \in Nat
        BY DEF SendTypeOK
    <2>5. h = c
        <3>. HIDE DEF h
        <3>. QED BY <2>2, <2>3, <2>4, <1>1, NonceInjective
    <2>. QED BY <2>1, <2>5
<1>6. ~reused'
    BY <1>5 DEF Seal
<1>. QED BY <1>2, <1>3, <1>4, <1>6

LEMMA NextIInv == IInv /\ [Next]_vars => IInv'
<1>. SUFFICES ASSUME IInv, [Next]_vars PROVE IInv'
    OBVIOUS
<1>1. CASE \E w \in Writer : TakeCount(w)
    BY <1>1, TakeCountIInv
<1>2. CASE \E w \in Writer : Seal(w)
    BY <1>2, SealIInv
<1>3. CASE UNCHANGED <<initSeq, initTs, sendVars>>
    BY <1>3 DEF IInv, SendTypeOK, HandsApart, UsedBefore, Nonce, SeqOf, TsOf, sendVars
<1>. QED BY <1>1, <1>2, <1>3 DEF Next, Receive, ReceiveForeign, vars

(* obfs.go:80: no nonce is used for a second packet, for fields of any     *)
(* width, any number of goroutines and any number of packets up to         *)
(* Limit, which is at most the product of the two ranges (2^48).           *)
THEOREM NonceFreshAlways == Spec => []NonceFresh
<1>1. IInv => NonceFresh
    BY DEF IInv, NonceFresh
<1>. QED BY InitIInv, NextIInv, <1>1, PTL DEF Spec

-------------------------------------------------------------------------------
(* What unwrap returns is a length or nothing.                             *)
LEMMA UnwrapType ==
    ASSUME NEW header \in {headerLegacy, headerFull}, NEW plain \in Plains,
           NEW pad \in {0, 1, PadMax}, NEW len \in Nat, NEW last \in Nat
    PROVE  Unwrap(Wire(header, plain, pad), len, last) \in Nat \cup {Dropped}
BY LengthAssumption DEF Unwrap, Wire, overhead, headerLegacy, headerFull, Dropped

LEMMA ReceiveType ==
    ASSUME NEW header \in {headerLegacy, headerFull}, NEW plain \in Plains,
           NEW pad \in {0, 1, PadMax}, Receive(header, plain, pad)
    PROVE  recv' \in [plain : Plains \cup {Dropped}, got : Nat \cup {Dropped}]
<1>. DEFINE p == Wire(header, plain, pad)
            len == IF WireLen(p) <= ReadBuf + slack THEN WireLen(p) ELSE ReadBuf + slack
<1>1. len \in Nat
    BY LengthAssumption DEF Wire, WireLen, slack, overhead, headerLegacy, headerFull
<1>2. PICK last \in {pad} \cup Byte : recv' = [plain |-> plain, got |-> Unwrap(p, len, last)]
    BY DEF Receive
<1>3. last \in Nat
    BY LengthAssumption DEF Byte
<1>. HIDE DEF len
<1>4. Unwrap(p, len, last) \in Nat \cup {Dropped}
    BY <1>1, <1>3, UnwrapType
<1>. QED BY <1>2, <1>4

(* Every variable keeps its type, and the fields of each header their      *)
(* widths, however long the connection lives.                              *)
THEOREM TypeCorrect == Spec => []TypeOK
<1>. USE WidthAssumption
<1>1. Init => TypeOK
    <2>1. None \in [plain : Plains \cup {Dropped}, got : Nat \cup {Dropped}]
        BY DEF None
    <2>2. 0 \in 0..Limit
        BY LimitAssumption
    <2>. QED BY <2>1, <2>2 DEF Init, TypeOK
<1>2. TypeOK /\ [Next]_vars => TypeOK'
    <2>. SUFFICES ASSUME TypeOK, [Next]_vars PROVE TypeOK'
        OBVIOUS
    <2>1. ASSUME NEW w \in Writer, TakeCount(w) PROVE TypeOK'
        BY <2>1, LimitAssumption DEF TypeOK, TakeCount
    <2>2. ASSUME NEW w \in Writer, Seal(w) PROVE TypeOK'
        <3>1. Nonce(hand[w]) \in (0..(M - 1)) \X (0..(T - 1))
            <4>. DEFINE c == hand[w]
            <4>1. c \in Nat /\ initSeq \in Nat /\ initTs \in Nat
                BY <2>2, LimitAssumption DEF TypeOK, Seal
            <4>. HIDE DEF c
            <4>2. T \in Nat \ {0} /\ c \div M \in Int /\ c * Step \in Int
                BY <4>1, DivMod DEF T
            <4>3. initTs + c * Step + c \div M \in Int /\ initSeq + c \in Int
                BY <4>1, <4>2
            <4>4. SeqOf(initSeq, c) \in 0..(M - 1) /\ TsOf(initTs, c) \in 0..(T - 1)
                BY <4>2, <4>3, DivMod DEF SeqOf, TsOf
            <4>. QED BY <4>4 DEF c, Nonce
        <3>2. used' \subseteq (0..(M - 1)) \X (0..(T - 1))
            BY <2>2, <3>1 DEF TypeOK, Seal
        <3>. QED BY <2>2, <3>2 DEF TypeOK, Seal
    <2>3. ASSUME NEW header \in {headerLegacy, headerFull}, NEW plain \in Plains,
                 NEW pad \in {0, 1, PadMax}, Receive(header, plain, pad)
          PROVE  TypeOK'
        <3>1. recv' \in [plain : Plains \cup {Dropped}, got : Nat \cup {Dropped}]
            BY <2>3, ReceiveType
        <3>. QED BY <2>3, <3>1 DEF TypeOK, Receive, sendVars
    <2>4. CASE ReceiveForeign
        BY <2>4 DEF TypeOK, ReceiveForeign, sendVars, None
    <2>5. CASE UNCHANGED vars
        BY <2>5 DEF TypeOK, vars, sendVars
    <2>. QED BY <2>1, <2>2, <2>3, <2>4, <2>5 DEF Next
<1>. QED BY <1>1, <1>2, PTL DEF Spec

-------------------------------------------------------------------------------
(* The last byte of a whole packet is its padding, so that the length of   *)
(* the ciphertext is found exactly.                                        *)
LEMMA UnwrapWhole ==
    ASSUME NEW header \in {headerLegacy, headerFull}, NEW plain \in Plains,
           NEW pad \in {0, 1, PadMax}, Fits(plain)
    PROVE  Unwrap(Wire(header, plain, pad), WireLen(Wire(header, plain, pad)), pad) = plain
BY LengthAssumption
   DEF Unwrap, Wire, WireLen, Fits, overhead, slack, headerLegacy, headerFull

LEMMA UnwrapOpens ==
    ASSUME NEW header \in {headerLegacy, headerFull}, NEW plain \in Plains,
           NEW pad \in {0, 1, PadMax}, NEW len \in Nat, NEW last \in Nat
    PROVE  Unwrap(Wire(header, plain, pad), len, last) \in {plain, Dropped}
BY LengthAssumption DEF Unwrap, Wire, overhead, headerLegacy, headerFull

LEMMA ReceiveExact ==
    ASSUME NEW header \in {headerLegacy, headerFull}, NEW plain \in Plains,
           NEW pad \in {0, 1, PadMax}, Receive(header, plain, pad)
    PROVE  UnwrapExact'
<1>. DEFINE p == Wire(header, plain, pad)
            whole == WireLen(p) <= ReadBuf + slack
            len == IF whole THEN WireLen(p) ELSE ReadBuf + slack
<1>1. len \in Nat
  BY LengthAssumption DEF Wire, WireLen, slack, overhead, headerLegacy, headerFull
<1>2. PICK last \in IF whole THEN {pad} ELSE Byte :
          recv' = [plain |-> plain, got |-> Unwrap(p, len, last)]
  BY DEF Receive
<1>3. last \in Nat
  BY <1>2, LengthAssumption DEF Byte
<1>4. recv'.plain = plain /\ recv'.got = Unwrap(p, len, last)
  BY <1>2
<1>5. recv'.got \in {plain, Dropped}
  <2>. HIDE DEF len
  <2>. QED BY <1>1, <1>3, <1>4, UnwrapOpens
<1>6. ASSUME Fits(plain) PROVE recv'.got = plain
  <2>1. whole
    BY <1>6, LengthAssumption
       DEF Fits, Wire, WireLen, slack, overhead, headerLegacy, headerFull
  <2>2. last = pad /\ len = WireLen(p)
    BY <1>2, <2>1
  <2>. HIDE DEF len
  <2>. QED BY <1>4, <1>6, <2>2, UnwrapWhole
<1>. QED BY <1>4, <1>5, <1>6 DEF UnwrapExact, Fits

(* obfsUnwrapPacket (obfs.go:202) returns the payload that was sealed, or  *)
(* nothing; and no payload that fits is lost, for any longest padding and  *)
(* any size of the buffers.                                                *)
THEOREM UnwrapCorrect == Spec => []UnwrapExact
<1>1. Init => UnwrapExact
  BY LengthAssumption DEF Init, UnwrapExact, None, Fits, Dropped
<1>2. UnwrapExact /\ [Next]_vars => UnwrapExact'
  <2>. SUFFICES ASSUME UnwrapExact, [Next]_vars PROVE UnwrapExact'
    OBVIOUS
  <2>1. CASE UNCHANGED recv
    BY <2>1 DEF UnwrapExact, Fits
  <2>2. CASE ReceiveForeign
    BY <2>2, LengthAssumption DEF ReceiveForeign, UnwrapExact, None, Fits, Dropped
  <2>. QED BY <2>1, <2>2, ReceiveExact DEF Next, TakeCount, Seal, vars
<1>. QED BY <1>1, <1>2, PTL DEF Spec
===============================================================================
