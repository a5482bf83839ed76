----------------------------- MODULE UplinkProofs -----------------------------
(***************************************************************************)
(* What TLAPS proves of Uplink, for any number of workers, any buffers,    *)
(* packet sizes, gaps and channel capacities.                              *)
(***************************************************************************)
EXTENDS Uplink, QueueLemmas, FiniteSetTheorems

-------------------------------------------------------------------------------
LEMMA ModFacts ==
    ASSUME NEW a \in Nat, NEW n \in Nat \ {0}
    PROVE  a % n \in 0..(n - 1) /\ (a < n => a % n = a)
OBVIOUS

LEMMA ModSmall ==
    ASSUME NEW a \in Nat, NEW n \in Nat \ {0}, a < n
    PROVE  ((a % n) + 0) % n = a
<1>1. a % n = a /\ a + 0 = a
  BY ModFacts
<1>. QED BY <1>1, Zenon

(* chunkSizeFor always lets at least one packet through.                   *)
LEMMA ChunkSizePositive ==
    ASSUME NEW n \in Nat
    PROVE  chunkSizeFor(n) \in Nat \ {0}
BY DEF chunkSizeFor

-------------------------------------------------------------------------------
(* The inductive invariant.  The index stays in bounds because Unregister  *)
(* reduces it, and the chunk's worker stays the current one because every  *)
(* step that moves the index or the list resets the count.                 *)
Placing == rpc \in {"prio", "dwell", "send"}

InHand ==
    /\ rpc \in {"lock", "prio", "dwell", "send"} => pkt \in Buffer
    /\ Placing => nw > 0 /\ scan < nw
    /\ \A s \in Worker : wpc[s] = "write" => wpkt[s] \in Buffer

Inv == TypeOK /\ InHand /\ RRIndexInBounds /\ ChunkAffinity

LEMMA IndexFacts ==
    ASSUME TypeOK, RRIndexInBounds, nw > 0
    PROVE  /\ nw \in Nat \ {0} /\ rrIndex \in Nat /\ rrIndex < nw
           /\ rrIndex % nw = rrIndex
           /\ (rrIndex + 1) % nw \in Nat /\ (rrIndex + 1) % nw < nw
<1>1. nw \in Nat \ {0} /\ rrIndex \in Nat /\ rrIndex < nw
  BY DEF TypeOK, RRIndexInBounds, nw
<1>. QED BY <1>1, ModFacts

LEMMA SlotFacts ==
    ASSUME TypeOK, RRIndexInBounds, nw > 0, NEW i \in Nat
    PROVE  /\ rrIndex % nw = rrIndex
           /\ ((rrIndex % nw) + i) % nw \in 0..(nw - 1)
           /\ (rrIndex + 1) % nw \in 0..(nw - 1)
           /\ Slot(i) \in Worker
           /\ Slot(0) = workers[rrIndex + 1]
<1>1. nw \in Nat \ {0} /\ rrIndex \in Nat /\ rrIndex < nw
  BY DEF TypeOK, RRIndexInBounds, nw
<1>2. rrIndex % nw = rrIndex
  BY <1>1, ModFacts
<1>3. ((rrIndex % nw) + i) % nw \in 0..(nw - 1)
  BY <1>1, <1>2, ModFacts
<1>4. (rrIndex + 1) % nw \in 0..(nw - 1)
  BY <1>1, ModFacts
<1>5. \A j \in 0..(nw - 1) : workers[j + 1] \in Worker
  BY DEF TypeOK, nw
<1>6. Slot(i) \in Worker
  BY <1>3, <1>5 DEF Slot
<1>7. ((rrIndex % nw) + 0) % nw = rrIndex
  BY <1>1, <1>2
<1>. QED
  BY <1>2, <1>3, <1>4, <1>6, <1>7 DEF Slot

-------------------------------------------------------------------------------
LEMMA InitInv == Init => Inv
<1>. SUFFICES ASSUME Init PROVE Inv
  OBVIOUS
<1>. USE DEF Init
<1>1. Len(workers) = 0 /\ workers \in Seq(Worker) /\ IsInjective(workers)
  BY DEF IsInjective
<1>2. sendCh \in [Worker -> Seq(Buffer)] /\ prioCh \in [Worker -> Seq(Buffer)]
  BY EmptySeq
<1>3. chunkAge \in Unset..maxDwellMS
  BY DEF Unset, maxDwellMS
<1>4. TypeOK
  BY <1>1, <1>2, <1>3 DEF TypeOK, ReadPcs, WriterPcs
<1>. QED
  BY <1>1, <1>4 DEF Inv, InHand, Placing, RRIndexInBounds, ChunkAffinity, nw

USE DEF readVars, dispVars, sessVars, histVars

(* The steps that leave the dispatcher's round-robin alone.                *)
LEMMA RestInv ==
    ASSUME Inv, UNCHANGED <<workers, rrIndex, rrCount, chunkSlot, chunkOf>>
    PROVE  RRIndexInBounds' /\ ChunkAffinity'
BY DEF Inv, RRIndexInBounds, ChunkAffinity, nw, Slot

LEMMA WriterInv ==
    ASSUME Inv, NEW s \in Worker, Writer(s)
    PROVE  Inv'
<1>. USE DEF Inv, TypeOK, InHand, Placing, nw
<1>1. CASE TakePrio(s)
  <2>1. Head(prioCh[s]) \in Buffer /\ Tail(prioCh[s]) \in Seq(Buffer)
    BY <1>1 DEF TakePrio
  <2>. QED BY <1>1, <2>1, RestInv DEF TakePrio, WriterPcs
<1>2. CASE NothingPrio(s)
  BY <1>2, RestInv DEF NothingPrio, WriterPcs
<1>3. CASE TakeData(s)
  <2>1. Head(sendCh[s]) \in Buffer /\ Tail(sendCh[s]) \in Seq(Buffer)
    BY <1>3 DEF TakeData, TakeDataReturning
  <2>. QED BY <1>3, <2>1, RestInv DEF TakeData, TakeDataReturning, WriterPcs, AtMost
<1>4. CASE SeesDone(s)
  BY <1>4, RestInv DEF SeesDone, WriterPcs
<1>5. CASE Written(s)
  BY <1>5, RestInv DEF Written, WriterPcs
<1>6. CASE DrainPrio(s)
  <2>1. CASE prioCh[s] # <<>>
    <3>1. Head(prioCh[s]) \in Buffer /\ Tail(prioCh[s]) \in Seq(Buffer)
      BY <2>1
    <3>. QED BY <1>6, <2>1, <3>1, RestInv DEF DrainPrio, WriterPcs
  <2>2. CASE prioCh[s] = <<>>
    BY <1>6, <2>2, RestInv DEF DrainPrio, WriterPcs
  <2>. QED BY <2>1, <2>2
<1>7. CASE DrainSend(s)
  <2>1. CASE sendCh[s] # <<>>
    <3>1. Head(sendCh[s]) \in Buffer /\ Tail(sendCh[s]) \in Seq(Buffer)
      BY <2>1
    <3>. QED BY <1>7, <2>1, <3>1, RestInv DEF DrainSend, WriterPcs
  <2>2. CASE sendCh[s] = <<>>
    BY <1>7, <2>2, RestInv DEF DrainSend, WriterPcs
  <2>. QED BY <2>1, <2>2
<1>. QED
  BY <1>1, <1>2, <1>3, <1>4, <1>5, <1>6, <1>7 DEF Writer

LEMMA ReadLoopInv ==
    ASSUME Inv, ReadLoop
    PROVE  Inv'
<1>. USE DEF Inv, TypeOK, InHand, Placing
<1>. USE SizeAssumption, BufferAssumption
<1>1. CASE WaitReady
  BY <1>1, RestInv DEF WaitReady, ReadPcs, nw
<1>2. CASE LoopTop
  BY <1>2, RestInv DEF LoopTop, ReadPcs, nw
<1>3. CASE Receive
  BY <1>3, RestInv DEF Receive, ReadPcs, nw
<1>4. CASE ReadFails
  BY <1>4, RestInv DEF ReadFails, ReadPcs, nw
<1>5. CASE NoWorkers
  BY <1>5, RestInv DEF NoWorkers, GiveUpPkt, ReadPcs, nw
<1>6. CASE Lock
  <2>. USE DEF Lock, ChunkKept
  <2>1. nw > 0 /\ nw' = nw /\ workers' = workers
    BY <1>6 DEF nw
  <2>2. PICK gap \in Gaps :
          IF seenPkt /\ gap > pauseMS
            THEN rrIndex' = (rrIndex + 1) % nw /\ rrCount' = 0 /\ chunkAge' = 0
            ELSE /\ chunkAge' = IF chunkAge = Unset THEN Unset
                                ELSE AtMost(maxDwellMS, chunkAge + gap)
                 /\ UNCHANGED <<rrIndex, rrCount>>
    BY <1>6
  <2>3. chunkAge' \in Unset..maxDwellMS
    <3>1. gap \in Nat /\ chunkAge \in -1..15
      BY DEF Unset, maxDwellMS
    <3>2. AtMost(15, chunkAge + gap) \in -1..15
      BY <3>1 DEF AtMost
    <3>. QED BY <2>2, <3>1, <3>2 DEF Unset, maxDwellMS
  <2>4. rrIndex' \in Nat /\ rrCount' \in Nat /\ RRIndexInBounds'
    <3>1. CASE seenPkt /\ gap > pauseMS
      BY <2>1, <2>2, <3>1, IndexFacts DEF RRIndexInBounds
    <3>2. CASE ~(seenPkt /\ gap > pauseMS)
      BY <2>1, <2>2, <3>2 DEF RRIndexInBounds
    <3>. QED BY <3>1, <3>2
  <2>5. TypeOK' /\ InHand'
    BY <1>6, <2>1, <2>3, <2>4 DEF ReadPcs
  <2>6. ChunkAffinity'
    <3>1. CASE rrCount' = 0
      BY <3>1 DEF ChunkAffinity
    <3>2. CASE rrCount' # 0
      <4>1. UNCHANGED <<workers, rrIndex, rrCount, chunkSlot, chunkOf>>
        BY <1>6, <2>1, <2>2, <3>2
      <4>. QED BY <4>1, RestInv
    <3>. QED BY <3>1, <3>2
  <2>. QED BY <2>4, <2>5, <2>6
<1>7. CASE OfferPrio
  <2>1. Slot(scan) \in Worker
    BY <1>7, SlotFacts DEF OfferPrio
  <2>2. RRIndexInBounds' /\ ChunkAffinity'
    BY <1>7, RestInv DEF OfferPrio
  <2>3. prioCh' \in [Worker -> Seq(Buffer)]
    BY <1>7, <2>1 DEF OfferPrio
  <2>4. TypeOK' /\ InHand'
    BY <1>7, <2>3 DEF OfferPrio, Placed, ReadPcs, nw
  <2>. QED BY <2>2, <2>4
<1>8. CASE PrioRefused
  <2>1. Slot(scan) \in Worker /\ nw > 0
    BY <1>8, SlotFacts DEF PrioRefused
  <2>2. nw' = nw /\ nw \in Nat
    BY <1>8 DEF PrioRefused, nw
  <2>. QED BY <1>8, <2>1, <2>2, RestInv DEF PrioRefused, ReadPcs
<1>9. CASE CheckDwell
  <2>. USE DEF CheckDwell, ChunkKept
  <2>1. nw > 0 /\ nw' = nw /\ workers' = workers
    BY <1>9 DEF nw
  <2>2. rrIndex' \in Nat /\ rrCount' \in Nat /\ RRIndexInBounds'
    <3>1. CASE chunkAge = maxDwellMS
      BY <1>9, <2>1, <3>1, IndexFacts DEF RRIndexInBounds
    <3>2. CASE chunkAge # maxDwellMS
      BY <1>9, <2>1, <3>2 DEF RRIndexInBounds
    <3>. QED BY <3>1, <3>2
  <2>3. TypeOK' /\ InHand'
    BY <1>9, <2>1, <2>2 DEF ReadPcs, Unset, maxDwellMS
  <2>4. ChunkAffinity'
    <3>1. CASE rrCount' = 0
      BY <3>1 DEF ChunkAffinity
    <3>2. CASE rrCount' # 0
      <4>1. UNCHANGED <<workers, rrIndex, rrCount, chunkSlot, chunkOf>>
        BY <1>9, <2>1, <3>2
      <4>. QED BY <4>1, RestInv
    <3>. QED BY <3>1, <3>2
  <2>. QED BY <2>2, <2>3, <2>4
<1>10. CASE SendRefused
  <2>1. Slot(scan) \in Worker /\ nw > 0
    BY <1>10, SlotFacts DEF SendRefused
  <2>2. nw' = nw /\ nw \in Nat
    BY <1>10 DEF SendRefused, nw
  <2>. QED BY <1>10, <2>1, <2>2, RestInv DEF SendRefused, ReadPcs
<1>11. CASE Drop
  <2>. USE DEF Drop, DropAfter, ChunkKept
  <2>1. nw > 0 /\ nw' = nw /\ workers' = workers /\ rrCount' = 0
    BY <1>11 DEF nw
  <2>2. rrIndex' \in Nat /\ RRIndexInBounds'
    BY <1>11, <2>1, IndexFacts DEF RRIndexInBounds
  <2>3. TypeOK' /\ InHand'
    BY <1>11, <2>1, <2>2 DEF ReadPcs, GiveUpPkt
  <2>. QED BY <2>1, <2>2, <2>3 DEF ChunkAffinity
<1>12. CASE OfferCurrent
  <2>. DEFINE c == chunkSizeFor(pktSize)
  <2>. USE DEF OfferCurrent, SendTo
  <2>1. nw > 0 /\ nw' = nw /\ workers' = workers /\ c \in Nat \ {0}
    BY <1>12, ChunkSizePositive DEF nw
  <2>2. Slot(0) \in Worker /\ Slot(0) = workers[rrIndex + 1] /\ rrIndex % nw = rrIndex
    BY <2>1, SlotFacts
  <2>3. CASE rrCount + 1 >= c
    <3>1. rrIndex' \in Nat /\ rrCount' = 0 /\ RRIndexInBounds'
      BY <1>12, <2>1, <2>2, <2>3, IndexFacts DEF RRIndexInBounds
    <3>2. chunkAge' = 0 /\ chunkSlot' = {} /\ chunkOf' = 0
      BY <1>12, <2>3, <3>1 DEF ChunkOn
    <3>3. chunkAge' \in Unset..maxDwellMS
      BY <3>2 DEF Unset, maxDwellMS
    <3>4. TypeOK' /\ InHand'
      <4>1. sendCh' \in [Worker -> Seq(Buffer)]
        BY <1>12, <2>2
      <4>. QED BY <1>12, <2>1, <3>1, <3>2, <3>3, <4>1 DEF ReadPcs, Placed
    <3>. QED BY <3>1, <3>4 DEF ChunkAffinity
  <2>4. CASE ~(rrCount + 1 >= c)
    <3>1. rrIndex' = rrIndex /\ rrCount' = rrCount + 1 /\ rrCount' # 0
      BY <1>12, <2>4
    <3>2. chunkSlot' = {Slot(0)} /\ chunkOf' = c
      BY <1>12, <3>1 DEF ChunkOn
    <3>3. TypeOK' /\ InHand'
      <4>1. chunkAge' = chunkAge /\ chunkOf' \in Nat /\ chunkSlot' \in SUBSET Worker
        BY <1>12, <2>1, <2>2, <2>4, <3>2
      <4>2. sendCh' \in [Worker -> Seq(Buffer)]
        BY <1>12, <2>2
      <4>. QED BY <1>12, <2>1, <3>1, <4>1, <4>2 DEF ReadPcs, Placed
    <3>4. Slot(0)' = Slot(0)
      BY <2>1, <3>1 DEF Slot
    <3>5. ChunkAffinity'
      BY <2>1, <3>1, <3>2, <3>4 DEF ChunkAffinity
    <3>6. RRIndexInBounds'
      BY <2>1, <3>1 DEF RRIndexInBounds
    <3>. QED BY <3>3, <3>5, <3>6
  <2>. QED BY <2>3, <2>4
<1>13. CASE OfferOther
  <2>. DEFINE c == chunkSizeFor(pktSize)
  <2>. USE DEF OfferOther, SendTo
  <2>1. /\ nw > 0 /\ nw' = nw /\ workers' = workers /\ c \in Nat \ {0}
        /\ rrCount' = 1
    BY <1>13, ChunkSizePositive DEF nw
  <2>2. Slot(scan) \in Worker /\ chunkSlot' = {Slot(scan)} /\ chunkOf' = c
    BY <1>13, <2>1, SlotFacts DEF ChunkOn
  <2>3. rrIndex' = ((rrIndex % nw) + scan) % nw /\ rrIndex' \in 0..(nw - 1) /\ nw \in Nat
    BY <1>13, <2>1, SlotFacts, IndexFacts
  <2>4. RRIndexInBounds'
    BY <2>1, <2>3 DEF RRIndexInBounds
  <2>5. TypeOK' /\ InHand'
    BY <1>13, <2>1, <2>2, <2>3 DEF ReadPcs, Placed, Unset, maxDwellMS
  <2>6. Slot(0)' = Slot(scan)
    <3>1. Slot(0)' = workers'[rrIndex' + 1]
      <4>1. TypeOK' /\ RRIndexInBounds' /\ nw' > 0
        BY <2>1, <2>4, <2>5
      <4>2. ((rrIndex' % nw) + 0) % nw = rrIndex'
        <5>1. rrIndex' \in Nat /\ rrIndex' < nw /\ nw \in Nat \ {0}
          BY <2>3
        <5>. QED BY <5>1, ModSmall
      <4>. QED BY <2>1, <4>2 DEF Slot
    <3>. QED BY <2>1, <2>3, <3>1 DEF Slot
  <2>7. ChunkAffinity'
    BY <2>1, <2>2, <2>6 DEF ChunkAffinity
  <2>. QED BY <2>4, <2>5, <2>7
<1>. QED
  BY <1>1, <1>2, <1>3, <1>4, <1>5, <1>6, <1>7, <1>8, <1>9, <1>10, <1>11, <1>12, <1>13
     DEF ReadLoop

LEMMA SessionInv ==
    ASSUME Inv, NEW s \in Worker, Session(s)
    PROVE  Inv'
<1>. USE DEF Inv, TypeOK, InHand, Placing
<1>1. CASE Register(s)
  <2>. USE DEF Register, Registered, MuFree
  <2>1. workers' \in Seq(Worker) /\ IsInjective(workers') /\ nw' = nw + 1 /\ nw \in Nat
    BY <1>1, AppendKeepsInjective DEF nw
  <2>2. \A i \in 1..nw : workers'[i] = workers[i]
    BY <1>1 DEF nw
  <2>3. RRIndexInBounds'
    BY <1>1, <2>1 DEF RRIndexInBounds
  <2>4. TypeOK' /\ InHand'
    BY <1>1, <2>1, <2>3 DEF WriterPcs, HelperNames
  <2>5. ChunkAffinity'
    <3>1. CASE rrCount = 0
      BY <1>1, <3>1 DEF ChunkAffinity
    <3>2. CASE rrCount # 0
      <4>1. nw > 0 /\ chunkSlot = {Slot(0)}
        BY <3>2 DEF ChunkAffinity
      <4>2. Slot(0) = workers[rrIndex + 1] /\ rrIndex \in Nat /\ rrIndex < nw
        <5>1. rrIndex \in Nat /\ rrIndex < nw
          BY <4>1, IndexFacts
        <5>2. Slot(0) = workers[rrIndex + 1]
          BY <4>1, SlotFacts
        <5>. QED BY <5>1, <5>2
      <4>3. ((rrIndex % nw') + 0) % nw' = rrIndex
        <5>1. nw' \in Nat \ {0} /\ rrIndex < nw'
          BY <2>1, <4>2
        <5>. QED BY <5>1, <4>2, ModSmall
      <4>4. Slot(0)' = workers'[rrIndex + 1]
        BY <1>1, <4>3 DEF Slot
      <4>5. workers'[rrIndex + 1] = workers[rrIndex + 1] /\ nw' > 0
        BY <2>1, <2>2, <4>2
      <4>. QED BY <1>1, <4>1, <4>2, <4>4, <4>5 DEF ChunkAffinity
    <3>. QED BY <3>1, <3>2
  <2>. QED BY <2>3, <2>4, <2>5
<1>2. CASE Unregister(s)
  <2>1. PICK i \in 1..nw : workers' = RemoveAt(workers, i)
    BY <1>2 DEF nw, Unregister, LeaveSlot
  <2>2. /\ workers' \in Seq(Worker) /\ IsInjective(workers') /\ nw' = nw - 1
        /\ nw \in Nat /\ nw > 0
    <3>1. workers \in Seq(Worker) /\ IsInjective(workers) /\ i \in 1..Len(workers)
      BY <2>1 DEF nw
    <3>2. /\ RemoveAt(workers, i) \in Seq(Worker)
          /\ Len(RemoveAt(workers, i)) = Len(workers) - 1
      BY <3>1, RemoveAtFacts
    <3>3. IsInjective(RemoveAt(workers, i))
      BY <3>1, RemoveAtKeepsInjective
    <3>4. Len(workers') = Len(workers) - 1
      BY <2>1, <3>2, Zenon
    <3>5. Len(workers) \in Nat /\ Len(workers) > 0
      BY <3>1
    <3>. QED BY <2>1, <3>2, <3>3, <3>4, <3>5 DEF nw
  <2>. USE DEF Unregister, LeaveSlot, MuFree, ChunkKept
  <2>3. rrCount' = 0 /\ rrIndex' = IndexWithout
    BY <1>2
  <2>4. rrIndex' \in Nat /\ RRIndexInBounds'
    <3>1. rrIndex \in Nat /\ rrIndex < nw
      BY <2>2 DEF RRIndexInBounds
    <3>2. CASE rrIndex >= nw - 1 /\ nw - 1 > 0
      <4>1. rrIndex % (nw - 1) \in 0..(nw - 2)
        BY <3>1, <3>2, <2>2, ModFacts
      <4>. QED BY <2>2, <2>3, <3>2, <4>1 DEF RRIndexInBounds, IndexWithout
    <3>3. CASE ~(rrIndex >= nw - 1 /\ nw - 1 > 0)
      BY <2>2, <2>3, <3>1, <3>3 DEF RRIndexInBounds, IndexWithout
    <3>. QED BY <3>2, <3>3
  <2>5. Queued(s) \subseteq Buffer
    BY DEF Queued, ToSet
  <2>6. sendCh' \in [Worker -> Seq(Buffer)] /\ prioCh' \in [Worker -> Seq(Buffer)]
    BY <1>2, EmptySeq
  <2>7. TypeOK' /\ InHand'
    <3>1. TypeOK'
      <4>1. sessDone' \in [Worker -> BOOLEAN] /\ overtaken' \in [Worker -> Nat]
        BY <1>2
      <4>2. pool' \in SUBSET Buffer /\ chunkSlot' \in SUBSET Worker /\ chunkOf' \in Nat
        BY <1>2, <2>5
      <4>3. UNCHANGED <<ready, stopped, seenPkt, chunkAge, readVars, helpers, wpc, wpkt, refused>>
        BY <1>2
      <4>. QED BY <2>2, <2>3, <2>4, <2>6, <4>1, <4>2, <4>3
    <3>2. InHand'
      BY <1>2, <2>2, <2>3
    <3>. QED BY <3>1, <3>2
  <2>8. ChunkAffinity'
    BY <2>3 DEF ChunkAffinity
  <2>. QED BY <2>4, <2>7, <2>8
<1>3. CASE Writer(s)
  BY <1>3, WriterInv
<1>4. CASE Keepalive(s)
  BY <1>4, RestInv DEF Keepalive, nw
<1>5. CASE KeepaliveExits(s)
  BY <1>5, RestInv DEF KeepaliveExits, KeepaliveExitsWhen, nw, HelperNames
<1>6. CASE ReaderExits(s)
  BY <1>6, RestInv DEF ReaderExits, nw, HelperNames
<1>7. CASE RelayFails(s)
  BY <1>7, RestInv DEF RelayFails, nw
<1>. QED
  BY <1>1, <1>2, <1>3, <1>4, <1>5, <1>6, <1>7 DEF Session

LEMMA StepInv == Inv /\ [Next]_vars => Inv'
<1>. SUFFICES ASSUME Inv, [Next]_vars PROVE Inv'
  OBVIOUS
<1>1. CASE AttachTUN
  BY <1>1, RestInv DEF AttachTUN, Inv, TypeOK, InHand, Placing, nw
<1>2. CASE Stop
  BY <1>2, RestInv DEF Stop, Inv, TypeOK, InHand, Placing, nw
<1>3. CASE ReadLoop
  BY <1>3, ReadLoopInv
<1>4. ASSUME NEW s \in Worker, Session(s) PROVE Inv'
  BY <1>4, SessionInv
<1>5. CASE UNCHANGED vars
  BY <1>5, RestInv DEF vars, Inv, TypeOK, InHand, Placing, nw
<1>. QED
  BY <1>1, <1>2, <1>3, <1>4, <1>5 DEF Next

-------------------------------------------------------------------------------
(* The variables keep their types, and no slot is ever registered twice.   *)
THEOREM TypeCorrect == Spec => []TypeOK
<1>1. Inv => TypeOK
  BY DEF Inv
<1>. QED
  BY <1>1, InitInv, StepInv, PTL DEF Spec

(* Unregister and the round-robin keep d.rrIndex on a registered worker.   *)
THEOREM IndexCorrect == Spec => []RRIndexInBounds
<1>1. Inv => RRIndexInBounds
  BY DEF Inv
<1>. QED
  BY <1>1, InitInv, StepInv, PTL DEF Spec

(* The packets of a chunk go to one worker, whatever sessions come and go. *)
THEOREM AffinityCorrect == Spec => []ChunkAffinity
<1>1. Inv => ChunkAffinity
  BY DEF Inv
<1>. QED
  BY <1>1, InitInv, StepInv, PTL DEF Spec

-------------------------------------------------------------------------------
(* What happens in a slot: nothing before it is registered or after its    *)
(* goroutines have ended, and at most one data packet between the arrival  *)
(* of a priority packet and its turn, because the Writer that has passed   *)
(* it comes back by way of the check.                                      *)
Quiet ==
    /\ UnregisteredIsQuiet
    /\ \A s \in Worker : wpc[s] # "write" => wpkt[s] = NoBuf

Passed ==
    /\ \A s \in Worker \ Registered : overtaken[s] = 0
    /\ \A s \in Worker :
          /\ overtaken[s] <= 1
          /\ wpc[s] = "select" => overtaken[s] = 0
          /\ wpc[s] \in {"check", "write"} /\ overtaken[s] > 0 => prioCh[s] # <<>>

slotVars == <<workers, helpers, wpc, wpkt, sendCh, prioCh, overtaken>>

LEMMA SlotRegistered ==
    ASSUME TypeOK, RRIndexInBounds, nw > 0, NEW i \in Nat
    PROVE  Slot(i) \in Registered
<1>1. ((rrIndex % nw) + i) % nw \in 0..(nw - 1) /\ nw \in Nat
  BY SlotFacts, IndexFacts
<1>2. \A j \in 0..(nw - 1) : workers[j + 1] \in Registered
  BY DEF TypeOK, nw, Registered, ToSet
<1>. QED BY <1>1, <1>2 DEF Slot

LEMMA SlotInit == Init => Quiet /\ Passed
BY DEF Init, Quiet, Passed, UnregisteredIsQuiet

(* readLoop reaches registered slots only.                                 *)
LEMMA SlotReadLoop ==
    ASSUME Inv, Quiet, Passed, ReadLoop
    PROVE  Quiet' /\ Passed'
<1>. USE DEF Quiet, Passed, UnregisteredIsQuiet, Registered
<1>0. ASSUME UNCHANGED slotVars PROVE Quiet' /\ Passed'
  BY <1>0 DEF slotVars
<1>1. CASE WaitReady \/ LoopTop \/ Receive \/ ReadFails \/ NoWorkers \/ Lock
           \/ PrioRefused \/ CheckDwell \/ SendRefused \/ Drop
  <2>1. UNCHANGED slotVars
    BY <1>1 DEF slotVars, WaitReady, LoopTop, Receive, ReadFails, NoWorkers, Lock,
                PrioRefused, CheckDwell, SendRefused, Drop, DropAfter
  <2>. QED BY <1>0, <2>1
<1>2. CASE OfferPrio
  <2>1. Slot(scan) \in ToSet(workers) /\ Slot(scan) \in Worker
    BY <1>2, SlotRegistered, SlotFacts DEF OfferPrio, Inv, InHand, Placing, TypeOK
  <2>2. prioCh'[Slot(scan)] # <<>> /\ \A t \in Worker \ {Slot(scan)} : prioCh'[t] = prioCh[t]
    <3>1. prioCh[Slot(scan)] \in Seq(Buffer) /\ pkt \in Buffer
      BY <1>2, <2>1 DEF OfferPrio, Inv, TypeOK, InHand
    <3>2. Append(prioCh[Slot(scan)], pkt) # <<>>
      BY <3>1
    <3>. QED BY <1>2, <2>1, <3>2 DEF OfferPrio, Inv, TypeOK
  <2>. QED BY <1>2, <2>1, <2>2 DEF OfferPrio
<1>3. ASSUME NEW s \in Registered, SendTo(s) PROVE Quiet' /\ Passed'
  <2>1. \A t \in Worker \ {s} : sendCh'[t] = sendCh[t]
    BY <1>3 DEF SendTo, Inv, TypeOK
  <2>. QED BY <1>3, <2>1 DEF SendTo
<1>4. CASE OfferCurrent \/ OfferOther
  <2>1. \E i \in Nat : SendTo(Slot(i)) /\ nw > 0
    BY <1>4 DEF OfferCurrent, OfferOther, SendTo, Inv, InHand, Placing,
                TypeOK
  <2>. QED BY <1>3, <2>1, SlotRegistered DEF Inv
<1>. QED BY <1>1, <1>2, <1>4 DEF ReadLoop

LEMMA SlotWriter ==
    ASSUME Inv, Quiet, Passed, NEW s \in Worker, Writer(s)
    PROVE  Quiet' /\ Passed'
<1>. USE DEF Quiet, Passed, UnregisteredIsQuiet, Registered, Inv, TypeOK
<1>0. s \in Registered
  BY DEF Writer, TakePrio, NothingPrio, TakeData, TakeDataReturning, SeesDone, Written,
         DrainPrio, DrainSend
<1>1. CASE TakePrio(s)
  BY <1>0, <1>1 DEF TakePrio
<1>2. CASE NothingPrio(s)
  BY <1>0, <1>2 DEF NothingPrio
<1>3. CASE TakeData(s)
  BY <1>0, <1>3 DEF TakeData, TakeDataReturning, AtMost
<1>4. CASE SeesDone(s)
  BY <1>0, <1>4 DEF SeesDone
<1>5. CASE Written(s)
  BY <1>0, <1>5 DEF Written
<1>6. CASE DrainPrio(s)
  BY <1>0, <1>6 DEF DrainPrio
<1>7. CASE DrainSend(s)
  BY <1>0, <1>7 DEF DrainSend
<1>. QED
  BY <1>1, <1>2, <1>3, <1>4, <1>5, <1>6, <1>7 DEF Writer

LEMMA SlotSession ==
    ASSUME Inv, Quiet, Passed, NEW s \in Worker, Session(s)
    PROVE  Quiet' /\ Passed'
<1>. USE DEF Quiet, Passed, UnregisteredIsQuiet
<1>1. CASE Register(s)
  <2>1. Registered' = Registered \cup {s} /\ s \notin Registered
    BY <1>1, ToSetAppend DEF Register, Registered, Inv, TypeOK
  <2>2. /\ \A t \in Worker \ {s} : helpers'[t] = helpers[t] /\ wpc'[t] = wpc[t]
        /\ wpc'[s] = "check"
        /\ UNCHANGED <<wpkt, sendCh, prioCh, overtaken>>
    BY <1>1 DEF Register, Inv, TypeOK
  <2>3. /\ wpkt[s] = NoBuf /\ prioCh[s] = <<>> /\ overtaken[s] = 0
    BY <2>1
  <2>4. Quiet'
    BY <2>1, <2>2, <2>3
  <2>5. Passed'
    BY <2>1, <2>2, <2>3
  <2>. QED BY <2>4, <2>5
<1>2. CASE Unregister(s)
  <2>1. PICK i \in 1..Len(workers) : workers[i] = s /\ workers' = RemoveAt(workers, i)
    BY <1>2 DEF Unregister, LeaveSlot, Inv, TypeOK
  <2>2. Registered' = Registered \ {s}
    BY <2>1, ToSetRemoveAt DEF Registered, Inv, TypeOK
  <2>3. /\ helpers'[s] = {} /\ wpc'[s] = "exit" /\ wpkt'[s] = NoBuf
        /\ sendCh'[s] = <<>> /\ prioCh'[s] = <<>> /\ overtaken'[s] = 0
        /\ UNCHANGED <<helpers, wpc, wpkt>>
    BY <1>2 DEF Unregister, LeaveSlot, GoroutinesOver, Inv, TypeOK
  <2>4. \A t \in Worker \ {s} : /\ sendCh'[t] = sendCh[t] /\ prioCh'[t] = prioCh[t]
                                /\ overtaken'[t] = overtaken[t]
    BY <1>2 DEF Unregister, LeaveSlot, Inv, TypeOK
  <2>5. Quiet'
    BY <2>2, <2>3, <2>4
  <2>6. Passed'
    BY <2>2, <2>3, <2>4
  <2>. QED BY <2>5, <2>6
<1>3. CASE Writer(s)
  BY <1>3, SlotWriter
<1>4. CASE Keepalive(s)
  <2>1. s \in Registered /\ prioCh'[s] # <<>>
        /\ \A t \in Worker \ {s} : prioCh'[t] = prioCh[t]
    BY <1>4 DEF Keepalive, Inv, TypeOK
  <2>. QED BY <1>4, <2>1 DEF Keepalive, Registered
<1>5. CASE KeepaliveExits(s)
  BY <1>5 DEF KeepaliveExits, KeepaliveExitsWhen, Registered, Inv, TypeOK
<1>6. CASE ReaderExits(s)
  BY <1>6 DEF ReaderExits, Registered, Inv, TypeOK
<1>7. CASE RelayFails(s)
  BY <1>7 DEF RelayFails, Registered
<1>. QED
  BY <1>1, <1>2, <1>3, <1>4, <1>5, <1>6, <1>7 DEF Session

LEMMA SlotStep == Inv /\ Quiet /\ Passed /\ [Next]_vars => Quiet' /\ Passed'
<1>. SUFFICES ASSUME Inv, Quiet, Passed, [Next]_vars PROVE Quiet' /\ Passed'
  OBVIOUS
<1>1. CASE AttachTUN \/ Stop \/ UNCHANGED vars
  BY <1>1 DEF AttachTUN, Stop, vars, Quiet, Passed, UnregisteredIsQuiet, Registered
<1>2. CASE ReadLoop
  BY <1>2, SlotReadLoop
<1>3. ASSUME NEW s \in Worker, Session(s) PROVE Quiet' /\ Passed'
  BY <1>3, SlotSession
<1>. QED
  BY <1>1, <1>2, <1>3 DEF Next

(* A slot that is not registered has no goroutine, and nothing waits in it.*)
THEOREM SlotsCorrect == Spec => []UnregisteredIsQuiet
<1>1. Quiet => UnregisteredIsQuiet
  BY DEF Quiet
<1>. QED
  BY <1>1, InitInv, StepInv, SlotInit, SlotStep, PTL DEF Spec

(* A priority packet is passed by at most one data packet, however the     *)
(* Writer, readLoop and the keepalives interleave.                         *)
THEOREM PriorityCorrect == Spec => []AckOvertakenOnce
<1>1. Passed => AckOvertakenOnce
  BY DEF Passed, AckOvertakenOnce
<1>. QED
  BY <1>1, InitInv, StepInv, SlotInit, SlotStep, PTL DEF Spec

-------------------------------------------------------------------------------
(* The buffers.  Every step of Uplink hands on at most one buffer, from    *)
(* one party to the next, or returns a slot's channels to the pool; that   *)
(* is HandedOn.  It keeps the buffers owned once because a party's hand is *)
(* empty when it takes one, and because what enters a channel was nowhere  *)
(* in it.                                                                  *)
SlotOnce ==
    \A s \in Worker :
        /\ IsInjective(sendCh[s]) /\ IsInjective(prioCh[s])
        /\ ToSet(sendCh[s]) \cap ToSet(prioCh[s]) = {}

HeldOnce ==
    /\ pkt \notin pool
    /\ \A s \in Worker : wpkt[s] # NoBuf =>
          /\ wpkt[s] \notin pool /\ wpkt[s] # pkt
          /\ \A t \in Worker : wpkt[t] = wpkt[s] => t = s
    /\ \A s \in Worker :
          /\ Queued(s) \cap pool = {} /\ pkt \notin Queued(s)
          /\ \A t \in Worker : wpkt[t] \notin Queued(s)
          /\ \A t \in Worker \ {s} : Queued(s) \cap Queued(t) = {}

NoneLost ==
    \A b \in Buffer : \/ b \in pool \/ b = pkt
                     \/ \E s \in Worker : wpkt[s] = b \/ b \in Queued(s)

EmptyHand == pkt # NoBuf => rpc = "lock" \/ Placing

Owned == EmptyHand /\ SlotOnce /\ HeldOnce /\ NoneLost

QueuesKept == \A s \in Worker : Queued(s)' = Queued(s)
Enqueued(s, b) ==
    /\ Queued(s)' = Queued(s) \cup {b}
    /\ \A t \in Worker \ {s} : Queued(t)' = Queued(t)
Dequeued(s, b) ==
    /\ b \in Queued(s)
    /\ Queued(s)' = Queued(s) \ {b}
    /\ \A t \in Worker \ {s} : Queued(t)' = Queued(t)

Kept == QueuesKept /\ UNCHANGED <<pool, pkt, wpkt>>
Filled(b) ==
    /\ b \in pool /\ pool' = pool \ {b}
    /\ pkt = NoBuf /\ pkt' = b
    /\ QueuesKept /\ UNCHANGED wpkt
GivenUp(b) ==
    /\ pool' = pool \cup {b}
    /\ pkt = b /\ pkt' = NoBuf
    /\ QueuesKept /\ UNCHANGED wpkt
Published(s, b) ==
    /\ pkt = b /\ pkt' = NoBuf
    /\ Enqueued(s, b) /\ UNCHANGED <<pool, wpkt>>
Emitted(s, b) ==
    /\ b \in pool /\ pool' = pool \ {b}
    /\ Enqueued(s, b) /\ UNCHANGED <<pkt, wpkt>>
Consumed(s, b) ==
    /\ wpkt[s] = NoBuf /\ wpkt' = [wpkt EXCEPT ![s] = b]
    /\ Dequeued(s, b) /\ UNCHANGED <<pool, pkt>>
PutBack(s, b) ==
    /\ wpkt[s] = b /\ wpkt' = [wpkt EXCEPT ![s] = NoBuf]
    /\ pool' = pool \cup {b}
    /\ QueuesKept /\ UNCHANGED pkt
Drained(s, b) ==
    /\ pool' = pool \cup {b}
    /\ Dequeued(s, b) /\ UNCHANGED <<pkt, wpkt>>
Reclaimed(s) ==
    /\ pool' = pool \cup Queued(s)
    /\ Queued(s)' = {}
    /\ \A t \in Worker \ {s} : Queued(t)' = Queued(t)
    /\ UNCHANGED <<pkt, wpkt>>

HandedOn ==
    \/ Kept
    \/ \E b \in Buffer : Filled(b) \/ GivenUp(b)
    \/ \E s \in Worker : Reclaimed(s)
    \/ \E s \in Worker, b \in Buffer :
          Published(s, b) \/ Emitted(s, b) \/ Consumed(s, b) \/ PutBack(s, b) \/ Drained(s, b)

(* The two channels of a slot under a send and a receive.                  *)
LEMMA SendAppended ==
    ASSUME TypeOK, SlotOnce, NEW s \in Worker, NEW b \in Buffer \ Queued(s),
           sendCh' = [sendCh EXCEPT ![s] = Append(@, b)], UNCHANGED prioCh
    PROVE  SlotOnce' /\ Enqueued(s, b)
<1>1. sendCh[s] \in Seq(Buffer) /\ IsInjective(sendCh[s]) /\ b \notin ToSet(sendCh[s])
  BY DEF TypeOK, SlotOnce, Queued
<1>2. ToSet(Append(sendCh[s], b)) = ToSet(sendCh[s]) \cup {b} /\ IsInjective(Append(sendCh[s], b))
  BY <1>1, ToSetAppend, AppendKeepsInjective
<1>3. sendCh'[s] = Append(sendCh[s], b) /\ \A t \in Worker \ {s} : sendCh'[t] = sendCh[t]
  BY DEF TypeOK
<1>4. SlotOnce'
  BY <1>2, <1>3 DEF SlotOnce, Queued
<1>. QED BY <1>2, <1>3, <1>4 DEF Enqueued, Queued

LEMMA PrioAppended ==
    ASSUME TypeOK, SlotOnce, NEW s \in Worker, NEW b \in Buffer \ Queued(s),
           prioCh' = [prioCh EXCEPT ![s] = Append(@, b)], UNCHANGED sendCh
    PROVE  SlotOnce' /\ Enqueued(s, b)
<1>1. prioCh[s] \in Seq(Buffer) /\ IsInjective(prioCh[s]) /\ b \notin ToSet(prioCh[s])
  BY DEF TypeOK, SlotOnce, Queued
<1>2. ToSet(Append(prioCh[s], b)) = ToSet(prioCh[s]) \cup {b} /\ IsInjective(Append(prioCh[s], b))
  BY <1>1, ToSetAppend, AppendKeepsInjective
<1>3. prioCh'[s] = Append(prioCh[s], b) /\ \A t \in Worker \ {s} : prioCh'[t] = prioCh[t]
  BY DEF TypeOK
<1>4. SlotOnce'
  BY <1>2, <1>3 DEF SlotOnce, Queued
<1>. QED BY <1>2, <1>3, <1>4 DEF Enqueued, Queued

LEMMA SendTaken ==
    ASSUME TypeOK, SlotOnce, NEW s \in Worker, sendCh[s] # <<>>,
           sendCh' = [sendCh EXCEPT ![s] = Tail(@)], UNCHANGED prioCh
    PROVE  SlotOnce' /\ Dequeued(s, Head(sendCh[s])) /\ Head(sendCh[s]) \in Buffer
<1>. DEFINE b == Head(sendCh[s])
<1>1. sendCh[s] \in Seq(Buffer) /\ IsInjective(sendCh[s])
  BY DEF TypeOK, SlotOnce
<1>2. /\ b \in Buffer /\ b \in ToSet(sendCh[s])
      /\ ToSet(Tail(sendCh[s])) = ToSet(sendCh[s]) \ {b} /\ IsInjective(Tail(sendCh[s]))
  BY <1>1, TakeHead, TakeHeadInjective
<1>3. sendCh'[s] = Tail(sendCh[s]) /\ \A t \in Worker \ {s} : sendCh'[t] = sendCh[t]
  BY DEF TypeOK
<1>. HIDE DEF b
<1>4. SlotOnce'
  BY <1>2, <1>3 DEF SlotOnce
<1>5. Dequeued(s, b)
  BY <1>2, <1>3 DEF Dequeued, Queued, SlotOnce
<1>. QED BY <1>2, <1>4, <1>5 DEF b

LEMMA PrioTaken ==
    ASSUME TypeOK, SlotOnce, NEW s \in Worker, prioCh[s] # <<>>,
           prioCh' = [prioCh EXCEPT ![s] = Tail(@)], UNCHANGED sendCh
    PROVE  SlotOnce' /\ Dequeued(s, Head(prioCh[s])) /\ Head(prioCh[s]) \in Buffer
<1>. DEFINE b == Head(prioCh[s])
<1>1. prioCh[s] \in Seq(Buffer) /\ IsInjective(prioCh[s])
  BY DEF TypeOK, SlotOnce
<1>2. /\ b \in Buffer /\ b \in ToSet(prioCh[s])
      /\ ToSet(Tail(prioCh[s])) = ToSet(prioCh[s]) \ {b} /\ IsInjective(Tail(prioCh[s]))
  BY <1>1, TakeHead, TakeHeadInjective
<1>3. prioCh'[s] = Tail(prioCh[s]) /\ \A t \in Worker \ {s} : prioCh'[t] = prioCh[t]
  BY DEF TypeOK
<1>. HIDE DEF b
<1>4. SlotOnce'
  BY <1>2, <1>3 DEF SlotOnce
<1>5. Dequeued(s, b)
  BY <1>2, <1>3 DEF Dequeued, Queued, SlotOnce
<1>. QED BY <1>2, <1>4, <1>5 DEF b

LEMMA OwnedInit == Init => Owned
<1>. SUFFICES ASSUME Init PROVE Owned
  OBVIOUS
<1>1. \A s \in Worker : sendCh[s] = <<>> /\ prioCh[s] = <<>> /\ Queued(s) = {}
  BY DEF Init, Queued, ToSet
<1>2. SlotOnce
  BY <1>1 DEF SlotOnce, IsInjective, ToSet
<1>. QED
  BY <1>1, <1>2, BufferAssumption DEF Init, Owned, EmptyHand, HeldOnce, NoneLost

(* Every step hands on, and keeps the channels free of duplicates.         *)
LEMMA ReadLoopHands ==
    ASSUME Inv, Owned, ReadLoop
    PROVE  EmptyHand' /\ SlotOnce' /\ HandedOn
<1>. USE DEF Owned, Inv
<1>1. CASE WaitReady \/ LoopTop \/ ReadFails \/ Lock \/ PrioRefused \/ CheckDwell \/ SendRefused
  BY <1>1 DEF WaitReady, LoopTop, ReadFails, Lock, PrioRefused, CheckDwell, SendRefused,
              EmptyHand, Placing, SlotOnce, HandedOn, Kept, QueuesKept, Queued
<1>2. CASE Receive
  <2>1. PICK b \in pool : pkt' = b /\ pool' = pool \ {b}
    BY <1>2 DEF Receive
  <2>2. pkt = NoBuf /\ b \in Buffer /\ rpc' = "lock" /\ UNCHANGED <<sendCh, prioCh, wpkt>>
    BY <1>2 DEF Receive, EmptyHand, Placing, TypeOK
  <2>3. Filled(b)
    BY <2>1, <2>2 DEF Filled, QueuesKept, Queued
  <2>. QED BY <2>2, <2>3 DEF EmptyHand, Placing, SlotOnce, HandedOn
<1>3. CASE NoWorkers \/ Drop
  <2>1. GiveUpPkt /\ pkt \in Buffer /\ UNCHANGED <<sendCh, prioCh, wpkt>>
    BY <1>3 DEF NoWorkers, Drop, DropAfter, InHand, Placing
  <2>2. GivenUp(pkt)
    BY <2>1 DEF GivenUp, GiveUpPkt, QueuesKept, Queued
  <2>. QED BY <2>1, <2>2 DEF GiveUpPkt, EmptyHand, SlotOnce, HandedOn
<1>4. CASE OfferPrio
  <2>1. Slot(scan) \in Worker /\ pkt \in Buffer \ Queued(Slot(scan))
    BY <1>4, SlotFacts DEF OfferPrio, InHand, Placing, TypeOK, HeldOnce
  <2>2. SlotOnce' /\ Enqueued(Slot(scan), pkt)
    BY <1>4, <2>1, PrioAppended DEF OfferPrio
  <2>3. Published(Slot(scan), pkt) /\ pkt' = NoBuf
    BY <1>4, <2>2 DEF OfferPrio, Placed, Published
  <2>. QED BY <2>1, <2>2, <2>3 DEF EmptyHand, HandedOn
<1>5. ASSUME NEW s \in Worker, SendTo(s) PROVE EmptyHand' /\ SlotOnce' /\ HandedOn
  <2>1. pkt \in Buffer \ Queued(s)
    BY <1>5 DEF SendTo, InHand, Placing, HeldOnce
  <2>2. SlotOnce' /\ Enqueued(s, pkt)
    BY <1>5, <2>1, SendAppended DEF SendTo
  <2>3. Published(s, pkt) /\ pkt' = NoBuf
    BY <1>5, <2>2 DEF SendTo, Placed, Published
  <2>. QED BY <2>1, <2>2, <2>3 DEF EmptyHand, HandedOn
<1>6. CASE OfferCurrent \/ OfferOther
  <2>1. \E i \in Nat : SendTo(Slot(i)) /\ nw > 0
    BY <1>6 DEF OfferCurrent, OfferOther, SendTo, InHand, Placing, TypeOK
  <2>. QED BY <1>5, <2>1, SlotFacts
<1>. QED BY <1>1, <1>2, <1>3, <1>4, <1>6 DEF ReadLoop

LEMMA SessionHands ==
    ASSUME Inv, Quiet, Owned, NEW s \in Worker, Session(s)
    PROVE  EmptyHand' /\ SlotOnce' /\ HandedOn
<1>. USE DEF Owned, Inv
<1>0. EmptyHand'
  BY DEF Session, Register, Unregister, LeaveSlot, Writer, TakePrio, NothingPrio, TakeData,
         TakeDataReturning, SeesDone, Written, DrainPrio, DrainSend, Keepalive,
         KeepaliveExits, KeepaliveExitsWhen, ReaderExits, RelayFails, EmptyHand, Placing
<1>1. ASSUME UNCHANGED <<sendCh, prioCh, pkt, wpkt, pool>> PROVE SlotOnce' /\ HandedOn
  BY <1>1 DEF SlotOnce, HandedOn, Kept, QueuesKept, Queued
<1>2. CASE Register(s) \/ NothingPrio(s) \/ SeesDone(s) \/ KeepaliveExits(s)
           \/ ReaderExits(s) \/ RelayFails(s)
  <2>1. UNCHANGED <<sendCh, prioCh, pkt, wpkt, pool>>
    BY <1>2 DEF Register, NothingPrio, SeesDone, KeepaliveExits, KeepaliveExitsWhen,
                ReaderExits, RelayFails
  <2>. QED BY <1>0, <1>1, <2>1
<1>3. CASE Unregister(s)
  <2>1. /\ pool' = pool \cup Queued(s) /\ UNCHANGED <<pkt, wpkt>>
        /\ sendCh'[s] = <<>> /\ prioCh'[s] = <<>>
        /\ \A t \in Worker \ {s} : sendCh'[t] = sendCh[t] /\ prioCh'[t] = prioCh[t]
    BY <1>3 DEF Unregister, LeaveSlot, TypeOK
  <2>2. ToSet(<<>>) = {} /\ IsInjective(<<>>)
    BY DEF ToSet, IsInjective
  <2>3. SlotOnce'
    BY <2>1, <2>2 DEF SlotOnce
  <2>4. Reclaimed(s)
    BY <2>1, <2>2 DEF Reclaimed, Queued
  <2>. QED BY <1>0, <2>3, <2>4 DEF HandedOn
<1>4. CASE TakePrio(s)
  <2>. DEFINE b == Head(prioCh[s])
  <2>1. SlotOnce' /\ Dequeued(s, b) /\ b \in Buffer
    BY <1>4, PrioTaken DEF TakePrio
  <2>2. Consumed(s, b)
    BY <1>4, <2>1 DEF TakePrio, Consumed, Quiet
  <2>. QED BY <1>0, <2>1, <2>2 DEF HandedOn
<1>5. CASE TakeData(s)
  <2>. DEFINE b == Head(sendCh[s])
  <2>1. SlotOnce' /\ Dequeued(s, b) /\ b \in Buffer
    BY <1>5, SendTaken DEF TakeData, TakeDataReturning
  <2>2. Consumed(s, b)
    BY <1>5, <2>1 DEF TakeData, TakeDataReturning, Consumed, Quiet
  <2>. QED BY <1>0, <2>1, <2>2 DEF HandedOn
<1>6. CASE Written(s)
  <2>1. wpkt[s] \in Buffer /\ SlotOnce' /\ PutBack(s, wpkt[s])
    BY <1>6 DEF Written, InHand, PutBack, SlotOnce, QueuesKept, Queued
  <2>. QED BY <1>0, <2>1 DEF HandedOn
<1>7. CASE DrainPrio(s)
  <2>1. CASE prioCh[s] # <<>>
    <3>1. SlotOnce' /\ Dequeued(s, Head(prioCh[s])) /\ Head(prioCh[s]) \in Buffer
      BY <1>7, <2>1, PrioTaken DEF DrainPrio
    <3>2. Drained(s, Head(prioCh[s]))
      BY <1>7, <2>1, <3>1 DEF DrainPrio, Drained
    <3>. QED BY <1>0, <3>1, <3>2 DEF HandedOn
  <2>2. CASE prioCh[s] = <<>>
    BY <1>0, <1>1, <1>7, <2>2 DEF DrainPrio
  <2>. QED BY <2>1, <2>2
<1>8. CASE DrainSend(s)
  <2>1. CASE sendCh[s] # <<>>
    <3>1. SlotOnce' /\ Dequeued(s, Head(sendCh[s])) /\ Head(sendCh[s]) \in Buffer
      BY <1>8, <2>1, SendTaken DEF DrainSend
    <3>2. Drained(s, Head(sendCh[s]))
      BY <1>8, <2>1, <3>1 DEF DrainSend, Drained
    <3>. QED BY <1>0, <3>1, <3>2 DEF HandedOn
  <2>2. CASE sendCh[s] = <<>>
    BY <1>0, <1>1, <1>8, <2>2 DEF DrainSend
  <2>. QED BY <2>1, <2>2
<1>9. CASE Keepalive(s)
  <2>1. PICK b \in pool : prioCh' = [prioCh EXCEPT ![s] = Append(@, b)] /\ pool' = pool \ {b}
    BY <1>9 DEF Keepalive
  <2>2. b \in Buffer \ Queued(s)
    BY <2>1 DEF TypeOK, HeldOnce
  <2>3. SlotOnce' /\ Enqueued(s, b)
    BY <1>9, <2>1, <2>2, PrioAppended DEF Keepalive
  <2>4. Emitted(s, b)
    BY <1>9, <2>1, <2>3 DEF Keepalive, Emitted
  <2>. QED BY <1>0, <2>2, <2>3, <2>4 DEF HandedOn
<1>. QED
  BY <1>2, <1>3, <1>4, <1>5, <1>6, <1>7, <1>8, <1>9 DEF Session, Writer

LEMMA StepHands ==
    Inv /\ Quiet /\ Owned /\ [Next]_vars => EmptyHand' /\ SlotOnce' /\ HandedOn
<1>. SUFFICES ASSUME Inv, Quiet, Owned, [Next]_vars
              PROVE  EmptyHand' /\ SlotOnce' /\ HandedOn
  OBVIOUS
<1>1. CASE AttachTUN \/ Stop \/ UNCHANGED vars
  BY <1>1 DEF AttachTUN, Stop, vars, Owned, EmptyHand, Placing, SlotOnce, HandedOn, Kept,
              QueuesKept, Queued
<1>. QED
  BY <1>1, ReadLoopHands, SessionHands DEF Next

LEMMA QueuedTyped ==
    ASSUME TypeOK, NEW s \in Worker
    PROVE  Queued(s) \subseteq Buffer
BY DEF TypeOK, Queued, ToSet

(* Handing on keeps every buffer with one owner.                           *)
LEMMA HandsOwned ==
    ASSUME Inv, Inv', Owned, HandedOn
    PROVE  HeldOnce' /\ NoneLost'
<1>. USE DEF Owned, Inv
<1>0. /\ pool \subseteq Buffer /\ NoBuf \notin Buffer
      /\ wpkt \in [Worker -> Buffer \cup {NoBuf}]
      /\ \A s \in Worker : Queued(s) \subseteq Buffer
  BY BufferAssumption, QueuedTyped DEF TypeOK
<1>1. CASE Kept
  BY <1>1 DEF Kept, QueuesKept, HeldOnce, NoneLost
<1>2. ASSUME NEW b \in Buffer, Filled(b) PROVE HeldOnce' /\ NoneLost'
  BY <1>0, <1>2 DEF Filled, QueuesKept, HeldOnce, NoneLost
<1>3. ASSUME NEW b \in Buffer, GivenUp(b) PROVE HeldOnce' /\ NoneLost'
  BY <1>0, <1>3 DEF GivenUp, QueuesKept, HeldOnce, NoneLost
<1>4. ASSUME NEW s \in Worker, Reclaimed(s) PROVE HeldOnce' /\ NoneLost'
  BY <1>0, <1>4 DEF Reclaimed, HeldOnce, NoneLost
<1>5. ASSUME NEW s \in Worker, NEW b \in Buffer, Published(s, b) PROVE HeldOnce' /\ NoneLost'
  BY <1>0, <1>5 DEF Published, Enqueued, HeldOnce, NoneLost
<1>6. ASSUME NEW s \in Worker, NEW b \in Buffer, Emitted(s, b) PROVE HeldOnce' /\ NoneLost'
  BY <1>0, <1>6 DEF Emitted, Enqueued, HeldOnce, NoneLost
<1>7. ASSUME NEW s \in Worker, NEW b \in Buffer, Consumed(s, b) PROVE HeldOnce' /\ NoneLost'
  BY <1>0, <1>7 DEF Consumed, Dequeued, HeldOnce, NoneLost
<1>8. ASSUME NEW s \in Worker, NEW b \in Buffer, PutBack(s, b) PROVE HeldOnce' /\ NoneLost'
  BY <1>0, <1>8 DEF PutBack, QueuesKept, HeldOnce, NoneLost
<1>9. ASSUME NEW s \in Worker, NEW b \in Buffer, Drained(s, b) PROVE HeldOnce' /\ NoneLost'
  BY <1>0, <1>9 DEF Drained, Dequeued, HeldOnce, NoneLost
<1>. QED
  BY <1>1, <1>2, <1>3, <1>4, <1>5, <1>6, <1>7, <1>8, <1>9 DEF HandedOn

LEMMA OwnedStep == Inv /\ Inv' /\ Quiet /\ Owned /\ [Next]_vars => Owned'
BY StepHands, HandsOwned DEF Owned

(* An owned buffer has one place.                                          *)
LEMMA OwnedOnePlace ==
    ASSUME Inv, Owned, NEW b \in Buffer
    PROVE  Cardinality(Places(b)) = 1
<1>. USE DEF Owned, Inv
<1>. DEFINE Where(x) ==
       \/ x = <<"pool">> /\ b \in pool
       \/ x = <<"readLoop">> /\ b = pkt
       \/ \E s \in Worker : x = <<"writer", s>> /\ wpkt[s] = b
       \/ \E s \in Worker : \E i \in DOMAIN sendCh[s] : x = <<"SendCh", s, i>> /\ sendCh[s][i] = b
       \/ \E s \in Worker : \E i \in DOMAIN prioCh[s] : x = <<"PrioCh", s, i>> /\ prioCh[s][i] = b
<1>1. ASSUME NEW x PROVE x \in Places(b) <=> Where(x)
  <2>. DEFINE InCh(s) ==
         {<<"SendCh", s, i>> : i \in {j \in DOMAIN sendCh[s] : sendCh[s][j] = b}}
           \cup {<<"PrioCh", s, i>> : i \in {j \in DOMAIN prioCh[s] : prioCh[s][j] = b}}
  <2>1. ASSUME NEW s \in Worker
        PROVE  x \in InCh(s) <=>
                 \/ \E i \in DOMAIN sendCh[s] : x = <<"SendCh", s, i>> /\ sendCh[s][i] = b
                 \/ \E i \in DOMAIN prioCh[s] : x = <<"PrioCh", s, i>> /\ prioCh[s][i] = b
    BY Zenon
  <2>. DEFINE Pool == {<<"pool">> : p \in pool \cap {b}}
              Read == {<<"readLoop">> : p \in {pkt} \cap {b}}
              Write == {<<"writer", s>> : s \in {t \in Worker : wpkt[t] = b}}
  <2>2. Places(b) = Pool \cup Read \cup Write \cup UNION {InCh(s) : s \in Worker}
    BY DEF Places
  <2>. HIDE DEF InCh
  <2>3. x \in Pool <=> x = <<"pool">> /\ b \in pool
    OBVIOUS
  <2>4. x \in Read <=> x = <<"readLoop">> /\ b = pkt
    OBVIOUS
  <2>5. x \in Write <=> \E s \in Worker : x = <<"writer", s>> /\ wpkt[s] = b
    BY Zenon
  <2>6. x \in UNION {InCh(s) : s \in Worker} <=> \E s \in Worker : x \in InCh(s)
    BY Zenon
  <2>. HIDE DEF Pool, Read, Write
  <2>7. x \in Places(b) <=> \/ x \in Pool \/ x \in Read \/ x \in Write
                           \/ x \in UNION {InCh(s) : s \in Worker}
    BY <2>2
  <2>. QED BY <2>1, <2>3, <2>4, <2>5, <2>6, <2>7, Zenon
<1>. HIDE DEF Where
<1>2. \E p : Where(p) /\ \A x : Where(x) => x = p
  <2>. USE DEF Where
  <2>0. b # NoBuf
    BY BufferAssumption
  <2>1. CASE b \in pool
    <3>. WITNESS <<"pool">>
    <3>. QED BY <2>0, <2>1 DEF HeldOnce, Queued, ToSet
  <2>2. CASE b = pkt
    <3>. WITNESS <<"readLoop">>
    <3>. QED BY <2>0, <2>2 DEF HeldOnce, Queued, ToSet
  <2>3. ASSUME NEW s \in Worker, wpkt[s] = b PROVE \E p : Where(p) /\ \A x : Where(x) => x = p
    <3>. WITNESS <<"writer", s>>
    <3>. QED BY <2>0, <2>3 DEF HeldOnce, Queued, ToSet
  <2>4. ASSUME NEW s \in Worker, NEW i \in DOMAIN sendCh[s], sendCh[s][i] = b
        PROVE  \E p : Where(p) /\ \A x : Where(x) => x = p
    <3>1. b \in Queued(s)
      BY <2>4 DEF Queued, ToSet
    <3>. WITNESS <<"SendCh", s, i>>
    <3>. QED BY <2>0, <2>4, <3>1 DEF HeldOnce, SlotOnce, IsInjective, Queued, ToSet
  <2>5. ASSUME NEW s \in Worker, NEW i \in DOMAIN prioCh[s], prioCh[s][i] = b
        PROVE  \E p : Where(p) /\ \A x : Where(x) => x = p
    <3>1. b \in Queued(s)
      BY <2>5 DEF Queued, ToSet
    <3>. WITNESS <<"PrioCh", s, i>>
    <3>. QED BY <2>0, <2>5, <3>1 DEF HeldOnce, SlotOnce, IsInjective, Queued, ToSet
  <2>. QED BY <2>1, <2>2, <2>3, <2>4, <2>5 DEF NoneLost, Queued, ToSet
<1>3. PICK p : Where(p) /\ \A x : Where(x) => x = p
  BY <1>2
<1>4. Places(b) = {p}
  BY <1>1, <1>3, Zenon
<1>. QED BY <1>4, FS_Singleton
-------------------------------------------------------------------------------
(* The refinement of PacketBuffer: each way of handing on is one of its    *)
(* moves.                                                                  *)
HolderIsOwner ==
    \A b \in Buffer :
        /\ b \in pool => whoHolds[b] = "pool"
        /\ b = pkt => whoHolds[b] = "producer"
        /\ (\E s \in Worker : wpkt[s] = b) => whoHolds[b] = "consumer"
        /\ (\E s \in Worker : b \in Queued(s)) => whoHolds[b] = "queue"

LEMMA WhoFacts == Inv /\ Owned => HolderIsOwner
<1>. SUFFICES ASSUME Inv, Owned, NEW b \in Buffer
              PROVE  /\ b \in pool => whoHolds[b] = "pool"
                     /\ b = pkt => whoHolds[b] = "producer"
                     /\ (\E s \in Worker : wpkt[s] = b) => whoHolds[b] = "consumer"
                     /\ (\E s \in Worker : b \in Queued(s)) => whoHolds[b] = "queue"
  BY DEF HolderIsOwner
<1>1. b # NoBuf
  BY BufferAssumption
<1>2. /\ b \in pool => b # pkt /\ (\A s \in Worker : wpkt[s] # b /\ b \notin Queued(s))
      /\ b = pkt => \A s \in Worker : wpkt[s] # b /\ b \notin Queued(s)
      /\ \A s, t \in Worker : wpkt[s] = b => b \notin Queued(t)
  BY <1>1 DEF Owned, HeldOnce
<1>. QED BY <1>2 DEF whoHolds

LEMMA WhoUnchanged ==
    ASSUME NEW b \in Buffer,
           b \in pool' <=> b \in pool,
           b = pkt' <=> b = pkt,
           (\E s \in Worker : wpkt'[s] = b) <=> (\E s \in Worker : wpkt[s] = b)
    PROVE  whoHolds'[b] = whoHolds[b]
BY DEF whoHolds

LEMMA Moved ==
    ASSUME NEW b \in Buffer, NEW to,
           whoHolds'[b] = to,
           \A c \in Buffer \ {b} : whoHolds'[c] = whoHolds[c]
    PROVE  whoHolds' = [whoHolds EXCEPT ![b] = to]
<1>1. /\ whoHolds = [c \in Buffer |-> whoHolds[c]]
      /\ whoHolds' = [c \in Buffer |-> whoHolds'[c]]
  BY DEF whoHolds
<1>. QED BY <1>1

LEMMA HandsMove ==
    ASSUME Inv, Owned, HolderIsOwner, HolderIsOwner', HandedOn
    PROVE  PB!Next \/ UNCHANGED whoHolds
<1>. USE DEF HolderIsOwner
<1>0. NoBuf \notin Buffer /\ wpkt \in [Worker -> Buffer \cup {NoBuf}]
  BY BufferAssumption DEF Inv, TypeOK
<1>1. CASE Kept
  BY <1>1 DEF Kept, whoHolds
<1>2. ASSUME NEW b \in Buffer, Filled(b) PROVE PB!Next
  <2>1. whoHolds[b] = "pool" /\ whoHolds'[b] = "producer"
    BY <1>2 DEF Filled
  <2>2. \A c \in Buffer \ {b} : whoHolds'[c] = whoHolds[c]
    BY <1>0, <1>2, WhoUnchanged DEF Filled
  <2>3. PB!Get(b)
    BY <2>1, <2>2, Moved DEF PB!Get, PB!Move
  <2>. QED BY <2>3 DEF PB!Next
<1>3. ASSUME NEW b \in Buffer, GivenUp(b) PROVE PB!Next
  <2>1. whoHolds[b] = "producer" /\ whoHolds'[b] = "pool"
    BY <1>3 DEF GivenUp
  <2>2. \A c \in Buffer \ {b} : whoHolds'[c] = whoHolds[c]
    BY <1>0, <1>3, WhoUnchanged DEF GivenUp
  <2>3. PB!Put(b)
    BY <2>1, <2>2, Moved DEF PB!Put, PB!Move, PB!Holders
  <2>. QED BY <2>3 DEF PB!Next
<1>4. ASSUME NEW s \in Worker, Reclaimed(s) PROVE PB!Next
  <2>1. /\ Queued(s) \subseteq Buffer
        /\ \A b \in Queued(s) : whoHolds[b] = "queue" /\ whoHolds'[b] = "pool"
    BY <1>4, QueuedTyped DEF Reclaimed, Inv
  <2>2. \A c \in Buffer \ Queued(s) : whoHolds'[c] = whoHolds[c]
    BY <1>4, WhoUnchanged DEF Reclaimed
  <2>3. whoHolds' = [b \in Buffer |-> whoHolds'[b]]
    BY DEF whoHolds
  <2>4. PB!Reclaim(Queued(s))
    BY <2>1, <2>2, <2>3 DEF PB!Reclaim
  <2>. QED BY <2>1, <2>4 DEF PB!Next
<1>5. ASSUME NEW s \in Worker, NEW b \in Buffer, Published(s, b) PROVE PB!Next
  <2>1. whoHolds[b] = "producer" /\ whoHolds'[b] = "queue"
    BY <1>5 DEF Published, Enqueued
  <2>2. \A c \in Buffer \ {b} : whoHolds'[c] = whoHolds[c]
    BY <1>0, <1>5, WhoUnchanged DEF Published
  <2>3. PB!Publish(b)
    BY <2>1, <2>2, Moved DEF PB!Publish, PB!Move
  <2>. QED BY <2>3 DEF PB!Next
<1>6. ASSUME NEW s \in Worker, NEW b \in Buffer, Emitted(s, b) PROVE PB!Next
  <2>1. whoHolds[b] = "pool" /\ whoHolds'[b] = "queue"
    BY <1>6 DEF Emitted, Enqueued
  <2>2. \A c \in Buffer \ {b} : whoHolds'[c] = whoHolds[c]
    BY <1>6, WhoUnchanged DEF Emitted
  <2>3. PB!Emit(b)
    BY <2>1, <2>2, Moved DEF PB!Emit, PB!Move
  <2>. QED BY <2>3 DEF PB!Next
<1>7. ASSUME NEW s \in Worker, NEW b \in Buffer, Consumed(s, b) PROVE PB!Next
  <2>1. whoHolds[b] = "queue" /\ whoHolds'[b] = "consumer"
    BY <1>0, <1>7 DEF Consumed, Dequeued
  <2>2. ASSUME NEW c \in Buffer \ {b} PROVE whoHolds'[c] = whoHolds[c]
    <3>1. (\E t \in Worker : wpkt'[t] = c) <=> (\E t \in Worker : wpkt[t] = c)
      BY <1>0, <1>7, <2>2 DEF Consumed
    <3>. QED BY <1>7, <2>2, <3>1, WhoUnchanged DEF Consumed
  <2>3. PB!Take(b)
    BY <2>1, <2>2, Moved DEF PB!Take, PB!Move
  <2>. QED BY <2>3 DEF PB!Next
<1>8. ASSUME NEW s \in Worker, NEW b \in Buffer, PutBack(s, b) PROVE PB!Next
  <2>1. whoHolds[b] = "consumer" /\ whoHolds'[b] = "pool"
    BY <1>8 DEF PutBack
  <2>2. ASSUME NEW c \in Buffer \ {b} PROVE whoHolds'[c] = whoHolds[c]
    <3>1. (\E t \in Worker : wpkt'[t] = c) <=> (\E t \in Worker : wpkt[t] = c)
      BY <1>0, <1>8, <2>2 DEF PutBack
    <3>. QED BY <1>8, <2>2, <3>1, WhoUnchanged DEF PutBack
  <2>3. PB!Put(b)
    BY <2>1, <2>2, Moved DEF PB!Put, PB!Move, PB!Holders
  <2>. QED BY <2>3 DEF PB!Next
<1>9. ASSUME NEW s \in Worker, NEW b \in Buffer, Drained(s, b) PROVE PB!Next
  <2>1. whoHolds[b] = "queue" /\ whoHolds'[b] = "pool"
    BY <1>9 DEF Drained, Dequeued
  <2>2. \A c \in Buffer \ {b} : whoHolds'[c] = whoHolds[c]
    BY <1>9, WhoUnchanged DEF Drained
  <2>3. PB!Put(b)
    BY <2>1, <2>2, Moved DEF PB!Put, PB!Move, PB!Holders
  <2>. QED BY <2>3 DEF PB!Next
<1>. QED
  BY <1>1, <1>2, <1>3, <1>4, <1>5, <1>6, <1>7, <1>8, <1>9 DEF HandedOn

LEMMA StepMoves ==
    Inv /\ Inv' /\ Quiet /\ Owned /\ Owned' /\ [Next]_vars => [PB!Next]_whoHolds
<1>. SUFFICES ASSUME Inv, Inv', Quiet, Owned, Owned', [Next]_vars
              PROVE  PB!Next \/ UNCHANGED whoHolds
  OBVIOUS
<1>1. HolderIsOwner /\ HandedOn
  BY WhoFacts, StepHands
<1>2. HolderIsOwner'
  BY WhoFacts, PTL
<1>. QED BY <1>1, <1>2, HandsMove

(* A buffer is in exactly one place: in the pool, in one pair of hands, or *)
(* once in one channel.                                                    *)
THEOREM BuffersCorrect == Spec => []BufferInOnePlace
<1>1. Inv /\ Owned => BufferInOnePlace
  BY OwnedOnePlace DEF BufferInOnePlace
<1>. QED
  BY <1>1, InitInv, StepInv, SlotInit, SlotStep, OwnedInit, OwnedStep, PTL DEF Spec

(* Uplink implements PacketBuffer, the abstract life of a buffer that      *)
(* Downlink implements too.                                                *)
THEOREM Refinement == Spec => BufferLife
<1>1. Init => PB!Init
  <2>. SUFFICES ASSUME Init PROVE PB!Init
    OBVIOUS
  <2>1. HolderIsOwner /\ pool = Buffer
    BY InitInv, OwnedInit, WhoFacts DEF Init
  <2>2. \A b \in Buffer : whoHolds[b] = "pool"
    BY <2>1 DEF HolderIsOwner
  <2>3. whoHolds = [b \in Buffer |-> whoHolds[b]]
    BY DEF whoHolds
  <2>. QED BY <2>2, <2>3 DEF PB!Init
<1>. QED
  BY <1>1, InitInv, StepInv, SlotInit, SlotStep, OwnedInit, OwnedStep, StepMoves, PTL
     DEF Spec, BufferLife, PB!Spec

-------------------------------------------------------------------------------
(* The scan over the workers.  What refused the packet is what the scan    *)
(* has passed, since neither the list nor the index moves during a scan;   *)
(* nw attempts from any index reach every worker.                          *)
Tried ==
    /\ ~Placing => refused = {}
    /\ rpc \in {"prio", "send"} => refused = {Slot(i) : i \in 0..(scan - 1)}
    /\ rpc = "dwell" => scan = 0

LEMMA ModWraps ==
    ASSUME NEW n \in Nat \ {0}, NEW a \in 0..(n - 1)
    PROVE  (a + n) % n = a
OBVIOUS

(* Some attempt of the scan falls on every place of the list.              *)
LEMMA ScanReaches ==
    ASSUME NEW n \in Nat \ {0}, NEW r \in 0..(n - 1), NEW j \in 0..(n - 1)
    PROVE  \E i \in 0..(n - 1) : (r + i) % n = j
<1>1. CASE r <= j
  <2>1. j - r \in 0..(n - 1) /\ r + (j - r) = j /\ j % n = j
    BY <1>1, ModFacts
  <2>. QED BY <2>1
<1>2. CASE r > j
  <2>1. j - r + n \in 0..(n - 1) /\ r + (j - r + n) = j + n
    BY <1>2
  <2>. QED BY <2>1, ModWraps
<1>. QED BY <1>1, <1>2

LEMMA SlotsAreRegistered ==
    ASSUME TypeOK, RRIndexInBounds, nw > 0
    PROVE  {Slot(i) : i \in 0..(nw - 1)} = Registered
<1>1. nw \in Nat \ {0} /\ rrIndex \in 0..(nw - 1) /\ rrIndex % nw = rrIndex
  BY IndexFacts
<1>2. ASSUME NEW s \in Registered PROVE \E i \in 0..(nw - 1) : Slot(i) = s
  <2>1. PICK k \in 1..nw : workers[k] = s
    BY <1>2 DEF Registered, ToSet, TypeOK, nw
  <2>2. k - 1 \in 0..(nw - 1) /\ (k - 1) + 1 = k
    BY <1>1, <2>1
  <2>3. PICK i \in 0..(nw - 1) : (rrIndex + i) % nw = k - 1
    BY <1>1, <2>2, ScanReaches
  <2>4. Slot(i) = s
    BY <1>1, <2>1, <2>2, <2>3 DEF Slot
  <2>. QED BY <2>3, <2>4
<1>3. ASSUME NEW i \in 0..(nw - 1) PROVE Slot(i) \in Registered
  BY <1>1, <1>3, SlotRegistered
<1>. QED BY <1>2, <1>3

(* One more refusal.                                                       *)
LEMMA OneMoreTried ==
    ASSUME Inv, Tried, rpc \in {"prio", "send"}
    PROVE  refused \cup {Slot(scan)} = {Slot(i) : i \in 0..scan}
<1>1. scan \in Nat /\ 0..scan = 0..(scan - 1) \cup {scan}
  BY DEF Inv, TypeOK
<1>. QED BY <1>1 DEF Tried

LEMMA TriedInit == Init => Tried
BY DEF Init, Tried, Placing

LEMMA TriedStep == Inv /\ Inv' /\ Tried /\ [Next]_vars => Tried'
<1>. SUFFICES ASSUME Inv, Inv', Tried, [Next]_vars PROVE Tried'
  OBVIOUS
<1>. USE DEF Tried, Placing
<1>1. ASSUME UNCHANGED <<rpc, refused, scan, workers, rrIndex>> PROVE Tried'
  BY <1>1 DEF Slot, nw
<1>2. CASE AttachTUN \/ Stop \/ UNCHANGED vars
  BY <1>1, <1>2 DEF AttachTUN, Stop, vars
<1>3. CASE WaitReady \/ LoopTop \/ Receive \/ ReadFails \/ NoWorkers \/ OfferPrio
           \/ OfferCurrent \/ OfferOther \/ Drop
  BY <1>3 DEF WaitReady, LoopTop, Receive, ReadFails, NoWorkers, GiveUpPkt, OfferPrio,
              OfferCurrent, OfferOther, SendTo, Placed, Drop, DropAfter
<1>4. CASE Lock \/ CheckDwell
  <2>1. scan' = 0 /\ refused' = {} /\ rpc' \in {"prio", "dwell", "send"} /\ 0..(0 - 1) = {}
    BY <1>4 DEF Lock, CheckDwell
  <2>. QED BY <2>1
<1>5. CASE PrioRefused \/ SendRefused
  <2>1. \A i : Slot(i)' = Slot(i)
    BY <1>5 DEF PrioRefused, SendRefused, Slot, nw
  <2>2. refused' = {Slot(i) : i \in 0..scan} /\ scan \in Nat
    BY <1>5, OneMoreTried DEF PrioRefused, SendRefused, Inv, TypeOK
  <2>3. \/ scan' = scan + 1 /\ rpc' \in {"prio", "send"}
        \/ scan' = 0 /\ rpc' = "dwell"
    BY <1>5 DEF PrioRefused, SendRefused
  <2>4. CASE scan' = scan + 1 /\ rpc' \in {"prio", "send"}
    <3>1. 0..(scan' - 1) = 0..scan
      BY <2>2, <2>4
    <3>2. refused' = {Slot(i)' : i \in 0..(scan' - 1)}
      BY <2>1, <2>2, <3>1
    <3>. QED BY <2>4, <3>2
  <2>. QED BY <2>3, <2>4
<1>6. ASSUME NEW s \in Worker, Register(s) \/ Unregister(s) PROVE Tried'
  BY <1>6 DEF Register, Unregister, LeaveSlot, MuFree
<1>7. ASSUME NEW s \in Worker,
             Writer(s) \/ Keepalive(s) \/ KeepaliveExits(s) \/ ReaderExits(s) \/ RelayFails(s)
      PROVE  Tried'
  <2>1. UNCHANGED <<rpc, refused, scan, workers, rrIndex>>
    BY <1>7 DEF Writer, TakePrio, NothingPrio, TakeData, TakeDataReturning, SeesDone, Written,
                DrainPrio, DrainSend, Keepalive, KeepaliveExits, KeepaliveExitsWhen,
                ReaderExits, RelayFails
  <2>. QED BY <1>1, <2>1
<1>. QED
  BY <1>2, <1>3, <1>4, <1>5, <1>6, <1>7 DEF Next, ReadLoop, Session

(* A buffer in readLoop's hand returns to the pool by Drop alone.          *)
LEMMA OnlyDropReturns ==
    ASSUME Inv, Owned, [Next]_vars, rpc = "send", pkt \in pool'
    PROVE  Drop
<1>. USE DEF Inv, Owned
<1>1. pkt \in Buffer /\ pkt \notin pool /\ pkt # NoBuf
  BY BufferAssumption DEF InHand, Placing, HeldOnce
<1>2. \A s \in Worker : pkt \notin Queued(s) /\ wpkt[s] # pkt
  BY <1>1 DEF HeldOnce
<1>3. ~UNCHANGED pool
  BY <1>1
<1>4. CASE ReadLoop
  BY <1>3, <1>4 DEF ReadLoop, WaitReady, LoopTop, Receive, ReadFails, NoWorkers, Lock, OfferPrio,
       PrioRefused, CheckDwell, OfferCurrent, OfferOther, SendTo, SendRefused
<1>5. ASSUME NEW s \in Worker, Session(s) PROVE FALSE
  <2>1. CASE Written(s)
    BY <1>1, <1>2, <2>1 DEF Written
  <2>2. CASE DrainPrio(s)
    <3>1. CASE prioCh[s] # <<>>
      <4>1. Head(prioCh[s]) \in Queued(s)
        BY <3>1, TakeHead DEF Queued, TypeOK
      <4>. QED BY <1>1, <1>2, <2>2, <3>1, <4>1 DEF DrainPrio
    <3>. QED BY <1>3, <2>2, <3>1 DEF DrainPrio
  <2>3. CASE DrainSend(s)
    <3>1. CASE sendCh[s] # <<>>
      <4>1. Head(sendCh[s]) \in Queued(s)
        BY <3>1, TakeHead DEF Queued, TypeOK
      <4>. QED BY <1>1, <1>2, <2>3, <3>1, <4>1 DEF DrainSend
    <3>. QED BY <1>3, <2>3, <3>1 DEF DrainSend
  <2>4. CASE Keepalive(s)
    BY <1>1, <2>4 DEF Keepalive
  <2>5. CASE Unregister(s)
    BY <2>5 DEF Unregister, LeaveSlot, MuFree
  <2>. QED
    BY <1>1, <1>3, <1>5, <2>1, <2>2, <2>3, <2>4, <2>5
       DEF Session, Writer, Register, TakePrio, NothingPrio, TakeData, TakeDataReturning,
           SeesDone, KeepaliveExits, KeepaliveExitsWhen, ReaderExits, RelayFails
<1>. QED
  BY <1>3, <1>4, <1>5 DEF Next, AttachTUN, Stop, vars

(* What EveryWorkerTried says of a step.                                   *)
AllRefused ==
    \/ rpc = "prio" /\ rpc' = "dwell"
    \/ rpc = "send" /\ pkt \in pool'
    => refused \cup {Slot(scan)} = Registered

LEMMA AllTried == Inv /\ Owned /\ Tried /\ [Next]_vars => AllRefused
<1>. SUFFICES ASSUME Inv, Owned, Tried, [Next]_vars,
                     \/ rpc = "prio" /\ rpc' = "dwell"
                     \/ rpc = "send" /\ pkt \in pool'
              PROVE  refused \cup {Slot(scan)} = Registered
  BY DEF AllRefused
<1>1. scan = nw - 1
  <2>1. CASE rpc = "prio" /\ rpc' = "dwell"
    <3>1. PrioRefused
      BY <2>1 DEF Next, vars, AttachTUN, Stop, ReadLoop, WaitReady, LoopTop, Receive, ReadFails,
           NoWorkers, Lock, OfferPrio, Placed, CheckDwell, OfferCurrent,
           OfferOther, SendTo, SendRefused, Drop, DropAfter, Session, Register, Unregister,
           LeaveSlot, Writer, TakePrio, NothingPrio, TakeData, TakeDataReturning, SeesDone,
           Written, DrainPrio, DrainSend, Keepalive, KeepaliveExits, KeepaliveExitsWhen,
           ReaderExits, RelayFails
    <3>2. nw \in Nat /\ scan \in Nat /\ scan < nw
      BY <2>1 DEF nw, Inv, InHand, Placing, TypeOK
    <3>3. ~(scan + 1 < nw)
      BY <2>1, <3>1 DEF PrioRefused
    <3>. QED BY <3>2, <3>3
  <2>2. CASE rpc = "send" /\ pkt \in pool'
    BY <2>2, OnlyDropReturns DEF Drop, DropAfter
  <2>. QED BY <2>1, <2>2
<1>2. nw > 0
  BY DEF Inv, InHand, Placing
<1>3. refused \cup {Slot(scan)} = {Slot(i) : i \in 0..(nw - 1)}
  BY <1>1, OneMoreTried
<1>. QED BY <1>2, <1>3, SlotsAreRegistered DEF Inv

(* No packet is passed to the ordinary queue or dropped before every       *)
(* registered worker has refused it, although the Writers drain the        *)
(* channels while the scan is under way.                                   *)
THEOREM ScanCorrect == Spec => EveryWorkerTried
<1>1. Inv /\ Owned /\ Tried /\ [Next]_vars
        => [ \/ rpc = "prio" /\ rpc' = "dwell"
             \/ rpc = "send" /\ pkt \in pool'
             => refused \cup {Slot(scan)} = Registered ]_vars
  BY AllTried DEF AllRefused
<1>. QED
  BY <1>1, InitInv, StepInv, SlotInit, SlotStep, OwnedInit, OwnedStep, TriedInit, TriedStep,
     PTL DEF Spec, EveryWorkerTried

-------------------------------------------------------------------------------
(* readLoop never blocks on a channel.  Room and refusal leave no third    *)
(* case, because no channel exceeds its capacity; and every step of the    *)
(* scan lowers a rank that nobody else touches: Register and Unregister    *)
(* wait for d.mu, and the Writers move neither the list nor the scan.      *)
ChannelsKept ==
    \A s \in Worker : Len(sendCh[s]) <= SendCap /\ Len(prioCh[s]) <= PrioCap

Rank ==
    CASE rpc = "prio" -> 2 * nw + 1 - scan
      [] rpc = "dwell" -> nw + 1
      [] rpc = "send" -> nw - scan
      [] OTHER -> 0

Advances == Placing => Rank' < Rank \/ UNCHANGED <<rpc, scan, workers>>

LEMMA ChannelsInit == Init => ChannelsKept
BY CapAssumption DEF Init, ChannelsKept

LEMMA ChannelsStep == Inv /\ ChannelsKept /\ [Next]_vars => ChannelsKept'
<1>. SUFFICES ASSUME Inv, ChannelsKept, [Next]_vars PROVE ChannelsKept'
  OBVIOUS
<1>. USE CapAssumption
<1>0. sendCh \in [Worker -> Seq(Buffer)] /\ prioCh \in [Worker -> Seq(Buffer)]
  BY DEF Inv, TypeOK
<1>1. ASSUME UNCHANGED <<sendCh, prioCh>> PROVE ChannelsKept'
  BY <1>1 DEF ChannelsKept
<1>2. CASE AttachTUN \/ Stop \/ UNCHANGED vars
  BY <1>1, <1>2 DEF AttachTUN, Stop, vars
<1>3. CASE WaitReady \/ LoopTop \/ Receive \/ ReadFails \/ NoWorkers \/ Lock \/ PrioRefused
           \/ CheckDwell \/ SendRefused \/ Drop
  BY <1>1, <1>3 DEF WaitReady, LoopTop, Receive, ReadFails, NoWorkers, Lock, PrioRefused,
                    CheckDwell, SendRefused, Drop, DropAfter
<1>4. CASE OfferPrio
  BY <1>0, <1>4 DEF OfferPrio, ChannelsKept
<1>5. CASE OfferCurrent
  BY <1>0, <1>5 DEF OfferCurrent, SendTo, ChannelsKept
<1>6. CASE OfferOther
  BY <1>0, <1>6 DEF OfferOther, SendTo, ChannelsKept
<1>7. ASSUME NEW s \in Worker, Session(s) PROVE ChannelsKept'
  <2>1. CASE \/ Register(s) \/ NothingPrio(s) \/ SeesDone(s) \/ Written(s)
             \/ KeepaliveExits(s) \/ ReaderExits(s) \/ RelayFails(s)
    BY <1>1, <2>1 DEF Register, NothingPrio, SeesDone, Written, KeepaliveExits,
                      KeepaliveExitsWhen, ReaderExits, RelayFails
  <2>2. CASE Unregister(s)
    BY <1>0, <2>2 DEF Unregister, LeaveSlot, ChannelsKept
  <2>3. CASE TakePrio(s)
    BY <1>0, <2>3 DEF TakePrio, ChannelsKept
  <2>4. CASE TakeData(s)
    BY <1>0, <2>4 DEF TakeData, TakeDataReturning, ChannelsKept
  <2>5. CASE DrainPrio(s)
    <3>1. CASE prioCh[s] # <<>>
      <4>1. Len(Tail(prioCh[s])) <= PrioCap
        BY <1>0, <3>1 DEF ChannelsKept
      <4>. QED BY <1>0, <2>5, <3>1, <4>1 DEF DrainPrio, ChannelsKept
    <3>2. CASE prioCh[s] = <<>>
      BY <1>1, <2>5, <3>2 DEF DrainPrio
    <3>. QED BY <3>1, <3>2
  <2>6. CASE DrainSend(s)
    <3>1. CASE sendCh[s] # <<>>
      <4>1. Len(Tail(sendCh[s])) <= SendCap
        BY <1>0, <3>1 DEF ChannelsKept
      <4>. QED BY <1>0, <2>6, <3>1, <4>1 DEF DrainSend, ChannelsKept
    <3>2. CASE sendCh[s] = <<>>
      BY <1>1, <2>6, <3>2 DEF DrainSend
    <3>. QED BY <3>1, <3>2
  <2>7. CASE Keepalive(s)
    BY <1>0, <2>7 DEF Keepalive, ChannelsKept
  <2>. QED
    BY <1>7, <2>1, <2>2, <2>3, <2>4, <2>5, <2>6, <2>7 DEF Session, Writer
<1>. QED
  BY <1>2, <1>3, <1>4, <1>5, <1>6, <1>7 DEF Next, ReadLoop

LEMMA AdvanceStep == Inv /\ [Next]_vars => Advances
<1>. SUFFICES ASSUME Inv, [Next]_vars, Placing PROVE Rank' < Rank \/ UNCHANGED <<rpc, scan, workers>>
  BY DEF Advances
<1>. USE DEF Placing
<1>0. nw \in Nat /\ scan \in Nat /\ scan < nw
  BY DEF Inv, TypeOK, InHand, nw
<1>1. Rank \in Nat \ {0}
  BY <1>0 DEF Rank
<1>2. CASE AttachTUN \/ Stop \/ UNCHANGED vars
  BY <1>2 DEF AttachTUN, Stop, vars
<1>3. CASE WaitReady \/ LoopTop \/ Receive \/ ReadFails \/ NoWorkers \/ Lock
  BY <1>3 DEF WaitReady, LoopTop, Receive, ReadFails, NoWorkers, Lock
<1>4. CASE OfferPrio \/ OfferCurrent \/ OfferOther \/ Drop
  <2>1. rpc' = "top"
    BY <1>4 DEF OfferPrio, OfferCurrent, OfferOther, SendTo, Placed, Drop,
                DropAfter, GiveUpPkt
  <2>2. Rank' = 0
    BY <2>1 DEF Rank
  <2>. QED BY <1>1, <2>2
<1>5. CASE PrioRefused
  <2>1. rpc = "prio" /\ nw' = nw
    BY <1>5 DEF PrioRefused, nw
  <2>2. CASE scan' = scan + 1 /\ rpc' = "prio"
    BY <1>0, <2>1, <2>2 DEF Rank
  <2>3. CASE scan' = 0 /\ rpc' = "dwell"
    BY <1>0, <2>1, <2>3 DEF Rank
  <2>. QED BY <1>5, <2>2, <2>3 DEF PrioRefused
<1>6. CASE CheckDwell
  <2>1. rpc = "dwell" /\ rpc' = "send" /\ scan' = scan /\ nw' = nw
    BY <1>6 DEF CheckDwell, nw
  <2>. QED BY <1>0, <2>1 DEF Rank
<1>7. CASE SendRefused
  <2>1. rpc = "send" /\ rpc' = "send" /\ scan' = scan + 1 /\ nw' = nw
    BY <1>7 DEF SendRefused, nw
  <2>. QED BY <1>0, <2>1 DEF Rank
<1>8. ASSUME NEW s \in Worker, Session(s) PROVE UNCHANGED <<rpc, scan, workers>>
  BY <1>8 DEF Session, Register, Unregister, LeaveSlot, MuFree, Writer, TakePrio, NothingPrio,
              TakeData, TakeDataReturning, SeesDone, Written, DrainPrio, DrainSend, Keepalive,
              KeepaliveExits, KeepaliveExitsWhen, ReaderExits, RelayFails
<1>. QED
  BY <1>2, <1>3, <1>4, <1>5, <1>6, <1>7, <1>8 DEF Next, ReadLoop

(* Some step of readLoop can always be taken while it places a packet.     *)
Open ==
    /\ rpc = "prio" => Len(prioCh[Slot(scan)]) < PrioCap \/ Len(prioCh[Slot(scan)]) = PrioCap
    /\ rpc = "send" =>
          \/ Len(sendCh[Slot(scan)]) < SendCap
          \/ Len(sendCh[Slot(scan)]) = SendCap /\ (scan + 1 < nw \/ scan = nw - 1)

LEMMA AlwaysOpen == Inv /\ ChannelsKept => Open
<1>. SUFFICES ASSUME Inv, ChannelsKept PROVE Open
  OBVIOUS
<1>. USE CapAssumption DEF Inv, TypeOK, InHand, Placing
<1>1. ASSUME rpc \in {"prio", "send"}
      PROVE  /\ Slot(scan) \in Worker
             /\ nw \in Nat /\ scan \in Nat /\ scan < nw
  <2>1. nw \in Nat /\ scan \in Nat /\ scan < nw /\ nw > 0
    BY <1>1 DEF nw
  <2>. QED BY <2>1, SlotFacts
<1>2. \A s \in Worker :
        /\ Len(prioCh[s]) < PrioCap \/ Len(prioCh[s]) = PrioCap
        /\ Len(sendCh[s]) < SendCap \/ Len(sendCh[s]) = SendCap
  <2>1. \A s \in Worker : Len(prioCh[s]) \in Nat /\ Len(sendCh[s]) \in Nat
    OBVIOUS
  <2>. QED BY <2>1 DEF ChannelsKept
<1>3. rpc = "send" => scan + 1 < nw \/ scan = nw - 1
  BY <1>1
<1>. QED BY <1>1, <1>2, <1>3 DEF Open

(* The safety half of ReadLoopNeverBlocks: while readLoop holds d.mu one   *)
(* of its steps is possible, whatever the Writers, the keepalives and the  *)
(* other sessions do, and it takes at most 2 nw + 1 of them, since each    *)
(* lowers Rank and nobody else changes it.                                 *)
THEOREM LoopAdvances == Spec => [](ChannelsKept /\ Open) /\ [][Advances]_vars
<1>1. Inv /\ [Next]_vars => [Advances]_vars
  BY AdvanceStep
<1>. QED
  BY <1>1, InitInv, StepInv, ChannelsInit, ChannelsStep, AlwaysOpen, PTL DEF Spec

===============================================================================
