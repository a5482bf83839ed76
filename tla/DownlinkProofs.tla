---------------------------- MODULE DownlinkProofs ----------------------------
(***************************************************************************)
(* What TLAPS proves of Downlink and of the TUN under it, for any number   *)
(* of sessions, any buffers and any capacity of ReturnCh.                  *)
(***************************************************************************)
EXTENDS Downlink, QueueLemmas, FiniteSetTheorems

-------------------------------------------------------------------------------
(* The TUN.  The inductive invariant follows createNativeRawTUN: what each *)
(* command has established is still there at every later one, because the  *)
(* only steps that take it away are GiveUp, the end of the process, and    *)
(* the cleanup, which starts after the last command; and it follows        *)
(* cleanup the same way, while no command has failed.                      *)
WithLink == {"addr", "link", "flush", "route", "ruleDel", "ruleAdd", "forward",
             "attach", "attached"}
WithUp == WithLink \ {"addr", "link"}
WithRoute == WithUp \ {"flush", "route"}
WithRule == WithRoute \ {"ruleDel", "ruleAdd"}

OnlyRawTun == mode = "wg" => pc = "idle" /\ cpc = "none" /\ ~inRead

Attached ==
    /\ mode = "rawtun" => (ready <=> pc = "attached")
    /\ cpc # "none" => pc = "attached"
    /\ inRead => ready

Configured ==
    alive /\ cpc \in {"none", "close"} =>
        /\ pc \in WithLink => fd /\ kernel["link"]
        /\ pc \in WithUp => kernel["up"]
        /\ pc \in WithRoute => kernel["route"]
        /\ pc \in WithRule => kernel["rule"]

Cleaned ==
    ~failed =>
        /\ cpc \in {"flush", "linkDel", "done"} => ~kernel["rule"]
        /\ cpc \in {"linkDel", "done"} => ~kernel["route"]
        /\ cpc = "done" => ~kernel["link"] /\ ~kernel["up"]

TunInv ==
    /\ TunTypeOK /\ OnlyRawTun /\ Attached /\ Configured /\ Cleaned
    /\ LeftoversNeverBlock

KernelParts == {"link", "up", "route", "rule"}

LEMMA WithoutLinkFacts ==
    ASSUME kernel \in [KernelParts -> BOOLEAN]
    PROVE  /\ WithoutLink(kernel) \in [KernelParts -> BOOLEAN]
           /\ WithoutLink(kernel)["rule"] = kernel["rule"]
           /\ ~WithoutLink(kernel)["link"] /\ ~WithoutLink(kernel)["up"]
           /\ ~WithoutLink(kernel)["route"]
BY DEF WithoutLink, KernelParts

LEMMA PartFacts ==
    ASSUME kernel \in [KernelParts -> BOOLEAN], NEW part \in KernelParts, NEW v \in BOOLEAN
    PROVE  /\ [kernel EXCEPT ![part] = v] \in [KernelParts -> BOOLEAN]
           /\ \A q \in KernelParts :
                 [kernel EXCEPT ![part] = v][q] = IF q = part THEN v ELSE kernel[q]
OBVIOUS

LEMMA TunInitInv == TunInit => TunInv
<1>. SUFFICES ASSUME TunInit PROVE TunInv
  OBVIOUS
<1>. QED
  BY DEF TunInit, TunInv, TunTypeOK, OnlyRawTun, Attached, Configured, Cleaned,
         LeftoversNeverBlock, ConfigPcs, CleanupPcs, WithLink, WithUp, WithRoute,
         WithRule

USE DEF procVars, ConfigPcs, CleanupPcs, WithLink, WithUp, WithRoute, WithRule

LEMMA ConfigureInv ==
    ASSUME TunInv, Configure
    PROVE  TunInv'
<1>. USE DEF TunInv, TunTypeOK, OnlyRawTun, Attached, Configured, Cleaned,
             LeftoversNeverBlock
<1>0. kernel \in [KernelParts -> BOOLEAN]
  BY DEF KernelParts
<1>1. ASSUME NEW byItself \in BOOLEAN, GiveUp(byItself), pc # "attached",
             UNCHANGED <<mode, alive, ready, cpc, inRead>>, pc # "idle"
      PROVE  TunInv'
  BY <1>0, <1>1, WithoutLinkFacts DEF GiveUp, KernelParts
<1>p. \A q \in KernelParts : kernel[q] \in BOOLEAN
  BY <1>0
<1>2. CASE OpenTun
  BY <1>1, <1>2 DEF OpenTun
<1>3. CASE AddrReplace
  <2>1. alive /\ pc = "addr" /\ UNCHANGED <<mode, alive, ready, cpc, inRead>>
    BY <1>3 DEF AddrReplace, Checked
  <2>2. CASE GiveUp(TRUE)
    BY <1>1, <2>1, <2>2
  <2>3. CASE /\ kernel' = kernel /\ pc' = "link"
             /\ UNCHANGED <<stopped, fd, failed>>
    BY <2>1, <2>3
  <2>. QED BY <1>3, <2>2, <2>3 DEF AddrReplace, Checked
<1>4. CASE LinkUp
  <2>1. alive /\ pc = "link" /\ UNCHANGED <<mode, alive, ready, cpc, inRead>>
    BY <1>4 DEF LinkUp, Checked
  <2>2. CASE GiveUp(TRUE)
    BY <1>1, <2>1, <2>2
  <2>3. CASE /\ kernel' = [kernel EXCEPT !["up"] = TRUE] /\ pc' = "flush"
             /\ UNCHANGED <<stopped, fd, failed>>
    BY <1>0, <2>1, <2>3, PartFacts DEF KernelParts
  <2>. QED BY <1>4, <2>2, <2>3 DEF LinkUp, Checked
<1>5. CASE RouteFlush
  BY <1>5 DEF RouteFlush, Ignored
<1>6. CASE RouteReplace
  <2>1. alive /\ pc = "route" /\ UNCHANGED <<mode, alive, ready, cpc, inRead>>
    BY <1>6 DEF RouteReplace, Checked
  <2>2. CASE GiveUp(kernel["up"])
    BY <1>1, <1>p, <2>1, <2>2 DEF KernelParts
  <2>3. CASE /\ kernel' = [kernel EXCEPT !["route"] = TRUE] /\ pc' = "ruleDel"
             /\ kernel["up"] /\ UNCHANGED <<stopped, fd, failed>>
    BY <1>0, <2>1, <2>3, PartFacts DEF KernelParts
  <2>. QED BY <1>6, <2>2, <2>3 DEF RouteReplace, Checked
<1>7. CASE RuleDel
  BY <1>7 DEF RuleDel, Ignored
<1>8. CASE RuleAdd
  <2>1. alive /\ pc = "ruleAdd" /\ UNCHANGED <<mode, alive, ready, cpc, inRead>>
    BY <1>8 DEF RuleAdd, Checked
  <2>2. CASE GiveUp(~kernel["rule"])
    BY <1>1, <1>p, <2>1, <2>2 DEF KernelParts
  <2>3. CASE /\ kernel' = [kernel EXCEPT !["rule"] = TRUE] /\ pc' = "forward"
             /\ ~kernel["rule"] /\ UNCHANGED <<stopped, fd, failed>>
    BY <1>0, <2>1, <2>3, PartFacts DEF KernelParts
  <2>. QED BY <1>8, <2>2, <2>3 DEF RuleAdd, Checked
<1>9. CASE Forward
  <2>1. alive /\ pc = "forward" /\ UNCHANGED <<mode, alive, ready, cpc, inRead>>
    BY <1>9 DEF Forward, Checked
  <2>2. CASE GiveUp(TRUE)
    BY <1>1, <2>1, <2>2
  <2>3. CASE /\ kernel' = kernel /\ pc' = "attach"
             /\ UNCHANGED <<stopped, fd, failed>>
    BY <2>1, <2>3
  <2>. QED BY <1>9, <2>2, <2>3 DEF Forward, Checked
<1>10. CASE Attach
  BY <1>10 DEF Attach
<1>. QED
  BY <1>2, <1>3, <1>4, <1>5, <1>6, <1>7, <1>8, <1>9, <1>10 DEF Configure

LEMMA DeviceInv ==
    ASSUME TunInv, Device
    PROVE  TunInv'
<1>. USE DEF TunInv, TunTypeOK, OnlyRawTun, Attached, Configured, Cleaned,
             LeftoversNeverBlock
<1>0. kernel \in [KernelParts -> BOOLEAN]
  BY DEF KernelParts
<1>1. CASE TakeConfig
  BY <1>1 DEF TakeConfig
<1>2. CASE Configure
  BY <1>2, ConfigureInv
<1>3. CASE CleanupStarts
  BY <1>3 DEF CleanupStarts
<1>4. CASE CloseFile
  BY <1>0, <1>4, WithoutLinkFacts DEF CloseFile, KernelParts
<1>5. CASE CleanRule
  BY <1>5 DEF CleanRule, CleanupCommand
<1>6. CASE CleanRoute
  <2>1. alive /\ cpc = "flush" /\ cpc' = "linkDel" /\ UNCHANGED <<mode, procVars, pc, fd, inRead>>
    BY <1>6 DEF CleanRoute, CleanupCommand
  <2>2. CASE kernel' = [kernel EXCEPT !["route"] = FALSE] /\ UNCHANGED failed
    BY <1>0, <2>1, <2>2, PartFacts DEF KernelParts
  <2>3. CASE kernel' = kernel /\ failed' = TRUE
    BY <2>1, <2>3
  <2>. QED BY <1>6, <2>2, <2>3 DEF CleanRoute, CleanupCommand
<1>7. CASE CleanLink
  <2>1. alive /\ cpc = "linkDel" /\ cpc' = "done" /\ UNCHANGED <<mode, procVars, pc, fd, inRead>>
    BY <1>7 DEF CleanLink, CleanupCommand
  <2>2. CASE kernel' = WithoutLink(kernel) /\ UNCHANGED failed
    BY <1>0, <2>1, <2>2, WithoutLinkFacts DEF KernelParts
  <2>3. CASE kernel' = kernel /\ failed' = TRUE
    BY <2>1, <2>3
  <2>. QED BY <1>7, <2>2, <2>3 DEF CleanLink, CleanupCommand
<1>8. CASE EnterRead
  BY <1>8 DEF EnterRead
<1>9. CASE ReadReturns
  BY <1>0, <1>9, WithoutLinkFacts DEF ReadReturns, KernelParts
<1>10. CASE Stop
  BY <1>10 DEF Stop
<1>. QED
  BY <1>1, <1>2, <1>3, <1>4, <1>5, <1>6, <1>7, <1>8, <1>9, <1>10 DEF Device, Cleanup

(* The end of a process and the start of the next one.                     *)
LEMMA LivesInv ==
    ASSUME TunInv, Dies \/ Respawns
    PROVE  TunInv'
<1>. USE DEF TunInv, TunTypeOK, OnlyRawTun, Attached, Configured, Cleaned,
             LeftoversNeverBlock
<1>0. kernel \in [KernelParts -> BOOLEAN]
  BY DEF KernelParts
<1>1. CASE Dies
  BY <1>0, <1>1, WithoutLinkFacts DEF Dies, KernelParts
<1>2. CASE Respawns
  BY <1>2 DEF Respawns
<1>. QED BY <1>1, <1>2

LEMMA TunUnchanged ==
    ASSUME TunInv, UNCHANGED tunVars
    PROVE  TunInv'
BY DEF TunInv, TunTypeOK, OnlyRawTun, Attached, Configured, Cleaned,
       LeftoversNeverBlock, tunVars

-------------------------------------------------------------------------------
(* The packet path.  A buffer has one owner because every step that hands  *)
(* it on takes it away from where it was; that needs the Readers and       *)
(* writeLoop to hold one exactly when their pc says so.                    *)
PathTypeOK ==
    /\ rdr \in [Session -> {"none", "read", "offer"}]
    /\ rpkt \in [Session -> Buffer \cup {NoBuf}]
    /\ sessDone \in [Session -> BOOLEAN]
    /\ returnCh \in Seq(Buffer) /\ Len(returnCh) <= ReturnCap
    /\ wpc \in {"wait", "top", "write", "exit"} /\ wpkt \in Buffer \cup {NoBuf}
    /\ addr \in BOOLEAN /\ pool \in SUBSET Buffer

InHand ==
    /\ \A s \in Session : rdr[s] = "offer" <=> rpkt[s] # NoBuf
    /\ wpc = "write" <=> wpkt # NoBuf

HeldOnce ==
    /\ \A s \in Session : rpkt[s] # NoBuf =>
          /\ rpkt[s] \notin pool \cup ToSet(returnCh) \cup {wpkt}
          /\ \A t \in Session : rpkt[t] = rpkt[s] => t = s
    /\ wpkt \notin pool \cup ToSet(returnCh)
    /\ ToSet(returnCh) \cap pool = {} /\ IsInjective(returnCh)

NoneLost ==
    \A b \in Buffer : \/ b \in pool \/ b \in ToSet(returnCh) \/ b = wpkt
                     \/ \E s \in Session : rpkt[s] = b

PathInv == PathTypeOK /\ InHand /\ HeldOnce /\ NoneLost

LEMMA PathInitInv == Init => PathInv
<1>. SUFFICES ASSUME Init PROVE PathInv
  OBVIOUS
<1>1. returnCh \in Seq(Buffer) /\ Len(returnCh) <= ReturnCap /\ ToSet(returnCh) = {}
      /\ IsInjective(returnCh)
  BY DownCapAssumption DEF Init, ToSet, IsInjective
<1>. QED
  BY <1>1, DownBufferAssumption
     DEF Init, PathInv, PathTypeOK, InHand, HeldOnce, NoneLost

(* A packet that a Reader holds goes back to the pool.                     *)
LEMMA GiveBackInv ==
    ASSUME PathInv, NEW s \in Session, rdr[s] = "offer", GiveBack(s),
           rdr' \in [Session -> {"none", "read", "offer"}],
           rdr'[s] # "offer", \A t \in Session \ {s} : rdr'[t] = rdr[t],
           sessDone' \in [Session -> BOOLEAN],
           UNCHANGED <<returnCh, wpc, wpkt, addr>>
    PROVE  PathInv'
<1>. USE DownBufferAssumption DEF PathInv, GiveBack
<1>1. rpkt[s] \in Buffer
  BY DEF PathTypeOK, InHand
<1>2. PathTypeOK'
  BY <1>1 DEF PathTypeOK
<1>3. InHand'
  BY DEF InHand, PathTypeOK
<1>4. HeldOnce'
  BY <1>1 DEF HeldOnce, PathTypeOK
<1>5. NoneLost'
  BY DEF NoneLost, PathTypeOK
<1>. QED BY <1>2, <1>3, <1>4, <1>5

LEMMA ReaderInv ==
    ASSUME PathInv, NEW s \in Session, Reader(s)
    PROVE  PathInv'
<1>. USE DownBufferAssumption DEF PathInv
<1>1. CASE StartReader(s)
  BY <1>1 DEF StartReader, PathTypeOK, InHand, HeldOnce, NoneLost
<1>2. CASE SessionFails(s)
  BY <1>2 DEF SessionFails, PathTypeOK, InHand, HeldOnce, NoneLost
<1>3. CASE ReadPacket(s)
  <2>1. PICK b \in pool : /\ rpkt' = [rpkt EXCEPT ![s] = b]
                          /\ pool' = pool \ {b}
    BY <1>3 DEF ReadPacket
  <2>2. b \in Buffer /\ rpkt[s] = NoBuf /\ rdr[s] = "read"
    BY <1>3, <2>1 DEF ReadPacket, PathTypeOK, InHand
  <2>3. PathTypeOK' /\ InHand'
    BY <1>3, <2>1, <2>2 DEF ReadPacket, PathTypeOK, InHand
  <2>4. HeldOnce'
    BY <1>3, <2>1, <2>2 DEF ReadPacket, PathTypeOK, HeldOnce
  <2>5. NoneLost'
    BY <1>3, <2>1, <2>2 DEF ReadPacket, PathTypeOK, NoneLost
  <2>. QED BY <2>3, <2>4, <2>5
<1>4. CASE ReadFails(s)
  BY <1>4 DEF ReadFails, ReaderEnds, PathTypeOK, InHand, HeldOnce, NoneLost
<1>5. CASE OfferTaken(s)
  <2>. USE DEF OfferTaken, Taken
  <2>1. rpkt[s] \in Buffer /\ rdr[s] = "offer"
    BY <1>5 DEF PathTypeOK, InHand
  <2>2. ToSet(returnCh') = ToSet(returnCh) \cup {rpkt[s]} /\ IsInjective(returnCh')
    BY <1>5, <2>1, ToSetAppend, AppendKeepsInjective DEF PathTypeOK, HeldOnce
  <2>3. PathTypeOK'
    <3>1. returnCh' \in Seq(Buffer) /\ Len(returnCh') <= ReturnCap
      BY <1>5, <2>1, DownCapAssumption DEF PathTypeOK
    <3>. QED BY <1>5, <3>1 DEF PathTypeOK
  <2>4. InHand'
    BY <1>5 DEF PathTypeOK, InHand
  <2>5. HeldOnce'
    BY <1>5, <2>1, <2>2 DEF PathTypeOK, HeldOnce
  <2>6. NoneLost'
    BY <1>5, <2>1, <2>2 DEF PathTypeOK, NoneLost
  <2>. QED BY <2>3, <2>4, <2>5, <2>6
<1>6. CASE OfferCancelled(s)
  <2>1. /\ rdr' \in [Session -> {"none", "read", "offer"}] /\ rdr'[s] # "offer"
        /\ \A t \in Session \ {s} : rdr'[t] = rdr[t]
        /\ sessDone' \in [Session -> BOOLEAN]
    BY <1>6 DEF OfferCancelled, ReaderEnds, PathTypeOK
  <2>. QED BY <1>6, <2>1, GiveBackInv DEF OfferCancelled
<1>7. CASE OfferDropped(s)
  <2>1. /\ rdr' \in [Session -> {"none", "read", "offer"}] /\ rdr'[s] # "offer"
        /\ \A t \in Session \ {s} : rdr'[t] = rdr[t]
        /\ sessDone' \in [Session -> BOOLEAN]
    BY <1>7 DEF OfferDropped, PathTypeOK
  <2>. QED BY <1>7, <2>1, GiveBackInv DEF OfferDropped
<1>. QED
  BY <1>1, <1>2, <1>3, <1>4, <1>5, <1>6, <1>7 DEF Reader, Offer

LEMMA WriteLoopInv ==
    ASSUME PathInv, WriteLoop \/ LearnAddr
    PROVE  PathInv'
<1>. USE DownBufferAssumption DEF PathInv
<1>1. CASE WaitAttached
  BY <1>1 DEF WaitAttached, PathTypeOK, InHand, HeldOnce, NoneLost
<1>2. CASE TakeReturned
  <2>. USE DEF TakeReturned
  <2>1. /\ wpkt' \in Buffer /\ returnCh' \in Seq(Buffer) /\ wpkt' \in ToSet(returnCh)
        /\ ToSet(returnCh') = ToSet(returnCh) \ {wpkt'} /\ IsInjective(returnCh')
        /\ Len(returnCh') <= ReturnCap
    BY <1>2, TakeHead, TakeHeadInjective, DownCapAssumption DEF PathTypeOK, HeldOnce
  <2>2. PathTypeOK' /\ InHand' /\ wpkt = NoBuf
    BY <1>2, <2>1 DEF PathTypeOK, InHand
  <2>3. HeldOnce'
    BY <1>2, <2>1 DEF PathTypeOK, HeldOnce
  <2>4. NoneLost'
    BY <1>2, <2>1, <2>2 DEF PathTypeOK, NoneLost
  <2>. QED BY <2>2, <2>3, <2>4
<1>3. CASE SeesStop
  BY <1>3 DEF SeesStop, PathTypeOK, InHand, HeldOnce, NoneLost
<1>4. ASSUME NEW next \in {"top", "exit"}, PutWritten(next) PROVE PathInv'
  <2>1. wpkt \in Buffer /\ pool' = pool \cup {wpkt} /\ wpkt' = NoBuf
    BY <1>4 DEF PutWritten, PathTypeOK, InHand
  <2>2. PathTypeOK' /\ InHand'
    BY <1>4, <2>1 DEF PutWritten, PathTypeOK, InHand
  <2>3. HeldOnce'
    BY <1>4, <2>1 DEF PutWritten, PathTypeOK, HeldOnce, ToSet
  <2>4. NoneLost'
    BY <1>4, <2>1 DEF PutWritten, PathTypeOK, NoneLost
  <2>. QED BY <2>2, <2>3, <2>4
<1>5. CASE Write \/ WriteError
  BY <1>4, <1>5 DEF Write, WriteError
<1>6. CASE LearnAddr
  BY <1>6 DEF LearnAddr, PathTypeOK, InHand, HeldOnce, NoneLost
<1>. QED
  BY <1>1, <1>2, <1>3, <1>5, <1>6 DEF WriteLoop

LEMMA ProcessEndsInv == ASSUME ProcessEnds PROVE PathInv'
<1>1. returnCh' \in Seq(Buffer) /\ Len(returnCh') <= ReturnCap /\ ToSet(returnCh') = {}
      /\ IsInjective(returnCh')
  BY DownCapAssumption DEF ProcessEnds, ToSet, IsInjective
<1>. QED
  BY <1>1, DownBufferAssumption
     DEF ProcessEnds, PathInv, PathTypeOK, InHand, HeldOnce, NoneLost

LEMMA PathUnchanged == ASSUME PathInv, UNCHANGED pathVars PROVE PathInv'
BY DEF PathInv, PathTypeOK, InHand, HeldOnce, NoneLost, pathVars

-------------------------------------------------------------------------------
DownInv == TunInv /\ PathInv

LEMMA InitInv == Init => DownInv
BY TunInitInv, PathInitInv DEF Init, DownInv

LEMMA StepInv == DownInv /\ [Next]_vars => DownInv'
<1>. SUFFICES ASSUME DownInv, [Next]_vars PROVE DownInv'
  OBVIOUS
<1>. USE DEF DownInv
<1>1. CASE Device /\ UNCHANGED pathVars
  BY <1>1, DeviceInv, PathUnchanged
<1>2. ASSUME NEW s \in Session, Reader(s) PROVE DownInv'
  <2>1. UNCHANGED tunVars
    BY <1>2 DEF Reader, StartReader, SessionFails, ReadPacket, ReadFails, Offer,
                OfferTaken, Taken, OfferCancelled, OfferDropped
  <2>. QED BY <1>2, <2>1, ReaderInv, TunUnchanged
<1>3. CASE WriteLoop \/ LearnAddr
  <2>1. UNCHANGED tunVars
    BY <1>3 DEF WriteLoop, WaitAttached, TakeReturned, SeesStop, Write, WriteError,
                PutWritten, LearnAddr
  <2>. QED BY <1>3, <2>1, WriteLoopInv, TunUnchanged
<1>4. CASE Exits \/ Crashes
  BY <1>4, LivesInv, ProcessEndsInv DEF Exits, Crashes, ProcessEnds
<1>5. CASE Restarts
  BY <1>5, LivesInv, PathUnchanged DEF Restarts
<1>6. CASE UNCHANGED vars
  BY <1>6, TunUnchanged, PathUnchanged DEF vars
<1>. QED
  BY <1>1, <1>2, <1>3, <1>4, <1>5, <1>6 DEF Next

-------------------------------------------------------------------------------
(* The refinement of PacketBuffer.  A step moves the buffers it names; the *)
(* owners of every other one are the same before and after.                *)
LEMMA OwnersFacts ==
    ASSUME NEW b \in Buffer
    PROVE  /\ Owners(b) \subseteq {"pool", "producer", "queue", "consumer"}
           /\ "pool" \in Owners(b) <=> b \in pool
           /\ "producer" \in Owners(b) <=> \E s \in Session : rpkt[s] = b
           /\ "queue" \in Owners(b) <=> b \in ToSet(returnCh)
           /\ "consumer" \in Owners(b) <=> b = wpkt
BY DEF Owners

HolderIsOwner ==
    \A b \in Buffer :
        /\ b \in pool => whoHolds[b] = "pool"
        /\ (\E s \in Session : rpkt[s] = b) => whoHolds[b] = "producer"
        /\ b \in ToSet(returnCh) => whoHolds[b] = "queue"
        /\ b = wpkt => whoHolds[b] = "consumer"

LEMMA WhoFacts == PathInv => HolderIsOwner
<1>. SUFFICES ASSUME PathInv, NEW b \in Buffer
              PROVE  /\ b \in pool => whoHolds[b] = "pool"
                     /\ (\E s \in Session : rpkt[s] = b) => whoHolds[b] = "producer"
                     /\ b \in ToSet(returnCh) => whoHolds[b] = "queue"
                     /\ b = wpkt => whoHolds[b] = "consumer"
  BY DEF HolderIsOwner
<1>1. ASSUME NEW o, Owners(b) = {o} PROVE whoHolds[b] = o
  <2>1. Cardinality(Owners(b)) = 1
    BY <1>1, FS_Singleton
  <2>. QED BY <1>1, <2>1 DEF whoHolds
<1>2. b # NoBuf
  BY DownBufferAssumption
<1>3. CASE b \in pool
  <2>1. b \notin ToSet(returnCh) /\ b # wpkt /\ ~\E s \in Session : rpkt[s] = b
    BY <1>2, <1>3 DEF PathInv, HeldOnce
  <2>2. Owners(b) = {"pool"}
    BY <1>3, <2>1, OwnersFacts
  <2>. QED BY <1>1, <2>1, <2>2
<1>4. CASE \E s \in Session : rpkt[s] = b
  <2>1. b \notin ToSet(returnCh) /\ b # wpkt /\ b \notin pool
    BY <1>2, <1>4 DEF PathInv, HeldOnce
  <2>2. Owners(b) = {"producer"}
    BY <1>4, <2>1, OwnersFacts
  <2>. QED BY <1>1, <2>1, <2>2
<1>5. CASE b \in ToSet(returnCh)
  <2>1. b \notin pool /\ b # wpkt /\ ~\E s \in Session : rpkt[s] = b
    BY <1>2, <1>5 DEF PathInv, HeldOnce
  <2>2. Owners(b) = {"queue"}
    BY <1>5, <2>1, OwnersFacts
  <2>. QED BY <1>1, <2>1, <2>2
<1>6. CASE b = wpkt
  <2>1. b \notin pool /\ b \notin ToSet(returnCh) /\ ~\E s \in Session : rpkt[s] = b
    BY <1>2, <1>6 DEF PathInv, HeldOnce
  <2>2. Owners(b) = {"consumer"}
    BY <1>6, <2>1, OwnersFacts
  <2>. QED BY <1>1, <2>1, <2>2
<1>. QED BY <1>3, <1>4, <1>5, <1>6

LEMMA WhoUnchanged ==
    ASSUME NEW b \in Buffer,
           b \in pool' <=> b \in pool,
           (\E s \in Session : rpkt'[s] = b) <=> (\E s \in Session : rpkt[s] = b),
           b \in ToSet(returnCh') <=> b \in ToSet(returnCh),
           b = wpkt' <=> b = wpkt
    PROVE  whoHolds'[b] = whoHolds[b]
<1>1. Owners(b)' = Owners(b)
  BY DEF Owners
<1>. QED BY <1>1 DEF whoHolds

LEMMA Moved ==
    ASSUME NEW b \in Buffer, NEW to,
           whoHolds'[b] = to,
           \A c \in Buffer \ {b} : whoHolds'[c] = whoHolds[c]
    PROVE  whoHolds' = [whoHolds EXCEPT ![b] = to]
<1>1. /\ whoHolds = [c \in Buffer |-> whoHolds[c]]
      /\ whoHolds' = [c \in Buffer |-> whoHolds'[c]]
  BY DEF whoHolds
<1>. QED BY <1>1

LEMMA ReaderMoves ==
    ASSUME PathInv, HolderIsOwner, HolderIsOwner', NEW s \in Session, Reader(s)
    PROVE  PB!Next \/ UNCHANGED whoHolds
<1>1. CASE StartReader(s) \/ SessionFails(s) \/ ReadFails(s)
  BY <1>1, WhoUnchanged DEF StartReader, SessionFails, ReadFails, whoHolds
<1>2. CASE ReadPacket(s)
  <2>1. PICK b \in pool : rpkt' = [rpkt EXCEPT ![s] = b] /\ pool' = pool \ {b}
    BY <1>2 DEF ReadPacket
  <2>2. b \in Buffer /\ rpkt[s] = NoBuf /\ rpkt'[s] = b
    BY <1>2, <2>1 DEF ReadPacket, PathInv, PathTypeOK, InHand
  <2>3. whoHolds[b] = "pool" /\ whoHolds'[b] = "producer"
    BY <2>1, <2>2 DEF HolderIsOwner
  <2>4. ASSUME NEW c \in Buffer \ {b} PROVE whoHolds'[c] = whoHolds[c]
    <3>1. (\E t \in Session : rpkt'[t] = c) <=> (\E t \in Session : rpkt[t] = c)
      BY <2>1, <2>2, <2>4, DownBufferAssumption DEF PathInv, PathTypeOK
    <3>. QED BY <1>2, <2>1, <2>4, <3>1, WhoUnchanged DEF ReadPacket
  <2>5. PB!Get(b)
    BY <2>2, <2>3, <2>4, Moved DEF PB!Get, PB!Move
  <2>. QED BY <2>2, <2>5 DEF PB!Next
<1>3. CASE OfferTaken(s)
  <2>. USE DEF OfferTaken, Taken
  <2>. DEFINE b == rpkt[s]
  <2>1. b \in Buffer /\ rpkt' = [rpkt EXCEPT ![s] = NoBuf]
    BY <1>3 DEF PathInv, PathTypeOK, InHand
  <2>2. ToSet(returnCh') = ToSet(returnCh) \cup {b}
    BY <1>3, <2>1, ToSetAppend DEF PathInv, PathTypeOK
  <2>3. whoHolds[b] = "producer" /\ whoHolds'[b] = "queue"
    BY <2>1, <2>2 DEF HolderIsOwner
  <2>4. ASSUME NEW c \in Buffer \ {b} PROVE whoHolds'[c] = whoHolds[c]
    <3>1. (\E t \in Session : rpkt'[t] = c) <=> (\E t \in Session : rpkt[t] = c)
      BY <2>1, <2>4, DownBufferAssumption DEF PathInv, PathTypeOK
    <3>. QED BY <1>3, <2>2, <2>4, <3>1, WhoUnchanged
  <2>5. PB!Publish(b)
    BY <2>1, <2>3, <2>4, Moved DEF PB!Publish, PB!Move
  <2>. QED BY <2>1, <2>5 DEF PB!Next
<1>4. CASE OfferCancelled(s) \/ OfferDropped(s)
  <2>. DEFINE b == rpkt[s]
  <2>1. /\ b \in Buffer /\ rpkt' = [rpkt EXCEPT ![s] = NoBuf] /\ pool' = pool \cup {b}
        /\ UNCHANGED <<returnCh, wpkt>>
    BY <1>4 DEF OfferCancelled, OfferDropped, GiveBack, PathInv, PathTypeOK, InHand
  <2>2. whoHolds[b] = "producer" /\ whoHolds'[b] = "pool"
    BY <2>1 DEF HolderIsOwner
  <2>3. ASSUME NEW c \in Buffer \ {b} PROVE whoHolds'[c] = whoHolds[c]
    <3>1. (\E t \in Session : rpkt'[t] = c) <=> (\E t \in Session : rpkt[t] = c)
      BY <2>1, <2>3, DownBufferAssumption DEF PathInv, PathTypeOK
    <3>. QED BY <2>1, <2>3, <3>1, WhoUnchanged
  <2>4. PB!Put(b)
    BY <2>1, <2>2, <2>3, Moved DEF PB!Put, PB!Move, PB!Holders
  <2>. QED BY <2>1, <2>4 DEF PB!Next
<1>. QED
  BY <1>1, <1>2, <1>3, <1>4 DEF Reader, Offer

LEMMA WriteLoopMoves ==
    ASSUME PathInv, HolderIsOwner, HolderIsOwner', WriteLoop \/ LearnAddr
    PROVE  PB!Next \/ UNCHANGED whoHolds
<1>1. CASE WaitAttached \/ SeesStop \/ LearnAddr
  BY <1>1, WhoUnchanged DEF WaitAttached, SeesStop, LearnAddr, whoHolds
<1>2. CASE TakeReturned
  <2>. USE DEF TakeReturned
  <2>. DEFINE b == Head(returnCh)
  <2>1. /\ b \in Buffer /\ b \in ToSet(returnCh) /\ wpkt = NoBuf
        /\ ToSet(returnCh') = ToSet(returnCh) \ {b}
    BY <1>2, TakeHead, TakeHeadInjective DEF PathInv, PathTypeOK, HeldOnce, InHand
  <2>2. whoHolds[b] = "queue" /\ whoHolds'[b] = "consumer"
    BY <1>2, <2>1 DEF HolderIsOwner
  <2>3. ASSUME NEW c \in Buffer \ {b} PROVE whoHolds'[c] = whoHolds[c]
    BY <1>2, <2>1, <2>3, WhoUnchanged, DownBufferAssumption
  <2>4. PB!Take(b)
    BY <2>1, <2>2, <2>3, Moved DEF PB!Take, PB!Move
  <2>. QED BY <2>1, <2>4 DEF PB!Next
<1>3. CASE Write \/ WriteError
  <2>. DEFINE b == wpkt
  <2>1. /\ b \in Buffer /\ pool' = pool \cup {b} /\ wpkt' = NoBuf
        /\ UNCHANGED <<rpkt, returnCh>>
    BY <1>3 DEF Write, WriteError, PutWritten, PathInv, PathTypeOK, InHand
  <2>2. whoHolds[b] = "consumer" /\ whoHolds'[b] = "pool"
    BY <2>1 DEF HolderIsOwner
  <2>3. ASSUME NEW c \in Buffer \ {b} PROVE whoHolds'[c] = whoHolds[c]
    BY <2>1, <2>3, WhoUnchanged, DownBufferAssumption
  <2>4. PB!Put(b)
    BY <2>1, <2>2, <2>3, Moved DEF PB!Put, PB!Move, PB!Holders
  <2>. QED BY <2>1, <2>4 DEF PB!Next
<1>. QED BY <1>1, <1>2, <1>3 DEF WriteLoop

LEMMA AllInPool == PathInv /\ pool = Buffer => whoHolds = [b \in Buffer |-> "pool"]
<1>. SUFFICES ASSUME PathInv, pool = Buffer
              PROVE  whoHolds = [b \in Buffer |-> "pool"]
  OBVIOUS
<1>1. \A b \in Buffer : whoHolds[b] = "pool"
  BY WhoFacts DEF HolderIsOwner
<1>. QED BY <1>1 DEF whoHolds

LEMMA StepMoves == DownInv /\ DownInv' /\ [Next]_vars => [PB!Next]_whoHolds
<1>. SUFFICES ASSUME DownInv, DownInv', [Next]_vars
              PROVE  PB!Next \/ UNCHANGED whoHolds
  OBVIOUS
<1>0. PathInv /\ HolderIsOwner /\ PathInv'
  BY WhoFacts DEF DownInv
<1>1. HolderIsOwner'
  BY <1>0, WhoFacts, PTL
<1>2. CASE UNCHANGED pathVars
  BY <1>2, WhoUnchanged DEF pathVars, whoHolds
<1>3. ASSUME NEW s \in Session, Reader(s) PROVE PB!Next \/ UNCHANGED whoHolds
  BY <1>0, <1>1, <1>3, ReaderMoves
<1>4. CASE WriteLoop \/ LearnAddr
  BY <1>0, <1>1, <1>4, WriteLoopMoves
<1>5. CASE Exits \/ Crashes
  <2>1. \A b \in Buffer : whoHolds'[b] = "pool"
    BY <1>1, <1>5 DEF Exits, Crashes, ProcessEnds, HolderIsOwner
  <2>2. whoHolds' = [b \in Buffer |-> whoHolds'[b]]
    BY DEF whoHolds
  <2>. QED BY <2>1, <2>2 DEF PB!Next, PB!Restart
<1>. QED
  BY <1>2, <1>3, <1>4, <1>5 DEF Next, Restarts, vars

-------------------------------------------------------------------------------
(* Every variable keeps its type, and ReturnCh its capacity.               *)
THEOREM TypeCorrect == Spec => []TypeOK
<1>1. DownInv => TypeOK
  BY DEF DownInv, TunInv, PathInv, PathTypeOK, TypeOK
<1>. QED
  BY <1>1, InitInv, StepInv, PTL DEF Spec

(* A rule left in the kernel by a process that crashed, or exited before   *)
(* its cleanup had run, never makes the next start fail.                   *)
THEOREM RespawnWorks == Spec => []LeftoversNeverBlock
<1>1. DownInv => LeftoversNeverBlock
  BY DEF DownInv, TunInv
<1>. QED
  BY <1>1, InitInv, StepInv, PTL DEF Spec

(* While a tunnel is attached the LAN has its rule, route and link.        *)
THEOREM LanStaysRouted == Spec => []LanRouted
<1>1. DownInv => LanRouted
  BY DEF DownInv, TunInv, TunTypeOK, Attached, Configured, LanRouted
<1>. QED
  BY <1>1, InitInv, StepInv, PTL DEF Spec

(* A cleanup none of whose commands failed leaves nothing in the kernel.   *)
THEOREM CleanupCorrect == Spec => []CleanupComplete
<1>1. DownInv => CleanupComplete
  BY DEF DownInv, TunInv, TunTypeOK, Cleaned, CleanupComplete
<1>. QED
  BY <1>1, InitInv, StepInv, PTL DEF Spec

(* Downlink implements PacketBuffer: no buffer is held twice or lost on    *)
(* its way from a Reader to writeLoop, whatever ends the sessions or the   *)
(* process in between.                                                     *)
THEOREM Refinement == Spec => DownlinkBufferLife
<1>1. Init => PB!Init
  BY PathInitInv, AllInPool DEF Init, PB!Init
<1>. QED
  BY <1>1, InitInv, StepInv, StepMoves, PTL DEF Spec, DownlinkBufferLife, PB!Spec

-------------------------------------------------------------------------------
(* The safety halves of the liveness properties.                           *)

(* Only a stop of the client ends writeLoop: it survives every write error,*)
(* so what ReturnCh holds has somebody to take it as long as the client    *)
(* runs; and it leaves its wait only for a client that is attached.        *)
WriterLives ==
    alive => /\ wpc = "exit" => stopped
             /\ wpc \in {"top", "write"} => ready

LoopState == WriterLives /\ (~alive => wpc = "wait")

LEMMA LoopInit == Init => LoopState
BY DEF Init, LoopState, WriterLives

(* Within one life of the process neither is taken back.                   *)
LEMMA DeviceKeeps ==
    ASSUME Device
    PROVE  alive' = alive /\ (stopped => stopped') /\ (ready => ready')
<1>1. CASE TakeConfig \/ OpenTun \/ Attach
  BY <1>1 DEF TakeConfig, OpenTun, GiveUp, Attach
<1>2. CASE AddrReplace \/ LinkUp \/ RouteReplace \/ RuleAdd \/ Forward
  BY <1>2 DEF AddrReplace, LinkUp, RouteReplace, RuleAdd, Forward, Checked, GiveUp
<1>3. CASE RouteFlush \/ RuleDel
  BY <1>3 DEF RouteFlush, RuleDel, Ignored
<1>4. CASE Cleanup
  BY <1>4 DEF Cleanup, CleanupStarts, CloseFile, CleanRule, CleanRoute, CleanLink,
              CleanupCommand
<1>5. CASE EnterRead \/ ReadReturns \/ Stop
  BY <1>5 DEF EnterRead, ReadReturns, Stop
<1>. QED BY <1>1, <1>2, <1>3, <1>4, <1>5 DEF Device, Configure

LEMMA LoopStep == LoopState /\ [Next]_vars => LoopState'
<1>. SUFFICES ASSUME LoopState, [Next]_vars PROVE LoopState'
  OBVIOUS
<1>. USE DEF LoopState, WriterLives, pathVars, tunVars
<1>1. CASE Device /\ UNCHANGED pathVars
  BY <1>1, DeviceKeeps
<1>2. ASSUME NEW s \in Session, Reader(s) PROVE LoopState'
  BY <1>2 DEF Reader, StartReader, SessionFails, ReadPacket, ReadFails, Offer,
              OfferTaken, Taken, OfferCancelled, OfferDropped
<1>3. CASE WriteLoop \/ LearnAddr
  BY <1>3 DEF WriteLoop, WaitAttached, TakeReturned, SeesStop, Write, WriteError,
              PutWritten, LearnAddr
<1>4. CASE Exits \/ Crashes
  BY <1>4 DEF Exits, Crashes, ProcessEnds, Dies
<1>5. CASE Restarts
  BY <1>5 DEF Restarts, Respawns
<1>6. CASE UNCHANGED vars
  BY <1>6 DEF vars
<1>. QED BY <1>1, <1>2, <1>3, <1>4, <1>5, <1>6 DEF Next

(* writeLoop is there to empty ReturnCh for as long as the client runs:    *)
(* the safety half of DownlinkFlows.                                       *)
THEOREM WriterStays == Spec => []WriterLives
<1>1. LoopState => WriterLives
  BY DEF LoopState
<1>. QED
  BY <1>1, LoopInit, LoopStep, PTL DEF Spec

(* After a stop readLoop sits in a Read only while the cleanup is still to *)
(* delete the link, or has failed to: it is never left in a Read of a link *)
(* that nobody will take away.                                             *)
ReadWillEnd ==
    alive /\ stopped /\ inRead =>
        pc = "attached" /\ (cpc # "done" \/ ~kernel["link"] \/ failed)

(* A stopped client never waits in the Read of a TUN nobody removes: the   *)
(* safety half of StopEndsProcess.                                         *)
THEOREM ReadEnds == Spec => []ReadWillEnd
<1>1. DownInv => ReadWillEnd
  BY DEF DownInv, TunInv, TunTypeOK, OnlyRawTun, Attached, Cleaned, ReadWillEnd
<1>. QED
  BY <1>1, InitInv, StepInv, PTL DEF Spec

===============================================================================
