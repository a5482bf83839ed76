----------------------------- MODULE SessionProofs -----------------------------
(***************************************************************************)
(* What TLAPS proves of Session, for any finite set of calls and any       *)
(* capacity of handshakeSem.                                               *)
(***************************************************************************)
EXTENDS Session, FiniteSetTheorems, TLAPS

-------------------------------------------------------------------------------
(* The inductive invariant.  A call holds a token of handshakeSem, or is   *)
(* counted as active, exactly while its pc lies between the two steps, so  *)
(* the counters are the sizes of two sets of calls.  The goroutines that   *)
(* use the relay are gone from the last wait on because the two proxy      *)
(* goroutines live only before the first one.                              *)
Places == {"idle", "gate", "allocate", "certificate", "sem", "client",
           "handshake", "ask", "register", "run", "join", "closeConn",
           "closePipes", "closeRelay", "returned"}
Closing == {"closeConn", "closePipes", "closeRelay", "returned"}

Holding == {s \in Session : pc[s] \in {"client", "handshake"}}
Counted == {s \in Session : pc[s] \in {"ask", "register", "run", "join", "closeConn"}}

Ended ==
    \A s \in Session :
        /\ live[s] \cap ProxyGoroutines # {} => pc[s] = "run"
        /\ deadline[s] = "over" =>
              pc[s] \in {"run", "join"} \cup Closing /\ "reader" \notin live[s]
        /\ deadline[s] = "over" /\ pc[s] \in Closing => live[s] \subseteq {"disconnect"}

Inv == TypeOK /\ GivesBack /\ Ended

(* The size of a set of calls that one call joins or leaves.               *)
LEMMA Counts ==
    ASSUME NEW S \in SUBSET Session, NEW s \in Session
    PROVE  /\ Cardinality(S) \in 0..Cardinality(Session) /\ Cardinality(Session) \in Nat
           /\ s \notin S => Cardinality(S \cup {s}) = Cardinality(S) + 1
           /\ s \in S => Cardinality(S \ {s}) = Cardinality(S) - 1 /\ Cardinality(S) > 0
<1>1. IsFiniteSet(Session) /\ IsFiniteSet(S)
  BY SessionAssumption, FS_Subset
<1>2. /\ Cardinality(Session) \in Nat /\ Cardinality(S) \in Nat
      /\ Cardinality(S) <= Cardinality(Session)
  BY <1>1, FS_Subset, FS_CardinalityType
<1>3. s \notin S => Cardinality(S \cup {s}) = Cardinality(S) + 1
  BY <1>1, FS_AddElement
<1>4. s \in S => Cardinality(S \ {s}) = Cardinality(S) - 1
  BY <1>1, FS_RemoveElement
<1>5. s \in S => Cardinality(S) # 0
  BY <1>1, FS_EmptySet
<1>. QED BY <1>2, <1>3, <1>4, <1>5

(* A call changes its place.                                               *)
LEMMA Moves ==
    ASSUME TypeOK, NEW s \in Session, NEW p \in Places, GoesTo(s, p)
    PROVE  /\ pc' \in [Session -> Places] /\ pc'[s] = p
           /\ \A t \in Session \ {s} : pc'[t] = pc[t]
           /\ Holding' = IF p \in {"client", "handshake"} THEN Holding \cup {s}
                                                          ELSE Holding \ {s}
           /\ Counted' = IF p \in {"ask", "register", "run", "join", "closeConn"}
                           THEN Counted \cup {s} ELSE Counted \ {s}
<1>1. pc' \in [Session -> Places] /\ pc'[s] = p /\ \A t \in Session \ {s} : pc'[t] = pc[t]
  BY DEF TypeOK, GoesTo, Places
<1>. QED BY <1>1 DEF Holding, Counted

LEMMA KeepsHolding ==
    ASSUME TypeOK, NEW s \in Session, NEW p \in Places, GoesTo(s, p),
           pc[s] \in {"client", "handshake"} <=> p \in {"client", "handshake"}
    PROVE  Holding' = Holding
<1>1. pc'[s] = p /\ \A t \in Session \ {s} : pc'[t] = pc[t]
  BY Moves
<1>. QED BY <1>1 DEF Holding

LEMMA KeepsCounted ==
    ASSUME TypeOK, NEW s \in Session, NEW p \in Places, GoesTo(s, p),
           pc[s] \in {"ask", "register", "run", "join", "closeConn"}
               <=> p \in {"ask", "register", "run", "join", "closeConn"}
    PROVE  Counted' = Counted
<1>1. pc'[s] = p /\ \A t \in Session \ {s} : pc'[t] = pc[t]
  BY Moves
<1>. QED BY <1>1 DEF Counted

LEMMA GivesBackHolds ==
    GivesBack => /\ mode # "ping" => sem = Cardinality(Holding)
                 /\ active = Cardinality(Counted)
                 /\ \A s \in registered : pc[s] \in {"run", "join", "closeConn"}
BY DEF GivesBack, Holding, Counted

LEMMA GivesBackNext ==
    ASSUME mode' # "ping" => sem' = Cardinality(Holding'),
           active' = Cardinality(Counted'),
           \A s \in registered' : pc'[s] \in {"run", "join", "closeConn"}
    PROVE  GivesBack'
BY DEF GivesBack, Holding, Counted

-------------------------------------------------------------------------------
LEMMA InitInv == Init => Inv
<1>. SUFFICES ASSUME Init PROVE Inv
  OBVIOUS
<1>1. Holding = {} /\ Counted = {} /\ Cardinality({}) = 0
  BY FS_EmptySet DEF Init, Holding, Counted
<1>2. Cardinality(Session) \in Nat
  BY SessionAssumption, FS_CardinalityType
<1>3. TypeOK
  <2>1. sem \in 0..HandshakeMax /\ active \in 0..Cardinality(Session)
    BY <1>2, HandshakeAssumption DEF Init
  <2>. QED BY <2>1 DEF Init, TypeOK
<1>4. GivesBack
  BY <1>1 DEF Init, GivesBack, Holding, Counted
<1>5. Ended
  BY DEF Init, Ended
<1>. QED BY <1>3, <1>4, <1>5 DEF Inv

(* The steps that move no call and touch nothing shared.                   *)
LEMMA CountsKept ==
    ASSUME GivesBack, UNCHANGED <<mode, sem, active, registered, pc>>
    PROVE  GivesBack'
BY DEF GivesBack

(* The steps that move a call between places that hold and count nothing.  *)
LEMMA MovesFree ==
    ASSUME Inv, NEW s \in Session, NEW p \in Places, GoesTo(s, p),
           pc[s] \notin {"client", "handshake", "ask", "register", "run", "join", "closeConn"},
           p \notin {"client", "handshake", "ask", "register", "run", "join", "closeConn"},
           UNCHANGED <<mode, sem, active, registered>>
    PROVE  GivesBack'
<1>1. Holding' = Holding /\ Counted' = Counted
  <2>1. s \notin Holding /\ s \notin Counted
    BY DEF Holding, Counted
  <2>. QED BY <2>1, Moves DEF Inv
<1>2. s \notin registered /\ \A t \in Session \ {s} : pc'[t] = pc[t]
  BY Moves DEF Inv, GivesBack
<1>. QED BY <1>1, <1>2 DEF Inv, TypeOK, GivesBack, Holding, Counted

LEMMA SetupInv ==
    ASSUME Inv, NEW s \in Session, Setup(s)
    PROVE  Inv'
<1>. USE DEF Inv
<1>0. /\ Holding \subseteq Session /\ Counted \subseteq Session
      /\ s \in Holding <=> pc[s] \in {"client", "handshake"}
      /\ s \in Counted <=> pc[s] \in {"ask", "register", "run", "join", "closeConn"}
      /\ pc[s] \notin {"run", "join", "closeConn"} => s \notin registered
  BY DEF Holding, Counted, GivesBack
<1>1. CASE Dial(s) \/ PassGate(s) \/ LeaveGate(s) \/ AllocateFails(s) \/ Certificate(s)
           \/ GiveUpSem(s)
  <2>1. PICK p \in {"gate", "allocate", "returned", "client", "sem", "closePipes"} :
          /\ GoesTo(s, p)
          /\ p = "client" => pc[s] = "certificate" /\ mode = "ping"
    BY <1>1 DEF Dial, PassGate, LeaveGate, AllocateFails, Certificate, GiveUpSem
  <2>2. /\ pc[s] \in {"idle", "gate", "allocate", "certificate", "sem"}
        /\ UNCHANGED <<procVars, sharedVars, writerVars, cancelled, live, armed, readerAt, deadline, closed>>
    BY <1>1 DEF Dial, PassGate, LeaveGate, AllocateFails, Certificate, GiveUpSem
  <2>3. TypeOK' /\ Ended'
    <3>1. /\ pc' \in [Session -> Places] /\ pc'[s] = p /\ p # "run"
          /\ \A t \in Session \ {s} : pc'[t] = pc[t]
      BY <2>1, Moves DEF Places
    <3>. QED
      BY <2>2, <3>1 DEF TypeOK, Ended, Places, Closing, procVars, writerVars, sharedVars
  <2>4. GivesBack'
    <3>1. CASE p # "client"
      BY <2>1, <2>2, <3>1, MovesFree DEF Places, procVars, writerVars, sharedVars
    <3>2. CASE p = "client"
      <4>0. TypeOK /\ GoesTo(s, "client") /\ "client" \in Places /\ pc[s] = "certificate"
            /\ mode = "ping"
        BY <2>1, <3>2 DEF Places
      <4>1. Counted' = Counted /\ mode' = "ping" /\ \A t \in Session \ {s} : pc'[t] = pc[t]
        <5>1. Counted' = Counted
          BY <4>0, KeepsCounted
        <5>2. \A t \in Session \ {s} : pc'[t] = pc[t]
          BY <4>0, Moves
        <5>. QED BY <2>2, <4>0, <5>1, <5>2 DEF procVars, writerVars
      <4>2. UNCHANGED <<active, registered>> /\ s \notin registered
        BY <1>0, <2>2 DEF sharedVars
      <4>3. \A t \in registered' : pc'[t] \in {"run", "join", "closeConn"}
        BY <4>1, <4>2 DEF GivesBack, TypeOK
      <4>. QED BY <4>1, <4>2, <4>3 DEF GivesBack, Counted
    <3>. QED BY <3>1, <3>2
  <2>. QED BY <2>3, <2>4
<1>2. CASE Allocate(s)
  <2>. DEFINE p == IF Direct THEN "ask" ELSE "certificate"
  <2>1. GoesTo(s, p) /\ p \in Places /\ pc[s] = "allocate"
        /\ UNCHANGED <<procVars, writerVars, sem, registered, cancelled, readerAt, deadline, closed>>
    BY <1>2 DEF Allocate, Places
  <2>2. /\ pc' \in [Session -> Places] /\ pc'[s] = p
        /\ \A t \in Session \ {s} : pc'[t] = pc[t]
        /\ Holding' = Holding
        /\ Counted' = IF Direct THEN Counted \cup {s} ELSE Counted
    <3>0. TypeOK
      OBVIOUS
    <3>1. /\ pc' \in [Session -> Places] /\ pc'[s] = p
          /\ \A t \in Session \ {s} : pc'[t] = pc[t]
      BY <2>1, <3>0, Moves
    <3>2. Holding' = Holding
      BY <2>1, <3>0, KeepsHolding
    <3>3. CASE Direct
      BY <2>1, <3>0, <3>1, <3>2, <3>3, Moves
    <3>4. CASE ~Direct
      BY <2>1, <3>0, <3>1, <3>2, <3>4, KeepsCounted
    <3>. QED BY <3>3, <3>4
  <2>3. active' = Cardinality(Counted')
    BY <1>0, <1>2, <2>1, <2>2, Counts DEF Allocate, GivesBack, Counted
  <2>4. Cardinality(Counted') \in 0..Cardinality(Session)
    BY Counts DEF Counted
  <2>5. /\ live'[s] \subseteq {"binding"} \cup RelayGoroutines
        /\ live' \in [Session -> SUBSET Goroutines] /\ armed' \in [Session -> SUBSET {"relay", "conn"}]
        /\ \A t \in Session \ {s} : live'[t] = live[t]
    BY <1>2 DEF Allocate, TypeOK, Goroutines
  <2>6. TypeOK'
    BY <2>1, <2>2, <2>3, <2>4, <2>5 DEF TypeOK, Places, procVars, writerVars
  <2>7. GivesBack'
    <3>1. \A t \in registered' : pc'[t] \in {"run", "join", "closeConn"}
      BY <1>0, <2>1, <2>2, GivesBackHolds DEF TypeOK
    <3>. QED BY <2>1, <2>2, <2>3, <3>1, GivesBackHolds, GivesBackNext DEF procVars, writerVars
  <2>8. Ended'
    BY <2>1, <2>2, <2>5 DEF Ended, Closing, RelayGoroutines, ProxyGoroutines
  <2>. QED BY <2>6, <2>7, <2>8
<1>3. ASSUME NEW p \in {"client", "ask", "closePipes"}, GoesTo(s, p),
             pc[s] \in {"sem", "client", "handshake"},
             p = "client" => pc[s] = "sem" /\ sem < HandshakeMax /\ sem' = sem + 1,
             p = "ask" => mode # "ping" /\ pc[s] = "handshake",
             p # "client" => pc[s] # "sem" /\ Release,
             active' = IF p = "ask" THEN active + 1 ELSE active,
             UNCHANGED <<procVars, writerVars, registered, cancelled, live, armed, readerAt, deadline, closed>>
      PROVE  Inv'
  <2>1. /\ pc' \in [Session -> Places] /\ pc'[s] = p
        /\ \A t \in Session \ {s} : pc'[t] = pc[t]
        /\ Holding' = IF p = "client" THEN Holding \cup {s} ELSE Holding \ {s}
        /\ Counted' = IF p = "ask" THEN Counted \cup {s} ELSE Counted \ {s}
    BY <1>3, Moves DEF Places
  <2>2. active' = Cardinality(Counted')
    <3>1. active = Cardinality(Counted) /\ s \notin Counted
      BY <1>0, <1>3, GivesBackHolds
    <3>2. CASE p = "ask"
      BY <1>0, <1>3, <2>1, <3>1, <3>2, Counts
    <3>3. CASE p # "ask"
      <4>1. Counted' = Counted
        BY <2>1, <3>1, <3>3
      <4>. QED BY <1>3, <3>1, <3>3, <4>1
    <3>. QED BY <3>2, <3>3
  <2>3. mode # "ping" => sem' = Cardinality(Holding')
    <3>. SUFFICES ASSUME mode # "ping" PROVE sem' = Cardinality(Holding')
      OBVIOUS
    <3>1. sem = Cardinality(Holding)
      BY GivesBackHolds
    <3>2. CASE p = "client"
      BY <1>0, <1>3, <2>1, <3>1, <3>2, Counts
    <3>3. CASE p # "client"
      BY <1>0, <1>3, <2>1, <3>1, <3>3, Counts DEF Release
    <3>. QED BY <3>2, <3>3
  <2>4. sem' \in 0..HandshakeMax
    <3>1. CASE mode = "ping"
      BY <1>3, <3>1, HandshakeAssumption DEF Release, TypeOK
    <3>2. CASE mode # "ping"
      <4>1. sem' \in Nat
        <5>1. Holding' \in SUBSET Session
          BY DEF Holding
        <5>2. Cardinality(Holding') \in 0..Cardinality(Session) /\ Cardinality(Session) \in Nat
          BY <5>1, Counts
        <5>. QED BY <2>3, <3>2, <5>2
      <4>. QED BY <1>3, <3>2, <4>1, HandshakeAssumption DEF Release, TypeOK
    <3>. QED BY <3>1, <3>2
  <2>5. active' \in 0..Cardinality(Session)
    BY <2>2, Counts DEF Counted
  <2>6. TypeOK' /\ Ended'
    BY <1>3, <2>1, <2>4, <2>5 DEF TypeOK, Ended, Places, Closing, procVars, writerVars
  <2>7. \A t \in registered' : pc'[t] \in {"run", "join", "closeConn"}
    BY <1>0, <1>3, <2>1, GivesBackHolds DEF TypeOK
  <2>8. GivesBack'
    BY <1>3, <2>2, <2>3, <2>7, GivesBackNext DEF procVars, writerVars
  <2>. QED BY <2>6, <2>8
<1>4. CASE Acquire(s)
  BY <1>3, <1>4 DEF Acquire
<1>5. CASE ClientFails(s)
  BY <1>3, <1>5 DEF ClientFails
<1>6. CASE HandshakeDone(s)
  BY <1>3, <1>6 DEF HandshakeDone
<1>7. CASE HandshakeFails(s)
  BY <1>3, <1>7 DEF HandshakeFails
<1>8. CASE ClientMade(s)
  <2>1. /\ pc[s] = "client" /\ GoesTo(s, "handshake")
        /\ UNCHANGED <<procVars, sharedVars, writerVars, cancelled, live, armed, readerAt, deadline, closed>>
    BY <1>8 DEF ClientMade
  <2>2. /\ pc' \in [Session -> Places] /\ pc'[s] = "handshake"
        /\ \A t \in Session \ {s} : pc'[t] = pc[t]
        /\ Holding' = Holding /\ Counted' = Counted
    <3>1. TypeOK /\ "handshake" \in Places
      BY DEF Places
    <3>2. Holding' = Holding
      BY <2>1, <3>1, KeepsHolding
    <3>3. Counted' = Counted
      BY <2>1, <3>1, KeepsCounted
    <3>. QED BY <2>1, <3>1, <3>2, <3>3, Moves
  <2>3. TypeOK' /\ Ended'
    BY <2>1, <2>2 DEF TypeOK, Ended, Places, Closing, procVars, writerVars, sharedVars
  <2>4. \A t \in registered' : pc'[t] \in {"run", "join", "closeConn"}
    BY <1>0, <2>1, <2>2, GivesBackHolds DEF TypeOK, sharedVars
  <2>. QED BY <2>1, <2>2, <2>3, <2>4, GivesBackHolds, GivesBackNext DEF procVars, writerVars, sharedVars
<1>9. CASE Ask(s)
  <2>1. PICK p \in {"closeConn", "register"} : GoesTo(s, p)
    BY <1>9 DEF Ask
  <2>2. /\ pc[s] = "ask" /\ p \in Places
        /\ deadline' = [deadline EXCEPT ![s] = "none"]
        /\ UNCHANGED <<procVars, sharedVars, writerVars, cancelled, live, armed, readerAt, closed>>
    BY <1>9 DEF Ask, Places
  <2>3. /\ pc' \in [Session -> Places] /\ pc'[s] \in {"closeConn", "register"}
        /\ \A t \in Session \ {s} : pc'[t] = pc[t]
        /\ Holding' = Holding /\ Counted' = Counted
    <3>1. TypeOK
      OBVIOUS
    <3>2. Holding' = Holding
      BY <2>1, <2>2, <3>1, KeepsHolding
    <3>3. Counted' = Counted
      BY <2>1, <2>2, <3>1, KeepsCounted
    <3>. QED BY <2>1, <2>2, <3>1, <3>2, <3>3, Moves
  <2>4. TypeOK' /\ Ended'
    <3>1. TypeOK'
      BY <2>2, <2>3 DEF TypeOK, Places, procVars, writerVars, sharedVars
    <3>2. deadline'[s] = "none" /\ \A t \in Session \ {s} : deadline'[t] = deadline[t]
      BY <2>2 DEF TypeOK
    <3>3. Ended'
      BY <2>2, <2>3, <3>2 DEF Ended, Closing
    <3>. QED BY <3>1, <3>3
  <2>5. \A t \in registered' : pc'[t] \in {"run", "join", "closeConn"}
    BY <1>0, <2>2, <2>3, GivesBackHolds DEF TypeOK, sharedVars
  <2>. QED BY <2>1, <2>2, <2>3, <2>4, <2>5, GivesBackHolds, GivesBackNext DEF procVars, writerVars, sharedVars
<1>. QED
  BY <1>1, <1>2, <1>4, <1>5, <1>6, <1>7, <1>8, <1>9 DEF Setup

LEMMA RunsInv ==
    ASSUME Inv, NEW s \in Session, Runs(s)
    PROVE  Inv'
<1>. USE DEF Inv, procVars, writerVars, sharedVars
<1>1. CASE Register(s)
  <2>1. /\ pc[s] = "register" /\ GoesTo(s, "run") /\ registered' = registered \cup {s}
        /\ UNCHANGED <<procVars, writerVars, sem, active, cancelled, readerAt, deadline, closed>>
    BY <1>1 DEF Register
  <2>2. /\ pc' \in [Session -> Places] /\ pc'[s] = "run"
        /\ \A t \in Session \ {s} : pc'[t] = pc[t]
        /\ Holding' = Holding /\ Counted' = Counted
    BY <2>1, Moves DEF Places, Holding, Counted
  <2>3. /\ live' \in [Session -> SUBSET Goroutines]
        /\ armed' \in [Session -> SUBSET {"relay", "conn"}]
        /\ \A t \in Session \ {s} : live'[t] = live[t]
    BY <1>1 DEF Register, TypeOK, Goroutines, ProxyGoroutines
  <2>4. TypeOK'
    BY <2>1, <2>2, <2>3 DEF TypeOK, Places
  <2>5. Ended'
    BY <2>1, <2>2, <2>3 DEF Ended, Closing
  <2>6. \A t \in registered' : pc'[t] \in {"run", "join", "closeConn"}
    BY <2>1, <2>2, GivesBackHolds DEF TypeOK
  <2>. QED BY <2>1, <2>2, <2>4, <2>5, <2>6, GivesBackHolds, GivesBackNext
<1>2. ASSUME UNCHANGED <<mode, stopped, feeding, sem, active, registered, pc>>,
             cancelled' \in [Session -> BOOLEAN],
             live' \in [Session -> SUBSET Goroutines],
             \A t \in Session : live'[t] \subseteq live[t],
             armed' \in [Session -> SUBSET {"relay", "conn"}],
             queued' \in [Session -> BOOLEAN],
             writerAt' \in [Session -> {"loop", "drain"}],
             readerAt' \in [Session -> {"top", "read", "offer"}],
             deadline' \in [Session -> {"none", "far", "now", "over"}],
             \A t \in Session : deadline'[t] = "over" =>
                 deadline[t] = "over" \/ ("reader" \in live[t] /\ "reader" \notin live'[t]),
             closed' \in [Session -> SUBSET {"relay", "pipes"}]
      PROVE  Inv'
  <2>1. TypeOK'
    BY <1>2 DEF TypeOK
  <2>2. Ended'
    BY <1>2 DEF Ended, ProxyGoroutines, Closing
  <2>. QED BY <1>2, <2>1, <2>2, CountsKept
<1>. USE DEF TypeOK
<1>3. CASE RelayDeadline(s)
  BY <1>2, <1>3 DEF RelayDeadline
<1>4. CASE ConnDeadline(s)
  BY <1>2, <1>4 DEF ConnDeadline
<1>5. ASSUME NEW g, RelayGoroutineEnds(s, g) PROVE Inv'
  BY <1>2, <1>5 DEF RelayGoroutineEnds, Ends, Cancel
<1>6. ASSUME NEW g, SeesDone(s, g) PROVE Inv'
  BY <1>2, <1>6 DEF SeesDone, Ends
<1>7. CASE Feed(s) \/ WriterTakes(s) \/ WriteFails(s) \/ WriterSeesDone(s) \/ WriterDrains(s)
  <2>1. UNCHANGED <<procVars, sharedVars, callVars>>
    BY <1>7 DEF Feed, WriterTakes, WriteFails, WriterSeesDone, WriterDrains, Takes
  <2>2. queued' \in [Session -> BOOLEAN] /\ writerAt' \in [Session -> {"loop", "drain"}]
    <3>1. CASE Feed(s) \/ WriterSeesDone(s)
      BY <3>1 DEF Feed, WriterSeesDone
    <3>2. CASE WriterTakes(s) \/ WriteFails(s) \/ WriterDrains(s)
      BY <3>2 DEF WriterTakes, WriteFails, WriterDrains, Takes
    <3>. QED BY <1>7, <3>1, <3>2
  <2>. QED BY <1>2, <2>1, <2>2 DEF callVars
<1>8. CASE WriterExits(s)
  BY <1>2, <1>8 DEF WriterExits, Ends, Cancel
<1>9. CASE Disconnect(s)
  BY <1>2, <1>9 DEF Disconnect, Ends
<1>10. CASE Read(s)
  BY <1>2, <1>10 DEF Read
<1>11. ASSUME NEW place \in {"top", "offer"}, ReaderAt(s, place) PROVE Inv'
  BY <1>2, <1>11 DEF ReaderAt
<1>12. CASE ReaderEnds(s) /\ "reader" \in live[s]
  BY <1>2, <1>12 DEF ReaderEnds, Ends, Cancel
<1>13. CASE ReadAnswer(s) \/ ReadPacket(s) \/ Offered(s) \/ OfferSeesDone(s)
            \/ ReadTimesOut(s) \/ ReadCutShort(s) \/ ReadFails(s)
  BY <1>11, <1>12, <1>13
     DEF ReadAnswer, ReadPacket, Offered, OfferSeesDone, ReadTimesOut, ReadCutShort,
         ReadFails, Arrives, Reading, Offering
<1>. QED
  BY <1>1, <1>3, <1>4, <1>5, <1>6, <1>7, <1>8, <1>9, <1>10, <1>13
     DEF Runs, RelayCut, Writer

LEMMA LeaveInv ==
    ASSUME Inv, NEW s \in Session, Leave(s)
    PROVE  Inv'
<1>. USE DEF Inv, procVars, writerVars, sharedVars
<1>0. /\ Holding \subseteq Session /\ Counted \subseteq Session
      /\ s \in Holding <=> pc[s] \in {"client", "handshake"}
      /\ s \in Counted <=> pc[s] \in {"ask", "register", "run", "join", "closeConn"}
      /\ pc[s] \notin {"run", "join", "closeConn"} => s \notin registered
  BY DEF Holding, Counted, GivesBack
<1>1. ASSUME NEW p \in {"join", "closeConn"}, GoesTo(s, p), pc[s] \in {"run", "join"},
             pc[s] = "run" => p = "join" /\ live[s] \cap ProxyGoroutines = {},
             pc[s] = "join" =>
                p = "closeConn" /\ live[s] \cap (RelayGoroutines \cup {"binding"}) = {},
             cancelled' \in [Session -> BOOLEAN],
             UNCHANGED <<procVars, sharedVars, writerVars, live, armed, readerAt, deadline, closed>>
      PROVE  Inv'
  <2>1. /\ pc' \in [Session -> Places] /\ pc'[s] = p
        /\ \A t \in Session \ {s} : pc'[t] = pc[t]
        /\ Holding' = Holding /\ Counted' = Counted
    <3>1. p \in Places
      BY DEF Places
    <3>2. /\ pc' \in [Session -> Places] /\ pc'[s] = p
          /\ \A t \in Session \ {s} : pc'[t] = pc[t]
          /\ Holding' = Holding \ {s} /\ Counted' = Counted \cup {s}
      BY <1>1, <3>1, Moves
    <3>3. s \notin Holding /\ s \in Counted
      BY <1>0, <1>1
    <3>. QED BY <3>2, <3>3
  <2>2. TypeOK'
    BY <1>1, <2>1 DEF TypeOK, Places
  <2>3. Ended'
    <3>1. p = "closeConn" => live[s] \subseteq {"disconnect"}
      BY <1>1 DEF Ended, TypeOK, Goroutines, ProxyGoroutines, RelayGoroutines
    <3>2. live[s] \cap ProxyGoroutines = {}
      BY <1>1 DEF Ended
    <3>. QED BY <1>1, <2>1, <3>1, <3>2 DEF Ended, Closing
  <2>4. \A t \in registered' : pc'[t] \in {"run", "join", "closeConn"}
    BY <1>1, <2>1, GivesBackHolds DEF TypeOK
  <2>. QED BY <1>1, <2>1, <2>2, <2>3, <2>4, GivesBackHolds, GivesBackNext
<1>2. CASE ProxyWait(s)
  BY <1>1, <1>2 DEF ProxyWait, Cancel, TypeOK
<1>3. CASE Join(s)
  BY <1>1, <1>3 DEF Join, TypeOK
<1>4. CASE CloseConn(s)
  <2>1. PICK p \in {"closeRelay", "closePipes"} : GoesTo(s, p)
    BY <1>4 DEF CloseConn
  <2>2. /\ pc[s] = "closeConn" /\ registered' = registered \ {s} /\ active' = active - 1
        /\ armed' \in [Session -> SUBSET {"relay", "conn"}]
        /\ UNCHANGED <<procVars, writerVars, sem, cancelled, live, readerAt, deadline, closed>>
    BY <1>4 DEF CloseConn, TypeOK
  <2>3. /\ pc' \in [Session -> Places] /\ pc'[s] = p
        /\ \A t \in Session \ {s} : pc'[t] = pc[t]
        /\ Holding' = Holding /\ Counted' = Counted \ {s}
    <3>1. p \in Places /\ p \notin {"client", "handshake", "ask", "register", "run", "join", "closeConn"}
      BY DEF Places
    <3>2. /\ pc' \in [Session -> Places] /\ pc'[s] = p
          /\ \A t \in Session \ {s} : pc'[t] = pc[t]
          /\ Holding' = Holding \ {s} /\ Counted' = Counted \ {s}
      BY <2>1, <3>1, Moves
    <3>. QED BY <1>0, <2>2, <3>2
  <2>4. active' = Cardinality(Counted') /\ active' \in 0..Cardinality(Session)
    <3>1. active = Cardinality(Counted) /\ s \in Counted
      BY <1>0, <2>2, GivesBackHolds
    <3>2. /\ Cardinality(Counted) \in 0..Cardinality(Session) /\ Cardinality(Session) \in Nat
          /\ Cardinality(Counted \ {s}) = Cardinality(Counted) - 1 /\ Cardinality(Counted) > 0
      BY <1>0, <3>1, Counts
    <3>3. active' = Cardinality(Counted) - 1 /\ Cardinality(Counted') = Cardinality(Counted) - 1
      BY <2>2, <2>3, <3>1, <3>2
    <3>. QED BY <3>2, <3>3
  <2>5. TypeOK' /\ Ended'
    BY <2>2, <2>3, <2>4 DEF TypeOK, Ended, Places, Closing
  <2>6. \A t \in registered' : pc'[t] \in {"run", "join", "closeConn"}
    BY <2>2, <2>3, GivesBackHolds DEF TypeOK
  <2>. QED BY <2>2, <2>3, <2>4, <2>5, <2>6, GivesBackHolds, GivesBackNext
<1>5. CASE ClosePipes(s) \/ CloseRelay(s)
  <2>1. PICK p \in {"closeRelay", "returned"} : GoesTo(s, p)
    BY <1>5 DEF ClosePipes, CloseRelay
  <2>2. /\ pc[s] \in {"closePipes", "closeRelay"}
        /\ armed' \in [Session -> SUBSET {"relay", "conn"}]
        /\ cancelled' \in [Session -> BOOLEAN]
        /\ closed' \in [Session -> SUBSET {"relay", "pipes"}]
        /\ UNCHANGED <<procVars, sharedVars, writerVars, live, readerAt, deadline>>
    <3>1. CASE ClosePipes(s)
      BY <3>1 DEF ClosePipes, TypeOK
    <3>2. CASE CloseRelay(s)
      BY <3>2 DEF CloseRelay, Cancel, TypeOK
    <3>. QED BY <1>5, <3>1, <3>2
  <2>3. /\ pc' \in [Session -> Places] /\ pc'[s] = p
        /\ \A t \in Session \ {s} : pc'[t] = pc[t]
    BY <2>1, Moves DEF Places
  <2>4. TypeOK' /\ Ended'
    BY <2>2, <2>3 DEF TypeOK, Ended, Places, Closing
  <2>5. GivesBack'
    BY <2>1, <2>2, MovesFree DEF Places
  <2>. QED BY <2>4, <2>5
<1>. QED
  BY <1>2, <1>3, <1>4, <1>5 DEF Leave

LEMMA StepInv == Inv /\ [Next]_vars => Inv'
<1>. SUFFICES ASSUME Inv, [Next]_vars PROVE Inv'
  OBVIOUS
<1>1. CASE Stop \/ ReadLoopEnds
  BY <1>1, CountsKept DEF Stop, ReadLoopEnds, writerVars, Inv, TypeOK, Ended, callVars, sharedVars
<1>2. ASSUME NEW s \in Session, Setup(s) \/ Runs(s) \/ Leave(s) PROVE Inv'
  BY <1>2, SetupInv, RunsInv, LeaveInv
<1>3. CASE UNCHANGED vars
  BY <1>3, CountsKept DEF vars, Inv, TypeOK, Ended, callVars, sharedVars, procVars, writerVars
<1>. QED BY <1>1, <1>2, <1>3 DEF Next

-------------------------------------------------------------------------------
(* The variables keep their types; in particular handshakeSem holds at     *)
(* most its capacity, and ActiveConnections is never negative.             *)
THEOREM TypeCorrect == Spec => []TypeOK
<1>1. Inv => TypeOK
  BY DEF Inv
<1>. QED
  BY <1>1, InitInv, StepInv, PTL DEF Spec

(* Every way out of RunSession gives back the token, the count and the     *)
(* slot that were taken on the way in.                                     *)
THEOREM NothingKept == Spec => []GivesBack
<1>1. Inv => GivesBack
  BY DEF Inv
<1>. QED
  BY <1>1, InitInv, StepInv, PTL DEF Spec

(* A session that ran closes its connections when nobody uses them.        *)
THEOREM CloseCorrect == Spec => []ClosedWhenQuiet
<1>1. Inv => ClosedWhenQuiet
  BY DEF Inv, Ended, Closing, ClosedWhenQuiet
<1>. QED
  BY <1>1, InitInv, StepInv, PTL DEF Spec

-------------------------------------------------------------------------------
(* What a session that is over waits for.  The invariant follows the       *)
(* relay's goroutines from Allocate to the last deferred Close, and the    *)
(* Reader from one Read to the next.                                       *)
RelaysCut ==
    \A s \in Session : live[s] \cap RelayGoroutines # {} =>
        /\ ~Direct /\ pc[s] \notin {"idle", "gate", "allocate"}
        /\ pc[s] \in {"closeRelay", "returned"} => "pipes" \in closed[s]
        /\ pc[s] = "returned" => "relay" \in closed[s]
        /\ mode = "classic" /\ pc[s] \notin {"closeRelay", "returned"} =>
              "relay" \in armed[s] \/ {"relay", "pipes"} \subseteq closed[s]

PingEnds ==
    mode = "ping" =>
        \A s \in Session : pc[s] \notin {"ask", "register", "run", "join", "closeConn"}

ReaderTimed ==
    \A s \in Session :
        /\ Reading(s) => deadline[s] \in {"far", "now"}
        /\ "reader" \notin live[s] => readerAt[s] = "top"

WaitInv == TypeOK /\ Ended /\ RelaysCut /\ PingEnds /\ ReaderTimed

(* What ends a goroutine of the relay: the AfterFunc that is still to run, *)
(* or the deadline or Close of what it reads.                              *)
CutComes(s, g) ==
    \/ "relay" \in armed[s]
    \/ g = "relayIn" /\ "relay" \in closed[s]
    \/ g = "relayOut" /\ "pipes" \in closed[s]

(* Nobody waits for something that nothing ends: relayWg.Wait has only     *)
(* goroutines to wait for whose AfterFunc has run or still will, a Reader  *)
(* never reads without a deadline, whoever set it last (session.go:506,    *)
(* 628), and what an early return leaves running reads what is closed.     *)
WaitsEnd ==
    \A s \in Session :
        /\ pc[s] \in {"join", "returned"} =>
              \A g \in live[s] \cap RelayGoroutines : CutComes(s, g)
        /\ Reading(s) => deadline[s] \in {"far", "now"}

USE DEF procVars, sharedVars, writerVars, callVars

LEMMA WaitInit == Init => RelaysCut /\ PingEnds /\ ReaderTimed
BY DEF Init, RelaysCut, PingEnds, ReaderTimed, Reading

(* A step of one call leaves the others alone.                             *)
Alone(s) ==
    /\ mode' = mode
    /\ \A t \in Session \ {s} :
          /\ pc'[t] = pc[t] /\ live'[t] = live[t] /\ armed'[t] = armed[t]
          /\ readerAt'[t] = readerAt[t] /\ deadline'[t] = deadline[t]
          /\ closed'[t] = closed[t]

LEMMA OthersKept ==
    ASSUME RelaysCut, PingEnds, ReaderTimed, NEW s \in Session, Alone(s),
           mode = "ping" => pc'[s] \notin {"ask", "register", "run", "join", "closeConn"},
           Reading(s)' => deadline'[s] \in {"far", "now"},
           "reader" \notin live'[s] => readerAt'[s] = "top",
           live'[s] \cap RelayGoroutines # {} =>
               /\ ~Direct /\ pc'[s] \notin {"idle", "gate", "allocate"}
               /\ pc'[s] \in {"closeRelay", "returned"} => "pipes" \in closed'[s]
               /\ pc'[s] = "returned" => "relay" \in closed'[s]
               /\ mode = "classic" /\ pc'[s] \notin {"closeRelay", "returned"} =>
                     "relay" \in armed'[s] \/ {"relay", "pipes"} \subseteq closed'[s]
    PROVE  RelaysCut' /\ PingEnds' /\ ReaderTimed'
<1>1. RelaysCut'
  BY DEF Alone, RelaysCut, Direct
<1>2. PingEnds'
  BY DEF Alone, PingEnds
<1>3. ReaderTimed'
  BY DEF Alone, ReaderTimed, Reading
<1>. QED BY <1>1, <1>2, <1>3

LEMMA WaitSetup ==
    ASSUME WaitInv, NEW s \in Session, Setup(s)
    PROVE  RelaysCut' /\ PingEnds' /\ ReaderTimed'
<1>. USE DEF WaitInv, GoesTo
<1>0. Alone(s)
  <2>1. CASE Dial(s) \/ PassGate(s) \/ LeaveGate(s) \/ AllocateFails(s)
    BY <2>1 DEF Dial, PassGate, LeaveGate, AllocateFails, Alone, TypeOK
  <2>2. CASE Allocate(s) \/ Certificate(s) \/ Acquire(s) \/ GiveUpSem(s)
    BY <2>2 DEF Allocate, Certificate, Acquire, GiveUpSem, Alone, TypeOK
  <2>3. CASE ClientFails(s) \/ ClientMade(s) \/ HandshakeDone(s) \/ HandshakeFails(s) \/ Ask(s)
    BY <2>3 DEF ClientFails, ClientMade, HandshakeDone, HandshakeFails, Ask, Alone, TypeOK
  <2>. QED BY <2>1, <2>2, <2>3 DEF Setup
<1>1. "reader" \notin live[s] /\ readerAt[s] = "top"
  BY DEF Setup, Dial, PassGate, LeaveGate, AllocateFails, Allocate, Certificate, Acquire,
         GiveUpSem, ClientFails, ClientMade, HandshakeDone, HandshakeFails, Ask,
         Ended, ReaderTimed, ProxyGoroutines
<1>2. CASE Dial(s) \/ PassGate(s) \/ LeaveGate(s) \/ AllocateFails(s)
  <2>1. /\ pc[s] \in {"idle", "gate", "allocate"} /\ live[s] \cap RelayGoroutines = {}
        /\ pc'[s] \in {"gate", "allocate", "returned"}
        /\ UNCHANGED <<live, armed, readerAt, deadline, closed>>
    BY <1>2 DEF Dial, PassGate, LeaveGate, AllocateFails, RelaysCut, TypeOK
  <2>. QED BY <1>0, <1>1, <2>1, OthersKept DEF Reading
<1>3. CASE Allocate(s)
  <2>1. /\ pc'[s] = IF Direct THEN "ask" ELSE "certificate"
        /\ live'[s] \cap RelayGoroutines # {} => ~Direct
        /\ mode = "classic" => "relay" \in armed'[s]
        /\ "reader" \notin live'[s] /\ readerAt' = readerAt
    BY <1>3 DEF Allocate, TypeOK, RelayGoroutines
  <2>2. Direct => mode # "ping"
    BY DEF Direct
  <2>. QED BY <1>0, <1>1, <2>1, <2>2, OthersKept DEF Reading
<1>4. CASE Certificate(s) \/ Acquire(s) \/ GiveUpSem(s) \/ ClientFails(s)
           \/ ClientMade(s) \/ HandshakeDone(s) \/ HandshakeFails(s)
  <2>1. /\ pc[s] \in {"certificate", "sem", "client", "handshake"}
        /\ pc'[s] \in {"sem", "client", "handshake", "closePipes", "ask"}
        /\ mode = "ping" => pc'[s] # "ask"
        /\ UNCHANGED <<live, armed, readerAt, closed>>
    BY <1>4 DEF Certificate, Acquire, GiveUpSem, ClientFails, ClientMade, HandshakeDone,
                HandshakeFails, TypeOK
  <2>2. live[s] \cap RelayGoroutines # {} =>
            /\ ~Direct
            /\ mode = "classic" =>
                  "relay" \in armed[s] \/ {"relay", "pipes"} \subseteq closed[s]
    BY <2>1 DEF RelaysCut
  <2>. QED BY <1>0, <1>1, <2>1, <2>2, OthersKept DEF Reading
<1>5. CASE Ask(s)
  <2>1. /\ pc[s] = "ask" /\ pc'[s] \in {"closeConn", "register"} /\ mode # "ping"
        /\ UNCHANGED <<live, armed, readerAt, closed>>
    BY <1>5 DEF Ask, TypeOK, PingEnds
  <2>2. live[s] \cap RelayGoroutines # {} =>
            /\ ~Direct
            /\ mode = "classic" =>
                  "relay" \in armed[s] \/ {"relay", "pipes"} \subseteq closed[s]
    BY <2>1 DEF RelaysCut
  <2>. QED BY <1>0, <1>1, <2>1, <2>2, OthersKept DEF Reading
<1>. QED BY <1>2, <1>3, <1>4, <1>5 DEF Setup

LEMMA WaitRuns ==
    ASSUME WaitInv, NEW s \in Session, Runs(s)
    PROVE  RelaysCut' /\ PingEnds' /\ ReaderTimed'
<1>. USE DEF WaitInv, GoesTo, Ends
<1>1. mode = "ping" => pc[s] \notin {"ask", "register", "run", "join", "closeConn"}
  BY DEF PingEnds
<1>2. CASE Register(s)
  <2>1. Alone(s)
    BY <1>2 DEF Register, Alone, TypeOK
  <2>2. /\ pc[s] = "register" /\ pc'[s] = "run" /\ closed' = closed /\ readerAt' = readerAt
        /\ live'[s] \cap RelayGoroutines # {} => live[s] \cap RelayGoroutines # {}
        /\ "relay" \in armed[s] => "relay" \in armed'[s]
    BY <1>2 DEF Register, TypeOK, RelayGoroutines, ProxyGoroutines
  <2>3. readerAt[s] = "top"
    BY <2>2 DEF Ended, ReaderTimed, ProxyGoroutines
  <2>. QED BY <1>1, <2>1, <2>2, <2>3, OthersKept DEF Reading, RelaysCut
(* A goroutine of the relay, once it runs, is cut as long as nothing takes *)
(* that away.                                                              *)
<1>3. ASSUME Alone(s), pc' = pc, live'[s] \subseteq live[s],
             "relay" \in armed[s] =>
                 "relay" \in armed'[s] \/ {"relay", "pipes"} \subseteq closed'[s],
             closed[s] \subseteq closed'[s],
             Reading(s)' => deadline'[s] \in {"far", "now"},
             "reader" \notin live'[s] => readerAt'[s] = "top"
      PROVE  RelaysCut' /\ PingEnds' /\ ReaderTimed'
  <2>1. live'[s] \cap RelayGoroutines # {} => live[s] \cap RelayGoroutines # {}
    BY <1>3
  <2>. QED BY <1>1, <1>3, <2>1, OthersKept DEF RelaysCut
<1>4. CASE RelayDeadline(s)
  <2>1. Alone(s)
    BY <1>4 DEF RelayDeadline, Alone, TypeOK
  <2>2. {"relay", "pipes"} \cup closed[s] \subseteq closed'[s]
    BY <1>4 DEF RelayDeadline, TypeOK
  <2>3. UNCHANGED <<pc, live, readerAt, deadline>>
    BY <1>4 DEF RelayDeadline
  <2>. QED BY <1>3, <2>1, <2>2, <2>3 DEF ReaderTimed, Reading
<1>5. CASE ConnDeadline(s)
  <2>1. Alone(s)
    BY <1>5 DEF ConnDeadline, Alone, TypeOK
  <2>2. /\ "relay" \in armed[s] => "relay" \in armed'[s]
        /\ deadline'[s] \in {deadline[s], "now"}
    BY <1>5 DEF ConnDeadline, TypeOK
  <2>3. UNCHANGED <<pc, live, readerAt, closed>>
    BY <1>5 DEF ConnDeadline
  <2>. QED BY <1>3, <2>1, <2>2, <2>3 DEF ReaderTimed, Reading
<1>6. ASSUME NEW g, live' = [live EXCEPT ![s] = @ \ {g}], g # "reader",
             UNCHANGED <<mode, pc, armed, readerAt, deadline, closed>>
      PROVE  RelaysCut' /\ PingEnds' /\ ReaderTimed'
  <2>1. Alone(s)
    BY <1>6 DEF Alone, TypeOK
  <2>2. live'[s] \subseteq live[s] /\ ("reader" \in live'[s] <=> "reader" \in live[s])
    BY <1>6 DEF TypeOK
  <2>. QED BY <1>3, <1>6, <2>1, <2>2 DEF ReaderTimed, Reading
<1>7. ASSUME NEW g \in RelayGoroutines, RelayGoroutineEnds(s, g) \/ RelayCut(s, g)
      PROVE  RelaysCut' /\ PingEnds' /\ ReaderTimed'
  BY <1>6, <1>7 DEF RelayGoroutineEnds, RelayCut, RelayGoroutines
<1>8. ASSUME NEW g, SeesDone(s, g) PROVE RelaysCut' /\ PingEnds' /\ ReaderTimed'
  BY <1>6, <1>8 DEF SeesDone
<1>9. CASE WriterExits(s) \/ Disconnect(s)
  BY <1>6, <1>9 DEF WriterExits, Disconnect
<1>10. CASE Feed(s) \/ WriterTakes(s) \/ WriteFails(s) \/ WriterSeesDone(s) \/ WriterDrains(s)
  <2>1. UNCHANGED <<mode, pc, live, armed, readerAt, deadline, closed>>
    BY <1>10 DEF Feed, WriterTakes, WriteFails, WriterSeesDone, WriterDrains, Takes
  <2>2. Alone(s)
    BY <2>1 DEF Alone
  <2>. QED BY <1>3, <2>1, <2>2 DEF ReaderTimed, Reading
<1>11. CASE Read(s)
  <2>1. Alone(s)
    BY <1>11 DEF Read, Alone, TypeOK
  <2>2. /\ "reader" \in live[s] /\ deadline'[s] = "far"
        /\ UNCHANGED <<pc, live, armed, closed>>
    BY <1>11 DEF Read, TypeOK
  <2>. QED BY <1>3, <2>1, <2>2
<1>12. ASSUME NEW place \in {"top", "offer"}, ReaderAt(s, place), "reader" \in live[s]
       PROVE  RelaysCut' /\ PingEnds' /\ ReaderTimed'
  <2>1. Alone(s)
    BY <1>12 DEF ReaderAt, Alone, TypeOK
  <2>2. /\ readerAt'[s] # "read" /\ "reader" \in live'[s]
        /\ UNCHANGED <<pc, live, armed, closed>>
    BY <1>12 DEF ReaderAt, TypeOK
  <2>. QED BY <1>3, <2>1, <2>2 DEF Reading
<1>13. CASE ReaderEnds(s)
  <2>1. Alone(s)
    BY <1>13 DEF ReaderEnds, Alone, TypeOK
  <2>2. /\ readerAt'[s] = "top" /\ live'[s] \subseteq live[s]
        /\ UNCHANGED <<pc, armed, closed>>
    BY <1>13 DEF ReaderEnds, TypeOK
  <2>. QED BY <1>3, <2>1, <2>2 DEF Reading
<1>14. CASE \/ ReadAnswer(s) \/ ReadPacket(s) \/ Offered(s) \/ OfferSeesDone(s)
            \/ ReadTimesOut(s) \/ ReadCutShort(s) \/ ReadFails(s)
  BY <1>12, <1>13, <1>14
     DEF ReadAnswer, ReadPacket, Offered, OfferSeesDone, ReadTimesOut, ReadCutShort,
         ReadFails, Arrives, Reading, Offering
<1>. QED
  BY <1>2, <1>4, <1>5, <1>7, <1>8, <1>9, <1>11, <1>14, <1>10 DEF Runs, Writer

LEMMA WaitLeave ==
    ASSUME WaitInv, NEW s \in Session, Leave(s)
    PROVE  RelaysCut' /\ PingEnds' /\ ReaderTimed'
<1>. USE DEF WaitInv, GoesTo
<1>0. Alone(s) /\ UNCHANGED <<live, readerAt, deadline>>
  BY DEF Leave, ProxyWait, Join, CloseConn, ClosePipes, CloseRelay, Alone, TypeOK
<1>1. mode = "ping" => pc[s] \notin {"ask", "register", "run", "join", "closeConn"}
  BY DEF PingEnds
<1>2. /\ "reader" \notin live[s] => readerAt[s] = "top"
      /\ Reading(s) => deadline[s] \in {"far", "now"}
  BY DEF ReaderTimed
<1>3. CASE ProxyWait(s) \/ Join(s)
  <2>1. /\ pc[s] \in {"run", "join"} /\ pc'[s] \in {"join", "closeConn"}
        /\ UNCHANGED <<armed, closed>>
    BY <1>3 DEF ProxyWait, Join, TypeOK
  <2>. QED BY <1>0, <1>1, <1>2, <2>1, OthersKept DEF Reading, RelaysCut
<1>4. CASE CloseConn(s)
  <2>1. /\ pc[s] = "closeConn" /\ closed' = closed
        /\ pc'[s] = IF Direct THEN "closeRelay" ELSE "closePipes"
        /\ "relay" \in armed[s] => "relay" \in armed'[s]
    BY <1>4 DEF CloseConn, TypeOK
  <2>. QED BY <1>0, <1>1, <1>2, <2>1, OthersKept DEF Reading, RelaysCut
<1>5. CASE ClosePipes(s)
  <2>1. /\ pc[s] = "closePipes" /\ pc'[s] = "closeRelay" /\ "pipes" \in closed'[s]
    BY <1>5 DEF ClosePipes, TypeOK
  <2>. QED BY <1>0, <1>2, <2>1, OthersKept DEF Reading, RelaysCut
<1>6. CASE CloseRelay(s)
  <2>1. /\ pc[s] = "closeRelay" /\ pc'[s] = "returned"
        /\ {"relay"} \cup closed[s] \subseteq closed'[s]
    BY <1>6 DEF CloseRelay, TypeOK
  <2>. QED BY <1>0, <1>2, <2>1, OthersKept DEF Reading, RelaysCut
<1>. QED BY <1>3, <1>4, <1>5, <1>6 DEF Leave

LEMMA WaitStep ==
    Inv /\ RelaysCut /\ PingEnds /\ ReaderTimed /\ [Next]_vars
        => RelaysCut' /\ PingEnds' /\ ReaderTimed'
<1>. SUFFICES ASSUME Inv, RelaysCut, PingEnds, ReaderTimed, [Next]_vars
              PROVE  RelaysCut' /\ PingEnds' /\ ReaderTimed'
  OBVIOUS
<1>1. WaitInv
  BY DEF WaitInv, Inv
<1>2. CASE Stop \/ ReadLoopEnds \/ UNCHANGED vars
  BY <1>2 DEF Stop, ReadLoopEnds, vars, RelaysCut, PingEnds, ReaderTimed, Reading, Direct
<1>. QED BY <1>1, <1>2, WaitSetup, WaitRuns, WaitLeave DEF Next

(* Whatever a session and RunSession's last waits wait for comes to an end:*)
(* the safety half of SessionStops and SessionReturnsUnlessFed.            *)
THEOREM NothingHangs == Spec => []WaitsEnd
<1>1. Inv /\ RelaysCut /\ PingEnds /\ ReaderTimed => WaitsEnd
  <2>. SUFFICES ASSUME Inv, RelaysCut, PingEnds, ReaderTimed, NEW s \in Session
                PROVE  /\ pc[s] \in {"join", "returned"} =>
                              \A g \in live[s] \cap RelayGoroutines : CutComes(s, g)
                       /\ Reading(s) => deadline[s] \in {"far", "now"}
    BY DEF WaitsEnd
  <2>1. ASSUME pc[s] \in {"join", "returned"}, NEW g \in live[s] \cap RelayGoroutines
        PROVE  CutComes(s, g)
    <3>1. g \in {"relayIn", "relayOut"} /\ live[s] \cap RelayGoroutines # {}
      BY <2>1 DEF RelayGoroutines
    <3>2. pc[s] = "join" => mode = "classic"
      BY <3>1 DEF RelaysCut, PingEnds, Direct, Inv, TypeOK, Modes
    <3>. QED BY <2>1, <3>1, <3>2 DEF RelaysCut, CutComes
  <2>2. Reading(s) => deadline[s] \in {"far", "now"}
    BY DEF ReaderTimed
  <2>. QED BY <2>1, <2>2
<1>. QED
  BY <1>1, InitInv, StepInv, WaitInit, WaitStep, PTL DEF Spec

===============================================================================
