--------------------------- MODULE LockstepProofs ---------------------------
(***************************************************************************)
(* Type correctness of Lockstep with the lemmas every later proof leans    *)
(* on: what the two consoles are to each other, where a slot number lands, *)
(* and on which numbers a comparison of low bytes is exact.                *)
(*                                                                         *)
(* Then how far two consoles can come apart, for every input delay, every  *)
(* width of the tick and every timing of the frames, the transports and    *)
(* the network.  The invariant has two halves for each console: Lead       *)
(* bounds its tick and its watermark by the other console's tick, and      *)
(* InFlight orders the records still on their way to it.                   *)
(***************************************************************************)
EXTENDS Lockstep, TLAPS

\* What a stream carries.
Record == InputRecord \cup {LeftRecord}

\* The two consoles are each other's peer, and there is no third.
LEMMA PeerFacts ==
  ASSUME NEW c \in Console
  PROVE  /\ Peer(c) \in Console /\ Peer(c) # c /\ Peer(Peer(c)) = c
         /\ \A k \in Console : k = c \/ k = Peer(c)
  BY DEF Console, Peer

\* Replacing one value of a function by another of the same kind keeps its type;
\* stated once, since the provers need it with the sets left unexpanded.
LEMMA UpdateType ==
  ASSUME NEW S, NEW T, NEW f \in [S -> T], NEW x \in S, NEW v \in T
  PROVE  [f EXCEPT ![x] = v] \in [S -> T]
  OBVIOUS

\* A slot number lies in its ring, whatever the tick.
LEMMA SlotFacts ==
  ASSUME NEW t \in Int
  PROVE  LocSlot(t) \in 0 .. 3 /\ RingSlot(t) \in 0 .. 7
  BY DEF LocSlot, RingSlot

\* The phase stays within a tick.
LEMMA PhaseFacts ==
  ASSUME TypeOK, NEW c \in Console
  PROVE  NextPhase(c) \in 0 .. TNK - 1
  <1>1. phase[c] + 1 \in Int
    BY ConstantsAssumption DEF TypeOK
  <1> QED BY <1>1, ConstantsAssumption DEF NextPhase

\* The sign of a low byte is the sign of some integer.
LEMMA SignedType ==
  ASSUME NEW x \in Int
  PROVE  Signed(x) \in Int
  BY ConstantsAssumption DEF Signed

\* Within sixteen ticks either way a signed difference is the difference.
LEMMA SignedExact ==
  ASSUME NEW x \in Int, -16 <= x, x < 16
  PROVE  Signed(x) = x
  BY ConstantsAssumption DEF Signed

\* Within thirty-two ticks either way equal low bytes are equal ticks.
LEMMA ZeroExact ==
  ASSUME NEW x \in Int, -32 < x, x < 32, x % TICKS = 0
  PROVE  x = 0
  BY ConstantsAssumption

\* The handover leaves every cell in its type.
LEMMA TypeInit == Init => TypeOK
  <1> SUFFICES ASSUME Init PROVE TypeOK
    OBVIOUS
  <1> USE ConstantsAssumption
  <1>1. \A c \in Console, t \in Int : Byte(c, t) \in Bytes
    BY DEF Byte, Bytes
  <1>2. \A s \in Int : SeedTick(s, 4) \in Int /\ SeedTick(s, 8) \in Int
    BY DEF SeedTick
  <1>3. TNLOC \in [Console -> [0 .. 3 -> Bytes]]
    <2> DEFINE idle(c) == [s \in 0 .. 3 |-> Byte(c, SeedTick(s, 4))]
    <2>1. \A c \in Console : idle(c) \in [0 .. 3 -> Bytes]
      BY <1>1, <1>2
    <2>2. TNLOC = [c \in Console |-> idle(c)]
      BY DEF Init
    <2> HIDE DEF idle
    <2> QED BY <2>1, <2>2
  <1>4. TNRING \in [Console -> [0 .. 7 -> Bytes]]
    <2> DEFINE idle(c) == [s \in 0 .. 7 |-> Byte(Peer(c), SeedTick(s, 8))]
    <2>1. \A c \in Console : idle(c) \in [0 .. 7 -> Bytes]
      BY <1>1, <1>2, PeerFacts
    <2>2. TNRING = [c \in Console |-> idle(c)]
      BY DEF Init
    <2> HIDE DEF idle
    <2> QED BY <2>1, <2>2
  <1>5. shadow \in [Console -> Bytes \X Bytes]
    BY <1>1 DEF Init, Console
  <1>6. TNCRCV \in [Console -> Sim] /\ sim \in [Console -> Sim]
    BY DEF Init, Sim
  <1>7. /\ up \in [Console -> BOOLEAN] /\ ran \in [Console -> BOOLEAN]
        /\ rsy \in [Console -> BOOLEAN]
    BY DEF Init
  <1>8. /\ TNTICK \in [Console -> Int] /\ TNRWAT \in [Console -> Int]
        /\ phase \in [Console -> 0 .. TNK - 1]
        /\ TNNST \in [Console -> TransportState]
    BY DEF Init, TransportState
  <1>9. /\ batch \in [Console -> Seq(Record)]
        /\ wire \in [Console -> Seq(Record)]
    BY DEF Init
  <1> QED BY <1>3, <1>4, <1>5, <1>6, <1>7, <1>8, <1>9 DEF TypeOK, Record

\* What a boundary leaves in the local ring and in the cells set with it.
LEMMA EnterTickType ==
  ASSUME TypeOK, NEW c \in Console, EnterTick(c)
  PROVE  /\ TNTICK' \in [Console -> Int]
         /\ TNCRCV' \in [Console -> Sim]
         /\ TNLOC' \in [Console -> [0 .. 3 -> Bytes]]
         /\ rsy' \in [Console -> BOOLEAN]
         /\ LocalRing(c) \in [0 .. 3 -> Bytes]
         /\ BoundaryTick(c) \in Int
  <1> USE DEF TypeOK
  <1>1. BoundaryTick(c) \in Int
    BY DEF BoundaryTick
  <1>2. \A t \in Int : Capture(c, t) \in Bytes
    BY DEF Capture, Bytes
  <1>3. LocalRing(c) \in [0 .. 3 -> Bytes]
    <2>1. TNTICK[c] + 1 + TND \in Int /\ TNLOC[c] \in [0 .. 3 -> Bytes]
      BY ConstantsAssumption
    <2> QED BY <1>2, <2>1, SlotFacts, UpdateType DEF LocalRing
  <1>4. rsy' \in [Console -> BOOLEAN]
    BY DEF EnterTick
  <1>5. TNCRCV' \in [Console -> Sim]
    BY DEF EnterTick
  <1>6. TNTICK' \in [Console -> Int]
    BY <1>1 DEF EnterTick
  <1>7. TNLOC' \in [Console -> [0 .. 3 -> Bytes]]
    BY <1>3, UpdateType DEF EnterTick
  <1> QED BY <1>1, <1>3, <1>4, <1>5, <1>6, <1>7

\* A pass of the game logic leaves a digest.
LEMMA SimulatedType ==
  ASSUME TypeOK, NEW c \in Console, NEW honest \in BOOLEAN
  PROVE  Simulated(c, honest) \in Sim
  <1>1. sim[c].n \in Nat /\ sim[c].split \in Console \cup {"none"}
    BY DEF TypeOK, Sim
  <1> QED BY <1>1 DEF Simulated, Sim

\* What WRITE sends is an INPUT record.
LEMMA OutgoingType ==
  ASSUME TypeOK, NEW c \in Console
  PROVE  Outgoing(c) \in InputRecord
  <1>1. TNTICK[c] + TND \in Int
    BY ConstantsAssumption DEF TypeOK
  <1>2. ASSUME NEW t \in Int PROVE Window(c, t) \in [0 .. TNWIN - 1 -> Bytes]
    <2>1. TNLOC[c] \in [0 .. 3 -> Bytes]
      BY DEF TypeOK
    <2>2. \A i \in 0 .. TNWIN - 1 : TNLOC[c][LocSlot(t - i)] \in Bytes
      BY <2>1, SlotFacts DEF TNWIN
    <2> QED BY <2>2 DEF Window
  <1>3. SampledCrc(c) \in Sim
    BY DEF SampledCrc, TypeOK
  <1> QED BY <1>1, <1>2, <1>3 DEF Outgoing, InputRecord

\* What CONSUME stores leaves the ring a ring of bytes.
LEMMA StoredType ==
  ASSUME TypeOK, NEW c \in Console, NEW r \in InputRecord
  PROVE  Stored(c, r) \in [0 .. 7 -> Bytes]
  <1>1. /\ r.tick \in Int
        /\ r.win[0] \in Bytes /\ r.win[1] \in Bytes /\ r.win[2] \in Bytes
    BY DEF InputRecord, TNWIN
  <1> QED BY <1>1 DEF Stored, TypeOK

\* Every step keeps every cell in its type.
LEMMA TypeStep == TypeOK /\ [Next]_vars => TypeOK'
  <1> SUFFICES ASSUME TypeOK, [Next]_vars PROVE TypeOK'
    OBVIOUS
  <1> USE DEF Record
  <1>0. CASE UNCHANGED vars
    BY <1>0 DEF TypeOK, vars
  <1>1. ASSUME NEW c \in Console, RunTick(c) PROVE TypeOK'
    <2> DEFINE t == BoundaryTick(c)
    <2>1. EnterTick(c)
      BY <1>1 DEF RunTick
    <2>2. t \in Int /\ LocalRing(c)[LocSlot(t)] \in Bytes
      BY <2>1, EnterTickType, SlotFacts
    <2>3. TNRING[c][RingSlot(t)] \in Bytes
      BY <2>2, SlotFacts DEF TypeOK
    <2>4. PortOrder(c, LocalRing(c)[LocSlot(t)], TNRING[c][RingSlot(t)])
            \in Bytes \X Bytes
      BY <2>2, <2>3 DEF PortOrder
    <2>5. shadow' \in [Console -> Bytes \X Bytes]
      BY <1>1, <2>4 DEF RunTick, TypeOK
    <2>6. sim' \in [Console -> Sim]
      BY <1>1, SimulatedType DEF RunTick, TypeOK
    <2>7. phase' \in [Console -> 0 .. TNK - 1]
      BY <1>1, PhaseFacts, UpdateType DEF RunTick, TypeOK
    <2> QED BY <1>1, <2>1, <2>5, <2>6, <2>7, EnterTickType DEF RunTick, TypeOK
  <1>2. ASSUME NEW c \in Console, StallTick(c) PROVE TypeOK'
    <2>1. EnterTick(c)
      BY <1>2 DEF StallTick
    <2> QED BY <1>2, <2>1, EnterTickType DEF StallTick, TypeOK
  <1>3. ASSUME NEW c \in Console, MidTick(c) PROVE TypeOK'
    <2>1. phase' \in [Console -> 0 .. TNK - 1]
      BY <1>3, PhaseFacts, UpdateType DEF MidTick, TypeOK
    <2>2. sim' \in [Console -> Sim]
      BY <1>3, SimulatedType DEF MidTick, TypeOK
    <2> QED BY <1>3, <2>1, <2>2 DEF MidTick, TypeOK
  <1>4. ASSUME NEW c \in Console, Leave(c) PROVE TypeOK'
    <2>1. wire' \in [Console -> Seq(Record)]
      <3> DEFINE left(k) == IF k # c /\ up[k] THEN Append(wire[k], LeftRecord)
                                             ELSE <<>>
      <3>1. \A k \in Console : wire[k] \in Seq(Record)
        BY DEF TypeOK
      <3>2. \A k \in Console : left(k) \in Seq(Record)
        BY <3>1
      <3>3. wire' = [k \in Console |-> left(k)]
        BY <1>4 DEF Leave
      <3> HIDE DEF left, Record
      <3> QED BY <3>2, <3>3
    <2>2. batch' \in [Console -> Seq(Record)]
      BY <1>4 DEF Leave, TypeOK
    <2> QED BY <1>4, <2>1, <2>2 DEF Leave, TypeOK
  <1>5. ASSUME NEW c \in Console, Write(c) PROVE TypeOK'
    <2> DEFINE p == Peer(c)
    <2>1. p \in Console /\ wire \in [Console -> Seq(Record)]
      BY PeerFacts DEF TypeOK
    <2>2. Outgoing(c) \in Record
      BY OutgoingType
    <2>3. wire[p] \in Seq(Record) /\ Append(wire[p], Outgoing(c)) \in Seq(Record)
      BY <2>1, <2>2
    <2>4. \/ wire' = [wire EXCEPT ![p] = wire[p]]
          \/ wire' = [wire EXCEPT ![p] = Append(wire[p], Outgoing(c))]
      BY <1>5 DEF Write
    <2>5. wire' \in [Console -> Seq(Record)]
      BY <2>1, <2>3, <2>4, UpdateType
    <2>6. TNNST' \in [Console -> TransportState]
      BY <1>5 DEF Write, TypeOK, TransportState
    <2> QED BY <1>5, <2>5, <2>6 DEF Write, TypeOK
  <1>6. ASSUME NEW c \in Console, Fetch(c) PROVE TypeOK'
    <2>1. PICK k \in 1 .. Len(wire[c]) :
            /\ batch' = [batch EXCEPT ![c] = SubSeq(wire[c], 1, k)]
            /\ wire' = [wire EXCEPT ![c] = SubSeq(@, k + 1, Len(@))]
      BY <1>6 DEF Fetch
    <2>2. wire[c] \in Seq(Record)
      BY DEF TypeOK
    <2>3. /\ SubSeq(wire[c], 1, k) \in Seq(Record)
          /\ SubSeq(wire[c], k + 1, Len(wire[c])) \in Seq(Record)
      BY <2>2
    <2>4. /\ wire' \in [Console -> Seq(Record)]
          /\ batch' \in [Console -> Seq(Record)]
      BY <2>1, <2>3 DEF TypeOK
    <2>5. TNNST' \in [Console -> TransportState]
      BY <1>6 DEF Fetch, TypeOK, TransportState
    <2> QED BY <1>6, <2>4, <2>5 DEF Fetch, consoleVars, TypeOK
  <1>7. ASSUME NEW c \in Console, NothingToRead(c) PROVE TypeOK'
    <2>1. TNNST' \in [Console -> TransportState]
      BY <1>7 DEF NothingToRead, TypeOK, TransportState
    <2> QED BY <1>7, <2>1 DEF NothingToRead, consoleVars, TypeOK
  <1>8. ASSUME NEW c \in Console, Consume(c) PROVE TypeOK'
    <2> DEFINE r == NextRecord(c)
    <2>1. batch[c] \in Seq(Record) /\ batch[c] # <<>>
      BY <1>8 DEF Consume, TypeOK
    <2>2. r \in Record /\ SubSeq(batch[c], 1, Len(batch[c]) - 1) \in Seq(Record)
      BY <2>1 DEF NextRecord
    <2>3. batch' \in [Console -> Seq(Record)]
      BY <1>8, <2>2 DEF Consume, TypeOK
    <2>4. CASE r.type = "LEFT"
      BY <1>8, <2>3, <2>4 DEF Consume, consoleVars, TypeOK
    <2>5. CASE r.type # "LEFT"
      <3>1. r \in InputRecord
        BY <2>2, <2>5 DEF LeftRecord
      <3>2. TNRING' = [TNRING EXCEPT ![c] = Stored(c, r)]
        BY <1>8, <2>5 DEF Consume
      <3>3. TNRING' \in [Console -> [0 .. 7 -> Bytes]]
        BY <3>2, <3>1, StoredType, UpdateType DEF TypeOK
      <3>4. TNRWAT' \in [Console -> Int]
        BY <1>8, <2>5, <3>1 DEF Consume, TypeOK, InputRecord
      <3>5. rsy' \in [Console -> BOOLEAN]
        BY <1>8, <2>5 DEF Consume, TypeOK, Comparable
      <3> QED BY <1>8, <2>3, <3>3, <3>4, <3>5 DEF Consume, consoleVars, TypeOK
    <2> QED BY <2>4, <2>5
  <1>9. ASSUME NEW c \in Console, ConsumeDone(c) PROVE TypeOK'
    <2>1. TNNST' \in [Console -> TransportState]
      BY <1>9 DEF ConsumeDone, TypeOK, TransportState
    <2> QED BY <1>9, <2>1 DEF ConsumeDone, consoleVars, TypeOK
  <1> QED
    BY <1>0, <1>1, <1>2, <1>3, <1>4, <1>5, <1>6, <1>7, <1>8, <1>9 DEF Next

\* The rings keep their eight and four slots, the phase its tick, the transport
\* its states, and the streams carry records only, for every TNK, TND, TICKS and
\* timing.
THEOREM TypeCorrect == Spec => []TypeOK
  <1>1. Init => TypeOK
    BY TypeInit
  <1>2. TypeOK /\ [Next]_vars => TypeOK'
    BY TypeStep
  <1> QED BY <1>1, <1>2, PTL DEF Spec

-----------------------------------------------------------------------------
(* How far apart *)

\* How far a console's newest capture can be ahead of the peer's newest byte:
\* by the stall alone, or by the timing when that is tighter.
Reach == IF MaxAhead < 2 * TND + 2 THEN MaxAhead ELSE 2 * TND + 2

Lead(c) ==
  /\ TNTICK[c] >= -1
  /\ ~ran[c] => TNTICK[c] >= 0
  /\ TNRWAT[c] = -2 \/ TNRWAT[c] \in TND .. TNTICK[Peer(c)] + TND
  /\ TNTICK[c] <= Holds(c) + (IF ran[c] THEN 0 ELSE 1)
  /\ TNTICK[Peer(c)] + TND - Holds(c) <= MaxAhead

\* The records console c can have written so far.
Written(c) ==
  {r \in Record : r.type = "INPUT" => r.tick \in TND .. TNTICK[c] + TND}

\* r was written no later than s.
NoLater(r, s) == (r.type = "INPUT" /\ s.type = "INPUT") => r.tick <= s.tick

\* r is at most Reach older than tick t.
Recent(r, t) == r.type = "INPUT" => t - r.tick <= Reach

InFlight(c) ==
  /\ wire[c] \in Seq(Written(Peer(c)))
  /\ batch[c] \in Seq(Written(Peer(c)))
  /\ \A i, j \in 1 .. Len(wire[c]) :
       i <= j => NoLater(wire[c][i], wire[c][j])
  /\ \A i \in 1 .. Len(batch[c]), j \in 1 .. Len(wire[c]) :
       NoLater(batch[c][i], wire[c][j])
  /\ \A j \in 1 .. Len(wire[c]) :
       wire[c][j].type = "INPUT" => TNRWAT[c] <= wire[c][j].tick
  /\ \A i, j \in 1 .. Len(batch[c]) :
       batch[c][j].type = "INPUT" => Recent(batch[c][i], batch[c][j].tick)
  /\ \A i \in 1 .. Len(batch[c]) : Recent(batch[c][i], TNRWAT[c])

LeadInv == \A c \in Console : Lead(c)
LinkInv == \A c \in Console : InFlight(c)

LInv == TypeOK /\ LeadInv /\ LinkInv

-----------------------------------------------------------------------------
(* What the invariant says of one console *)

\* What the lead bounds of the two consoles say together.
LEMMA LeadFacts ==
  ASSUME TypeOK, LeadInv, NEW c \in Console
  PROVE  /\ TNTICK[c] \in Int /\ TNRWAT[c] \in Int /\ Holds(c) \in Int
         /\ TNTICK[Peer(c)] \in Int
         /\ Holds(c) <= TNTICK[Peer(c)] + TND
         /\ TNTICK[c] <= TNTICK[Peer(c)] + TND + 1
         /\ TNTICK[Peer(c)] + TND - Holds(c) <= Reach
         /\ TNRWAT[c] <= Holds(c)
  <1> DEFINE p == Peer(c)
  <1>1. p \in Console /\ Peer(p) = c
    BY PeerFacts
  <1>2. /\ TNTICK[c] \in Int /\ TNRWAT[c] \in Int
        /\ TNTICK[p] \in Int /\ TNRWAT[p] \in Int
    BY <1>1 DEF TypeOK
  <1>3. Holds(c) \in Int /\ Holds(p) \in Int
    BY <1>2, ConstantsAssumption DEF Holds
  <1>4. /\ Holds(c) <= TNTICK[p] + TND
        /\ Holds(p) <= TNTICK[c] + TND
    BY <1>1, <1>2, ConstantsAssumption DEF LeadInv, Lead, Holds
  <1>5. TNTICK[c] <= Holds(c) + 1 /\ TNTICK[p] <= Holds(p) + 1
    BY <1>1, <1>2, <1>3 DEF LeadInv, Lead
  <1>6. TNTICK[p] + TND - Holds(c) <= 2 * TND + 2
    BY <1>2, <1>3, <1>4, <1>5, ConstantsAssumption
  <1>7. TNTICK[p] + TND - Holds(c) <= MaxAhead
    BY DEF LeadInv, Lead
  <1>8. TNRWAT[c] <= Holds(c)
    BY <1>2, ConstantsAssumption DEF Holds
  <1> QED BY <1>2, <1>3, <1>4, <1>5, <1>6, <1>7, <1>8, ConstantsAssumption
          DEF Reach

\* The gate compares in eight bits and is right on the whole ticks.
LEMMA GateExact ==
  ASSUME TypeOK, LeadInv, NEW c \in Console
  PROVE  /\ BoundaryTick(c) \in Int /\ BoundaryTick(c) >= 0
         /\ BoundaryTick(c) <= Holds(c) + 1
         /\ Gate(c, BoundaryTick(c)) <=> TNRWAT[c] >= BoundaryTick(c)
  <1> DEFINE t == BoundaryTick(c)
  <1>1. t \in Int /\ t >= 0 /\ TNTICK[c] <= t /\ t <= Holds(c) + 1
    BY LeadFacts DEF LeadInv, Lead, BoundaryTick
  <1>2. TNRWAT[c] - t \in Int
    BY <1>1, LeadFacts
  <1>3. TNRWAT[c] - t <= 2 * TND + 1
    BY <1>1, LeadFacts, PeerFacts, ConstantsAssumption
  <1>4. TNRWAT[c] - t >= -2 - TND
    BY <1>1, LeadFacts, ConstantsAssumption DEF Holds, LeadInv, Lead
  <1>5. Signed(TNRWAT[c] - t) = TNRWAT[c] - t
    BY <1>2, <1>3, <1>4, SignedExact, ConstantsAssumption
  <1> QED BY <1>1, <1>2, <1>5, LeadFacts DEF Gate

\* The reach is at most six ticks, and at most what the timing allows.
LEMMA ReachFacts == Reach \in 0 .. 6 /\ Reach <= MaxAhead
  BY ConstantsAssumption DEF Reach

\* What can be said of a record the console has fetched, and the comparisons
\* CONSUME makes on it.
LEMMA RecordFacts ==
  ASSUME TypeOK, LeadInv, NEW c \in Console,
         NEW r \in Written(Peer(c)), r.type = "INPUT",
         Recent(r, TNRWAT[c])
  PROVE  /\ r \in InputRecord
         /\ r.tick \in TND .. TNTICK[Peer(c)] + TND
         /\ Newer(c, r) <=> r.tick >= TNRWAT[c]
         /\ Comparable(c, r) <=> r.tick - TND = TNTICK[c]
  <1> DEFINE p == Peer(c)
  <1>1. r \in InputRecord /\ r.tick \in TND .. TNTICK[p] + TND
    BY DEF Written, Record, LeftRecord
  <1>2. r.tick \in Int /\ TNRWAT[c] \in Int /\ TNTICK[c] \in Int
    BY <1>1, LeadFacts DEF InputRecord
  <1>3. TNRWAT[c] - r.tick <= 6
    BY <1>2, ReachFacts DEF Recent
  <1>4. r.tick - TNRWAT[c] <= 3 * TND + 3
    BY <1>1, <1>2, LeadFacts, ConstantsAssumption DEF Holds, LeadInv, Lead,
       Reach
  <1>5. Signed(r.tick - TNRWAT[c]) = r.tick - TNRWAT[c]
    BY <1>2, <1>3, <1>4, SignedExact, ConstantsAssumption
  <1>6. Newer(c, r) <=> r.tick >= TNRWAT[c]
    BY <1>2, <1>5 DEF Newer
  <1>7. r.tick - TND - TNTICK[c] <= TND + 1
    BY <1>1, <1>2, LeadFacts, PeerFacts, ConstantsAssumption
  <1>8. Holds(c) - r.tick <= 6
    BY <1>1, <1>2, <1>3, ConstantsAssumption DEF Holds
  <1>9. r.tick - TND - TNTICK[c] >= -10
    BY <1>2, <1>8, LeadFacts, ConstantsAssumption DEF LeadInv, Lead
  <1>10. Comparable(c, r) <=> r.tick - TND = TNTICK[c]
    <2>1. r.tick - TND - TNTICK[c] \in Int
      BY <1>2, ConstantsAssumption
    <2>2. (r.tick - TND - TNTICK[c]) % TICKS = 0
            => r.tick - TND - TNTICK[c] = 0
      BY <2>1, <1>7, <1>9, ZeroExact, ConstantsAssumption
    <2>3. r.tick - TND - TNTICK[c] = 0
            => (r.tick - TND - TNTICK[c]) % TICKS = 0
      BY <2>1, ConstantsAssumption
    <2> QED BY <2>2, <2>3, <1>2, ConstantsAssumption DEF Comparable
  <1> QED BY <1>1, <1>6, <1>10

-----------------------------------------------------------------------------
(* The initial state *)

\* The handover satisfies the invariant.
LEMMA LeadInit == Init => LInv
  <1> SUFFICES ASSUME Init PROVE LInv
    OBVIOUS
  <1>1. TypeOK
    BY TypeInit
  <1>2. LeadInv
    BY PeerFacts, ConstantsAssumption DEF Init, LeadInv, Lead, Holds
  <1>3. LinkInv
    <2> SUFFICES ASSUME NEW c \in Console PROVE InFlight(c)
      BY DEF LinkInv
    <2>1. wire[c] = <<>> /\ batch[c] = <<>>
      BY DEF Init
    <2> QED BY <2>1 DEF InFlight
  <1> QED BY <1>1, <1>2, <1>3 DEF LInv

-----------------------------------------------------------------------------
(* Lead: the ticks and the watermarks *)

\* A console at its boundary enters a tick only when its timing allows, and
\* the watermarks stand.
LEMMA LeadBoundary ==
  ASSUME TypeOK, LeadInv, NEW c \in Console, RunTick(c) \/ StallTick(c)
  PROVE  LeadInv'
  <1> DEFINE t == BoundaryTick(c)
             p == Peer(c)
  <1>1. /\ EnterTick(c)
        /\ TNRWAT' = TNRWAT
      BY DEF RunTick, StallTick
  <1>2. /\ t \in Int /\ t >= 0 /\ TNTICK[c] <= t /\ t <= Holds(c) + 1
        /\ TNTICK' = [TNTICK EXCEPT ![c] = t]
        /\ ran[c] => t = TNTICK[c] + 1
        /\ ~ran[c] => t = TNTICK[c]
    BY <1>1, GateExact, LeadFacts DEF EnterTick, BoundaryTick
  <1>3. p \in Console /\ p # c /\ Peer(p) = c
    BY PeerFacts
  <1>4. /\ TNTICK'[c] = t /\ TNTICK'[p] = TNTICK[p]
        /\ Holds(c)' = Holds(c) /\ Holds(p)' = Holds(p)
    BY <1>1, <1>2, <1>3 DEF Holds, TypeOK
  <1>5. /\ ran'[p] = ran[p]
        /\ RunTick(c) => ran'[c] /\ TNRWAT[c] >= t
        /\ StallTick(c) => ~ran'[c]
    BY <1>3, GateExact DEF RunTick, StallTick, TypeOK
  <1>6. t + TND - Holds(p) <= MaxAhead
    <2>1. CASE ran[c]
      BY <1>1, <1>2, <2>1 DEF EnterTick, Timely
    <2>2. CASE ~ran[c]
      BY <1>2, <1>3, <2>2 DEF LeadInv, Lead
    <2> QED BY <2>1, <2>2
  <1>7. Lead(c)'
    <2>1. TNTICK'[c] <= Holds(c)' + (IF ran'[c] THEN 0 ELSE 1)
      BY <1>2, <1>4, <1>5, LeadFacts
    <2> QED BY <2>1, <1>1, <1>2, <1>4 DEF LeadInv, Lead
  <1>8. Lead(p)'
    <2>1. TNRWAT[p] = -2 \/ TNRWAT[p] \in TND .. TNTICK[c] + TND
      BY <1>3 DEF LeadInv, Lead
    <2>2. TNRWAT'[p] = -2 \/ TNRWAT'[p] \in TND .. TNTICK'[c] + TND
      BY <2>1, <1>1, <1>2, <1>4, LeadFacts, ConstantsAssumption
    <2> QED BY <2>2, <1>3, <1>4, <1>5, <1>6 DEF LeadInv, Lead
  <1> QED BY <1>7, <1>8, PeerFacts DEF LeadInv

\* A consumed record raises the watermark to a tick its sender has captured.
LEMMA LeadConsume ==
  ASSUME LInv, NEW c \in Console, Consume(c)
  PROVE  LeadInv'
  <1> DEFINE r == NextRecord(c)
             p == Peer(c)
  <1>0. TypeOK /\ LeadInv /\ InFlight(c)
    BY DEF LInv, LinkInv
  <1>1. /\ p \in Console /\ p # c /\ Peer(p) = c
    BY PeerFacts
  <1>2. TNTICK' = TNTICK /\ ran' = ran
    BY DEF Consume, consoleVars
  <1>3. CASE TNRWAT' = TNRWAT
    BY <1>0, <1>2, <1>3 DEF LeadInv, Lead, Holds
  <1>4. CASE TNRWAT' # TNRWAT
    <2>1. Len(batch[c]) \in 1 .. Len(batch[c]) /\ r = batch[c][Len(batch[c])]
      BY <1>0 DEF Consume, NextRecord, InFlight
    <2>2. r \in Written(p) /\ Recent(r, TNRWAT[c])
      BY <1>0, <2>1 DEF InFlight
    <2>3. /\ r.type # "LEFT" /\ Newer(c, r)
          /\ TNRWAT' = [TNRWAT EXCEPT ![c] = r.tick]
      BY <1>0, <1>4 DEF Consume, TypeOK
    <2>4. r.type = "INPUT"
      BY <2>2, <2>3 DEF Written, Record, InputRecord, LeftRecord
    <2>5. /\ r.tick \in TND .. TNTICK[p] + TND
          /\ r.tick >= TNRWAT[c] /\ r.tick \in Int
      BY <1>0, <2>2, <2>3, <2>4, RecordFacts DEF InputRecord
    <2>6. TNRWAT'[c] = r.tick /\ TNRWAT'[p] = TNRWAT[p]
      BY <1>0, <1>1, <2>3 DEF TypeOK
    <2>7. Holds(c)' >= Holds(c) /\ Holds(p)' = Holds(p) /\ Holds(c)' \in Int
      BY <1>0, <2>5, <2>6, LeadFacts, ConstantsAssumption DEF Holds
    <2>8. Lead(c)'
      BY <1>0, <1>1, <1>2, <2>5, <2>6, <2>7, LeadFacts, ConstantsAssumption
         DEF LeadInv, Lead
    <2>9. Lead(p)'
      BY <1>0, <1>1, <1>2, <2>6, <2>7 DEF LeadInv, Lead
    <2> QED BY <2>8, <2>9, PeerFacts DEF LeadInv
  <1> QED BY <1>3, <1>4

\* Nothing else moves a tick or a watermark.
LEMMA LeadUnmoved ==
  ASSUME LeadInv, UNCHANGED <<TNTICK, TNRWAT, ran>>
  PROVE  LeadInv'
  BY DEF LeadInv, Lead, Holds

\* Every step keeps the lead bounds.
LEMMA LeadStep == LInv /\ [Next]_vars => LeadInv'
  <1> SUFFICES ASSUME LInv, [Next]_vars PROVE LeadInv'
    OBVIOUS
  <1> USE DEF LInv
  <1>1. CASE UNCHANGED vars
    BY <1>1, LeadUnmoved DEF vars
  <1>2. ASSUME NEW c \in Console, RunTick(c) \/ StallTick(c) PROVE LeadInv'
    BY <1>2, LeadBoundary
  <1>3. ASSUME NEW c \in Console,
               MidTick(c) \/ Leave(c) \/ Write(c) \/ Fetch(c)
               \/ NothingToRead(c) \/ ConsumeDone(c)
        PROVE  LeadInv'
    <2>1. UNCHANGED <<TNTICK, TNRWAT, ran>>
      BY <1>3 DEF MidTick, Leave, Write, Fetch, NothingToRead, ConsumeDone,
         consoleVars
    <2> QED BY <2>1, LeadUnmoved
  <1>4. ASSUME NEW c \in Console, Consume(c) PROVE LeadInv'
    BY <1>4, LeadConsume
  <1> QED BY <1>1, <1>2, <1>3, <1>4 DEF Next

-----------------------------------------------------------------------------
(* InFlight: the records on their way *)

\* A console that goes on makes more records possible and takes none back.
LEMMA WrittenGrows ==
  ASSUME NEW c \in Console, TNTICK[c] \in Int, TNTICK'[c] \in Int,
         TNTICK'[c] >= TNTICK[c]
  PROVE  /\ Written(c) \subseteq Written(c)'
         /\ \A s \in Seq(Written(c)) : s \in Seq(Written(c)')
  <1>1. Written(c) \subseteq Written(c)'
    <2> SUFFICES ASSUME NEW r \in Written(c) PROVE r \in Written(c)'
      OBVIOUS
    <2>1. r \in Record
      BY DEF Written
    <2>2. CASE r.type = "INPUT"
      <3>1. r.tick \in Int
        BY <2>1, <2>2 DEF Record, InputRecord, LeftRecord
      <3> QED BY <2>2, <3>1, ConstantsAssumption DEF Written
    <2> QED BY <2>1, <2>2 DEF Written
  <1> QED BY <1>1

\* The order of the records stands while only ticks move.
LEMMA LinkUnmoved ==
  ASSUME TypeOK, LinkInv, UNCHANGED <<wire, batch, TNRWAT>>,
         \A c \in Console : TNTICK'[c] \in Int /\ TNTICK'[c] >= TNTICK[c]
  PROVE  LinkInv'
  <1> SUFFICES ASSUME NEW c \in Console PROVE InFlight(c)'
    BY DEF LinkInv
  <1>1. InFlight(c) /\ Peer(c) \in Console /\ TNTICK[Peer(c)] \in Int
    BY PeerFacts DEF LinkInv, TypeOK
  <1>2. /\ wire[c] \in Seq(Written(Peer(c))')
        /\ batch[c] \in Seq(Written(Peer(c))')
    BY <1>1, WrittenGrows DEF InFlight
  <1> QED BY <1>1, <1>2 DEF InFlight, Recent, NoLater

\* A console that leaves empties its own stream and puts one LEFT in the
\* other's.
LEMMA LinkLeave ==
  ASSUME LInv, NEW c \in Console, Leave(c)
  PROVE  LinkInv'
  <1> SUFFICES ASSUME NEW k \in Console PROVE InFlight(k)'
    BY DEF LinkInv
  <1> USE DEF LInv
  <1>1. /\ InFlight(k) /\ Peer(k) \in Console /\ TNTICK' = TNTICK
        /\ TNRWAT' = TNRWAT
    BY PeerFacts DEF LinkInv, Leave
  <1>2. Written(Peer(k))' = Written(Peer(k)) /\ LeftRecord \in Written(Peer(k))
    BY <1>1 DEF Written, Record, LeftRecord
  <1>3. /\ batch'[k] \in Seq(Written(Peer(k)))
        /\ \A i \in 1 .. Len(batch'[k]) :
             i \in 1 .. Len(batch[k]) /\ batch'[k][i] = batch[k][i]
    <2>1. batch'[k] = batch[k] \/ batch'[k] = <<>>
      BY DEF Leave, TypeOK
    <2>2. CASE batch'[k] = batch[k]
      BY <1>1, <2>2 DEF InFlight
    <2>3. CASE batch'[k] = <<>>
      <3>1. \A i \in 1 .. Len(batch'[k]) : FALSE
        BY <2>3
      <3> QED BY <2>3, <3>1
    <2> QED BY <2>1, <2>2, <2>3
  <1>4. /\ \A i, j \in 1 .. Len(batch'[k]) :
             batch'[k][j].type = "INPUT"
               => Recent(batch'[k][i], batch'[k][j].tick)
        /\ \A i \in 1 .. Len(batch'[k]) : Recent(batch'[k][i], TNRWAT'[k])
    BY <1>1, <1>3 DEF InFlight
  <1>5. CASE wire'[k] = <<>>
    <2>1. wire'[k] \in Seq(Written(Peer(k))) /\ \A j \in 1 .. Len(wire'[k]) : FALSE
      BY <1>5
    <2> QED BY <1>2, <1>3, <1>4, <2>1 DEF InFlight, NoLater, Recent
  <1>6. CASE wire'[k] = Append(wire[k], LeftRecord)
    <2>1. /\ wire'[k] \in Seq(Written(Peer(k)))
          /\ Len(wire'[k]) = Len(wire[k]) + 1 /\ Len(wire[k]) \in Nat
          /\ \A i \in 1 .. Len(wire[k]) : wire'[k][i] = wire[k][i]
          /\ wire'[k][Len(wire'[k])] = LeftRecord
      BY <1>1, <1>2, <1>6 DEF InFlight
    <2>2. \A i \in 1 .. Len(wire'[k]) :
            i \in 1 .. Len(wire[k]) \/ wire'[k][i].type # "INPUT"
      BY <2>1 DEF LeftRecord
    <2>3. \A i, j \in 1 .. Len(wire'[k]) :
            i <= j => NoLater(wire'[k][i], wire'[k][j])
      BY <1>1, <2>1, <2>2 DEF InFlight, NoLater
    <2>4. \A i \in 1 .. Len(batch'[k]), j \in 1 .. Len(wire'[k]) :
            NoLater(batch'[k][i], wire'[k][j])
      <3> SUFFICES ASSUME NEW i \in 1 .. Len(batch'[k]),
                          NEW j \in 1 .. Len(wire'[k])
                   PROVE  NoLater(batch'[k][i], wire'[k][j])
        OBVIOUS
      <3>1. CASE j \in 1 .. Len(wire[k])
        BY <1>1, <1>3, <2>1, <3>1 DEF InFlight
      <3>2. CASE wire'[k][j].type # "INPUT"
        BY <3>2 DEF NoLater
      <3> QED BY <2>2, <3>1, <3>2
    <2>5. \A j \in 1 .. Len(wire'[k]) :
            wire'[k][j].type = "INPUT" => TNRWAT'[k] <= wire'[k][j].tick
      BY <1>1, <2>1, <2>2 DEF InFlight
    <2> QED BY <1>2, <1>3, <1>4, <2>1, <2>3, <2>4, <2>5
            DEF InFlight, NoLater, Recent
  <1>7. wire'[k] = <<>> \/ wire'[k] = Append(wire[k], LeftRecord)
    BY DEF Leave
  <1> QED BY <1>5, <1>6, <1>7

\* The record a WRITE appends is the newest of all.
LEMMA LinkWrite ==
  ASSUME LInv, NEW c \in Console, Write(c)
  PROVE  LinkInv'
  <1> SUFFICES ASSUME NEW k \in Console PROVE InFlight(k)'
    BY DEF LinkInv
  <1> USE DEF LInv
  <1>1. /\ InFlight(k) /\ Peer(k) \in Console /\ TNTICK' = TNTICK
        /\ TNRWAT' = TNRWAT /\ batch' = batch
    BY PeerFacts DEF LinkInv, Write
  <1>2. Written(Peer(k))' = Written(Peer(k))
    BY <1>1 DEF Written
  <1>3. CASE wire'[k] = wire[k]
    BY <1>1, <1>2, <1>3 DEF InFlight, NoLater, Recent
  <1>4. CASE wire'[k] # wire[k]
    <2> DEFINE r == Outgoing(c)
    <2>1. k = Peer(c) /\ Peer(k) = c /\ wire'[k] = Append(wire[k], r)
      BY <1>4, PeerFacts DEF Write, TypeOK
    <2>2. /\ r \in Written(c) /\ r.type = "INPUT" /\ r.tick = TNTICK[c] + TND
          /\ TNTICK[c] \in Int
      BY OutgoingType, LeadFacts, ConstantsAssumption
         DEF Outgoing, Written, Record, Write
    <2>3. /\ wire'[k] \in Seq(Written(Peer(k)))
          /\ Len(wire'[k]) = Len(wire[k]) + 1 /\ Len(wire[k]) \in Nat
          /\ \A i \in 1 .. Len(wire[k]) : wire'[k][i] = wire[k][i]
          /\ wire'[k][Len(wire'[k])] = r
      BY <1>1, <2>1, <2>2 DEF InFlight
    <2>4. \A s \in Written(c) : NoLater(s, r)
      BY <2>2 DEF NoLater, Written
    <2>5. \A i, j \in 1 .. Len(wire'[k]) :
            i <= j => NoLater(wire'[k][i], wire'[k][j])
      <3> SUFFICES ASSUME NEW i \in 1 .. Len(wire'[k]),
                          NEW j \in 1 .. Len(wire'[k]), i <= j
                   PROVE  NoLater(wire'[k][i], wire'[k][j])
        OBVIOUS
      <3>1. CASE j \in 1 .. Len(wire[k])
        BY <1>1, <2>3, <3>1 DEF InFlight
      <3>2. CASE j = Len(wire'[k])
        BY <2>1, <2>3, <2>4, <3>2
      <3> QED BY <2>3, <3>1, <3>2
    <2>6. \A i \in 1 .. Len(batch[k]), j \in 1 .. Len(wire'[k]) :
            NoLater(batch[k][i], wire'[k][j])
      <3> SUFFICES ASSUME NEW i \in 1 .. Len(batch[k]),
                          NEW j \in 1 .. Len(wire'[k])
                   PROVE  NoLater(batch[k][i], wire'[k][j])
        OBVIOUS
      <3>1. CASE j \in 1 .. Len(wire[k])
        BY <1>1, <2>3, <3>1 DEF InFlight
      <3>2. CASE j = Len(wire'[k])
        BY <1>1, <2>1, <2>3, <2>4, <3>2 DEF InFlight
      <3> QED BY <2>3, <3>1, <3>2
    <2>7. TNRWAT[k] <= r.tick
      BY <2>1, <2>2, LeadFacts, ConstantsAssumption
    <2>8. \A j \in 1 .. Len(wire'[k]) :
            wire'[k][j].type = "INPUT" => TNRWAT[k] <= wire'[k][j].tick
      BY <1>1, <2>3, <2>7 DEF InFlight
    <2>9. InFlight(k)'
      BY <1>1, <1>2, <2>3, <2>5, <2>6, <2>8 DEF InFlight, NoLater, Recent
    <2> QED BY <2>9
  <1> QED BY <1>3, <1>4

\* A fetch splits the stream into two runs, the older one first.
LEMMA LinkFetch ==
  ASSUME LInv, NEW c \in Console, Fetch(c)
  PROVE  LinkInv'
  <1> SUFFICES ASSUME NEW k \in Console PROVE InFlight(k)'
    BY DEF LinkInv
  <1> USE DEF LInv
  <1>1. /\ InFlight(k) /\ Peer(k) \in Console /\ TNTICK' = TNTICK
        /\ TNRWAT' = TNRWAT
    BY PeerFacts DEF LinkInv, Fetch, consoleVars
  <1>2. Written(Peer(k))' = Written(Peer(k))
    BY <1>1 DEF Written
  <1>3. CASE k # c
    <2>1. wire'[k] = wire[k] /\ batch'[k] = batch[k]
      BY <1>3 DEF Fetch, TypeOK
    <2> QED BY <1>1, <1>2, <2>1 DEF InFlight, NoLater, Recent
  <1>4. CASE k = c
    <2> DEFINE w == wire[c]
    <2>1. PICK n \in 1 .. Len(w) :
            /\ batch' = [batch EXCEPT ![c] = SubSeq(w, 1, n)]
            /\ wire' = [wire EXCEPT ![c] = SubSeq(@, n + 1, Len(@))]
      BY DEF Fetch
    <2>2. /\ batch'[c] = SubSeq(w, 1, n)
          /\ wire'[c] = SubSeq(w, n + 1, Len(w))
      BY <2>1 DEF TypeOK
    <2>3. w \in Seq(Written(Peer(c))) /\ Len(w) \in Nat /\ n \in Nat
      BY <1>1, <1>4 DEF InFlight
    <2>4. /\ batch'[c] \in Seq(Written(Peer(c)))
          /\ Len(batch'[c]) = n
          /\ \A i \in 1 .. n : batch'[c][i] = w[i]
      BY <2>2, <2>3
    <2>5. /\ wire'[c] \in Seq(Written(Peer(c)))
          /\ Len(wire'[c]) = Len(w) - n
          /\ \A i \in 1 .. Len(w) - n : wire'[c][i] = w[n + i]
      BY <2>2, <2>3
    <2>6. \A i \in 1 .. Len(w) - n : n + i \in 1 .. Len(w)
      BY <2>3
    <2>7. \A i \in 1 .. n : i \in 1 .. Len(w)
      BY <2>3
    <2>8. \A i, j \in 1 .. Len(wire'[c]) :
            i <= j => NoLater(wire'[c][i], wire'[c][j])
      BY <1>1, <1>4, <2>5, <2>6, <2>3 DEF InFlight
    <2>9. \A i \in 1 .. Len(batch'[c]), j \in 1 .. Len(wire'[c]) :
            NoLater(batch'[c][i], wire'[c][j])
      <3>1. \A i \in 1 .. n, j \in 1 .. Len(w) - n : i <= n + j
        BY <2>3
      <3> QED BY <1>1, <1>4, <2>4, <2>5, <2>6, <2>7, <3>1 DEF InFlight
    <2>10. \A j \in 1 .. Len(wire'[c]) :
             wire'[c][j].type = "INPUT" => TNRWAT[c] <= wire'[c][j].tick
      BY <1>1, <1>4, <2>5, <2>6 DEF InFlight
    <2>11. \A j \in 1 .. Len(w) :
             w[j].type = "INPUT"
               => /\ w[j].tick \in TND .. TNTICK[Peer(c)] + TND
                  /\ w[j].tick >= TNRWAT[c] /\ w[j].tick >= Holds(c)
                  /\ w[j].tick <= Holds(c) + Reach
      <3> SUFFICES ASSUME NEW j \in 1 .. Len(w), w[j].type = "INPUT"
          PROVE  /\ w[j].tick \in TND .. TNTICK[Peer(c)] + TND
                 /\ w[j].tick >= TNRWAT[c] /\ w[j].tick >= Holds(c)
                 /\ w[j].tick <= Holds(c) + Reach
        OBVIOUS
      <3>1. w[j] \in Written(Peer(c))
        BY <2>3
      <3>2. w[j].tick \in TND .. TNTICK[Peer(c)] + TND
        BY <3>1 DEF Written
      <3>3. w[j].tick \in Int
        BY <3>2, LeadFacts, ConstantsAssumption
      <3>4. w[j].tick >= TNRWAT[c]
        BY <1>1, <1>4 DEF InFlight
      <3>5. w[j].tick >= Holds(c)
        BY <3>2, <3>3, <3>4, ConstantsAssumption DEF Holds
      <3>6. w[j].tick <= Holds(c) + Reach
        <4>1. /\ TNTICK[Peer(c)] + TND - Holds(c) <= Reach
              /\ TNTICK[Peer(c)] \in Int /\ Holds(c) \in Int
          BY LeadFacts
        <4> QED BY <3>2, <3>3, <4>1, ReachFacts, ConstantsAssumption
      <3> QED BY <3>2, <3>4, <3>5, <3>6
    <2>12. \A i, j \in 1 .. Len(batch'[c]) :
             batch'[c][j].type = "INPUT"
               => Recent(batch'[c][i], batch'[c][j].tick)
      <3> SUFFICES ASSUME NEW i \in 1 .. n, NEW j \in 1 .. n,
                          w[i].type = "INPUT", w[j].type = "INPUT"
                   PROVE  w[j].tick - w[i].tick <= Reach
        BY <2>4 DEF Recent
      <3>1. w[i].tick \in Int /\ w[j].tick \in Int
        BY <2>7, <2>11, LeadFacts, ConstantsAssumption
      <3> QED BY <2>7, <2>11, <3>1, LeadFacts, ReachFacts
    <2>13. \A i \in 1 .. Len(batch'[c]) : Recent(batch'[c][i], TNRWAT[c])
      <3> SUFFICES ASSUME NEW i \in 1 .. n, w[i].type = "INPUT"
                   PROVE  TNRWAT[c] - w[i].tick <= Reach
        BY <2>4 DEF Recent
      <3>1. w[i].tick \in Int /\ TNRWAT[c] \in Int
        BY <2>7, <2>11, LeadFacts, ConstantsAssumption
      <3> QED BY <2>7, <2>11, <3>1, ReachFacts
    <2> QED BY <1>1, <1>2, <1>4, <2>4, <2>5, <2>8, <2>9, <2>10, <2>12, <2>13
            DEF InFlight, NoLater, Recent
  <1> QED BY <1>3, <1>4

\* A consumed record was older than the whole stream and, in ticks, close to
\* what is left of its batch.
LEMMA LinkConsume ==
  ASSUME LInv, NEW c \in Console, Consume(c)
  PROVE  LinkInv'
  <1> SUFFICES ASSUME NEW k \in Console PROVE InFlight(k)'
    BY DEF LinkInv
  <1> USE DEF LInv
  <1>1. /\ InFlight(k) /\ Peer(k) \in Console /\ TNTICK' = TNTICK
        /\ wire' = wire
    BY PeerFacts DEF LinkInv, Consume, consoleVars
  <1>2. Written(Peer(k))' = Written(Peer(k))
    BY <1>1 DEF Written
  <1>3. CASE k # c
    <2>1. batch'[k] = batch[k] /\ TNRWAT'[k] = TNRWAT[k]
      BY <1>3 DEF Consume, TypeOK
    <2> QED BY <1>1, <1>2, <2>1 DEF InFlight, NoLater, Recent
  <1>4. CASE k = c
    <2> DEFINE b == batch[c]
               n == Len(b) - 1
               r == NextRecord(c)
    <2>1. b \in Seq(Written(Peer(c))) /\ b # <<>>
      BY <1>1, <1>4 DEF Consume, InFlight
    <2>2. /\ Len(b) \in 1 .. Len(b) /\ Len(b) \in Nat /\ n \in Nat
          /\ r = b[Len(b)] /\ r \in Written(Peer(c))
      BY <2>1 DEF NextRecord
    <2>3. batch'[c] = SubSeq(b, 1, n)
      BY DEF Consume, TypeOK
    <2>4. /\ batch'[c] \in Seq(Written(Peer(c)))
          /\ Len(batch'[c]) = n
          /\ \A i \in 1 .. n : batch'[c][i] = b[i] /\ i \in 1 .. Len(b)
      BY <2>1, <2>2, <2>3
    <2>5. /\ \A i \in 1 .. n, j \in 1 .. Len(wire[c]) :
               NoLater(batch'[c][i], wire[c][j])
          /\ \A i, j \in 1 .. n :
               batch'[c][j].type = "INPUT"
                 => Recent(batch'[c][i], batch'[c][j].tick)
      BY <1>1, <1>4, <2>4 DEF InFlight
    <2>6. CASE TNRWAT' = TNRWAT
      <3>1. \A i \in 1 .. n : Recent(batch'[c][i], TNRWAT[c])
        BY <1>1, <1>4, <2>4 DEF InFlight
      <3> QED BY <1>1, <1>2, <1>4, <2>4, <2>5, <2>6, <3>1
              DEF InFlight, NoLater, Recent
    <2>7. CASE TNRWAT' # TNRWAT
      <3>1. r.type = "INPUT" /\ TNRWAT'[c] = r.tick
        <4>1. r.type # "LEFT" /\ TNRWAT' = [TNRWAT EXCEPT ![c] = r.tick]
          BY <2>7 DEF Consume, TypeOK
        <4>2. r.type = "INPUT"
          BY <2>2, <4>1 DEF Written, Record, InputRecord, LeftRecord
        <4> QED BY <4>1, <4>2 DEF TypeOK
      <3>2. \A j \in 1 .. Len(wire[c]) :
              wire[c][j].type = "INPUT" => TNRWAT'[c] <= wire[c][j].tick
        BY <1>1, <1>4, <2>2, <3>1 DEF InFlight, NoLater
      <3>3. \A i \in 1 .. n : Recent(batch'[c][i], TNRWAT'[c])
        BY <1>1, <1>4, <2>2, <2>4, <3>1 DEF InFlight
      <3>4. /\ wire'[c] \in Seq(Written(Peer(c))')
            /\ batch'[c] \in Seq(Written(Peer(c))')
            /\ \A i, j \in 1 .. Len(wire'[c]) :
                 i <= j => NoLater(wire'[c][i], wire'[c][j])
        BY <1>1, <1>2, <1>4, <2>4 DEF InFlight
      <3> QED BY <1>1, <1>4, <2>4, <2>5, <3>2, <3>3, <3>4 DEF InFlight
    <2> QED BY <1>4, <2>6, <2>7
  <1> QED BY <1>3, <1>4

\* Every step keeps the records in order.
LEMMA LinkStep == LInv /\ [Next]_vars => LinkInv'
  <1> SUFFICES ASSUME LInv, [Next]_vars PROVE LinkInv'
    OBVIOUS
  <1> USE DEF LInv
  <1>1. CASE UNCHANGED vars
    BY <1>1, LinkUnmoved DEF vars, TypeOK
  <1>2. ASSUME NEW c \in Console, RunTick(c) \/ StallTick(c) PROVE LinkInv'
    <2>1. EnterTick(c) /\ UNCHANGED <<wire, batch, TNRWAT>>
      BY <1>2 DEF RunTick, StallTick
    <2>2. \A k \in Console : TNTICK'[k] \in Int /\ TNTICK'[k] >= TNTICK[k]
      BY <2>1 DEF EnterTick, BoundaryTick, TypeOK
    <2> QED BY <2>1, <2>2, LinkUnmoved
  <1>3. ASSUME NEW c \in Console,
               MidTick(c) \/ NothingToRead(c) \/ ConsumeDone(c)
        PROVE  LinkInv'
    <2>1. UNCHANGED <<wire, batch, TNRWAT, TNTICK>>
      BY <1>3 DEF MidTick, NothingToRead, ConsumeDone, consoleVars
    <2>2. \A k \in Console : TNTICK'[k] \in Int /\ TNTICK'[k] >= TNTICK[k]
      BY <2>1 DEF TypeOK
    <2> QED BY <2>1, <2>2, LinkUnmoved
  <1> QED BY <1>1, <1>2, <1>3, LinkLeave, LinkWrite, LinkFetch, LinkConsume
          DEF Next

-----------------------------------------------------------------------------
(* The theorems *)

\* The inductive invariant.
LEMMA LeadInvariant == Spec => []LInv
  <1>1. LInv /\ [Next]_vars => LInv'
    <2>1. TypeOK /\ [Next]_vars => TypeOK'
      BY TypeStep
    <2> QED BY <2>1, LeadStep, LinkStep DEF LInv
  <1> QED BY <1>1, LeadInit, PTL DEF Spec

\* However frames, transports and network interleave, neither console enters
\* more than TND + 1 ticks more than the other: the stall at the gate of
\* tnmix.inc is all that holds it, and it is enough.
THEOREM LeadIsBounded == Spec => []LeadBound
  <1>1. LInv => LeadBound
    BY LeadFacts, ConstantsAssumption DEF LInv, LeadBound
  <1> QED BY <1>1, LeadInvariant, PTL

\* No tick comparison of tnmix.inc or tnnet.inc is ever fooled by the low byte
\* it is made on: the gate's, the watermark's and the checksum's.
THEOREM WrapIsInvisible == Spec => []WrapInvisible
  <1>1. ASSUME LInv PROVE WrapInvisible
    <2> SUFFICES ASSUME NEW c \in Console
        PROVE /\ Gate(c, BoundaryTick(c)) <=> TNRWAT[c] >= BoundaryTick(c)
              /\ \A r \in InTransit(Peer(c)) :
                   /\ Newer(c, r) <=> r.tick >= TNRWAT[c]
                   /\ Comparable(c, r) <=> r.tick - TND = TNTICK[c]
      BY DEF WrapInvisible
    <2>1. TypeOK /\ LeadInv /\ InFlight(c) /\ Peer(Peer(c)) = c
      BY <1>1, PeerFacts DEF LInv, LinkInv
    <2>2. Gate(c, BoundaryTick(c)) <=> TNRWAT[c] >= BoundaryTick(c)
      BY <2>1, GateExact
    <2>3. ASSUME NEW r \in InTransit(Peer(c))
          PROVE  /\ Newer(c, r) <=> r.tick >= TNRWAT[c]
                 /\ Comparable(c, r) <=> r.tick - TND = TNTICK[c]
      <3>1. /\ r.type = "INPUT"
            /\ \/ \E i \in 1 .. Len(wire[c]) : r = wire[c][i]
               \/ \E i \in 1 .. Len(batch[c]) : r = batch[c][i]
        BY <2>1 DEF InTransit
      <3>2. r \in Written(Peer(c))
        BY <2>1, <3>1 DEF InFlight
      <3>3. Recent(r, TNRWAT[c])
        <4>1. CASE \E i \in 1 .. Len(wire[c]) : r = wire[c][i]
          <5>1. TNRWAT[c] <= r.tick
            BY <2>1, <3>1, <4>1 DEF InFlight
          <5>2. r.tick \in Int /\ TNRWAT[c] \in Int
            BY <2>1, <3>1, <3>2, LeadFacts DEF Written, Record, InputRecord,
               LeftRecord
          <5> QED BY <5>1, <5>2, ReachFacts DEF Recent
        <4>2. CASE \E i \in 1 .. Len(batch[c]) : r = batch[c][i]
          BY <2>1, <4>2 DEF InFlight
        <4> QED BY <3>1, <4>1, <4>2
      <3> QED BY <2>1, <3>1, <3>2, <3>3, RecordFacts
    <2> QED BY <2>2, <2>3
  <1> QED BY <1>1, LeadInvariant, PTL

\* No record, however late or repeated, pulls the watermark of tnnet.inc back.
THEOREM WatermarkNeverFalls == Spec => WatermarkMonotone
  <1> DEFINE Rises == \A c \in Console : TNRWAT'[c] >= TNRWAT[c]
  <1>1. ASSUME LInv, [Next]_vars PROVE [Rises]_TNRWAT
    <2>1. CASE TNRWAT' = TNRWAT
      BY <2>1
    <2>2. CASE TNRWAT' # TNRWAT
      <3>1. PICK c \in Console : Consume(c)
        BY <1>1, <2>2 DEF Next, vars, RunTick, StallTick, MidTick, Leave,
           Write, Fetch, NothingToRead, ConsumeDone
      <3> DEFINE r == NextRecord(c)
      <3>2. TypeOK /\ LeadInv /\ InFlight(c)
        BY <1>1 DEF LInv, LinkInv
      <3>3. Len(batch[c]) \in 1 .. Len(batch[c]) /\ r = batch[c][Len(batch[c])]
        BY <3>1, <3>2 DEF Consume, NextRecord, InFlight
      <3>4. r \in Written(Peer(c)) /\ Recent(r, TNRWAT[c])
        BY <3>2, <3>3 DEF InFlight
      <3>5. /\ r.type # "LEFT" /\ Newer(c, r)
            /\ TNRWAT' = [TNRWAT EXCEPT ![c] = r.tick]
        BY <2>2, <3>1, <3>2 DEF Consume, TypeOK
      <3>6. r.type = "INPUT"
        BY <3>4, <3>5 DEF Written, Record, InputRecord, LeftRecord
      <3>7. r.tick >= TNRWAT[c]
        BY <3>2, <3>4, <3>5, <3>6, RecordFacts
      <3>8. Rises
        BY <3>2, <3>5, <3>7 DEF TypeOK
      <3> QED BY <3>8
    <2> QED BY <2>1, <2>2
  <1> QED BY <1>1, LeadInvariant, PTL DEF Spec, WatermarkMonotone

-----------------------------------------------------------------------------
(* What the other components take from the lead *)

\* How far the peer's records reach past the tick a console is in, which is
\* all that Watchdog keeps of the lockstep.
ReadyFits == \A c \in Console :
  /\ TNRWAT[c] - TNTICK[c] <= 2 * TND + 1
  /\ Gate(c, BoundaryTick(c)) <=> TNRWAT[c] - BoundaryTick(c) >= 0

\* The record a console would write now: no older than any of its records
\* before it, and at most TND + 1 ticks past the newest one its peer's stream
\* has delivered.  CrcLog's streams are those that satisfy this.
StreamFits == \A c \in Console : TNTICK[c] >= 0 =>
  /\ Outgoing(c).tick \in TND .. Holds(c) + TND + 1
  /\ Holds(Peer(c)) <= Outgoing(c).tick
  /\ \A r \in InTransit(c) : r.tick <= Outgoing(c).tick

\* The environment Watchdog gives the stall counters of TNSTALLN is the one
\* the two consoles are to each other: the records of a peer reach at most
\* 2 * TND + 1 ticks past the tick a console is in, and the sign of that
\* distance at a boundary is what the gate of tnmix.inc decides by.
THEOREM WatchdogIsFed == Spec => []ReadyFits
  <1>1. ASSUME LInv PROVE ReadyFits
    <2> SUFFICES ASSUME NEW c \in Console
        PROVE /\ TNRWAT[c] - TNTICK[c] <= 2 * TND + 1
              /\ Gate(c, BoundaryTick(c)) <=> TNRWAT[c] - BoundaryTick(c) >= 0
      BY DEF ReadyFits
    <2>1. TypeOK /\ LeadInv /\ Peer(c) \in Console /\ Peer(Peer(c)) = c
      BY <1>1, PeerFacts DEF LInv
    <2>2. /\ TNTICK[c] \in Int /\ TNTICK[Peer(c)] \in Int
          /\ TNRWAT[c] \in Int /\ Holds(c) \in Int
          /\ TNRWAT[c] <= Holds(c) /\ Holds(c) <= TNTICK[Peer(c)] + TND
          /\ TNTICK[Peer(c)] <= TNTICK[c] + TND + 1
      BY <2>1, LeadFacts
    <2>3. TNRWAT[c] - TNTICK[c] <= 2 * TND + 1
      BY <2>2, ConstantsAssumption
    <2>4. /\ BoundaryTick(c) \in Int
          /\ Gate(c, BoundaryTick(c)) <=> TNRWAT[c] >= BoundaryTick(c)
      BY <2>1, GateExact
    <2> QED BY <2>2, <2>3, <2>4
  <1> QED BY <1>1, LeadInvariant, PTL

\* The two streams that CrcLog takes as given are the ones two consoles write
\* (TNSWISS of tnnet.inc): within a stream ticks do not fall, and none is more
\* than TND + 1 past the newest the other stream has delivered.  The latter is
\* a record the relay has passed on, so log_crc has seen it.
THEOREM StreamsFitTheLog == Spec => []StreamFits
  <1>1. ASSUME LInv PROVE StreamFits
    <2> SUFFICES ASSUME NEW c \in Console, TNTICK[c] >= 0
        PROVE /\ Outgoing(c).tick \in TND .. Holds(c) + TND + 1
              /\ Holds(Peer(c)) <= Outgoing(c).tick
              /\ \A r \in InTransit(c) : r.tick <= Outgoing(c).tick
      BY DEF StreamFits
    <2> DEFINE p == Peer(c)
    <2>1. TypeOK /\ LeadInv /\ p \in Console /\ Peer(p) = c /\ InFlight(p)
      BY <1>1, PeerFacts DEF LInv, LinkInv
    <2>2. /\ TNTICK[c] \in Int /\ Holds(c) \in Int /\ Holds(p) \in Int
          /\ Holds(p) <= TNTICK[c] + TND
      BY <2>1, LeadFacts
    <2>3. TNTICK[c] <= Holds(c) + 1
      BY <2>1, <2>2 DEF LeadInv, Lead
    <2>4. Outgoing(c).tick = TNTICK[c] + TND
      BY DEF Outgoing
    <2>5. ASSUME NEW r \in InTransit(c) PROVE r.tick <= TNTICK[c] + TND
      <3>1. /\ r.type = "INPUT"
            /\ \/ \E i \in 1 .. Len(wire[p]) : r = wire[p][i]
               \/ \E i \in 1 .. Len(batch[p]) : r = batch[p][i]
        BY DEF InTransit
      <3>2. r \in Written(c)
        BY <2>1, <3>1 DEF InFlight
      <3> QED BY <3>1, <3>2 DEF Written
    <2> QED BY <2>2, <2>3, <2>4, <2>5, ConstantsAssumption
  <1> QED BY <1>1, LeadInvariant, PTL

=============================================================================
