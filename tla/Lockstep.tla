------------------------------ MODULE Lockstep ------------------------------
(***************************************************************************)
(* Two consoles in a match: delay-based input lockstep over a pair of      *)
(* first-in first-out byte streams.                                        *)
(*                                                                         *)
(* A console's frame (src/src/tnmix.inc, TNNET) either re-uses the inputs  *)
(* of the tick it is in, or stands on a tick boundary: there it advances   *)
(* the tick, captures its own byte for the tick TND ahead and asks the     *)
(* gate whether the peer's byte for this tick has come.  Between frames    *)
(* the transport (src/src/tnnet.inc) steps: it writes the record of the    *)
(* tick it finds, fetches whole records and consumes them one a step.      *)
(* Nothing orders the transport against the frames, and nothing orders     *)
(* the two consoles but the records.                                       *)
(*                                                                         *)
(* TICKS ARE UNBOUNDED HERE AND COMPARED IN THEIR WIDTH.  The code keeps   *)
(* the low byte of a tick; the model keeps the whole tick and takes every  *)
(* comparison and every slot number the way the code does, on the tick     *)
(* modulo TICKS.  A byte of input is represented by what it is, the        *)
(* capture a console made for a tick, so a slot that holds the wrong       *)
(* capture shows, whatever the players pressed.                            *)
(***************************************************************************)
EXTENDS Integers, Sequences

CONSTANTS
  TNK,        \* frames in a tick
  TND,        \* the input delay, in ticks
  TICKS,      \* how many values the tick cell has: 256 in the code
  MaxAhead,   \* timing: how far a console's newest capture may run ahead of
              \* the newest one its peer has consumed, in ticks
  LastTick    \* bound: the last tick a console enters

ASSUME ConstantsAssumption ==
  /\ TNK \in Nat \ {0}
  /\ TND \in 1 .. 2
  /\ TICKS \in {32, 64, 128, 256}
  /\ MaxAhead \in Nat
  /\ LastTick \in Nat

Console == {"host", "guest"}

Peer(c) == IF c = "host" THEN "guest" ELSE "host"

\* The three states the micro-step machine spends its cycle in: about to
\* WRITE, about to ask STATUS and READ, and consuming what the READ brought.
\* The acknowledgement states between them poll the cartridge and are no
\* steps of their own here.
TransportState == {"WISS", "SISS", "CONS"}

TNWIN == 3

VARIABLES
  up,        \* is the console still in the match (TNE_NET)
  TNTICK,    \* the tick a console is in
  ran,       \* TNE_RAN: that tick has run
  phase,     \* TNE_PH: frame of the tick, 0 on a boundary
  TNLOC,     \* own captures, four slots by tick
  TNRING,    \* the peer's captures, eight slots by tick
  TNRWAT,    \* the highest tick received
  TNCRCV,    \* the simulation as sampled on entering the tick
  rsy,       \* TNE_RSY: a mismatch was seen, RESET will be pressed
  shadow,    \* the two bytes TNMIX turned into TNSWA, TNTRIG and TNSWB
  sim,       \* the game: frames simulated, and whose wrong byte split it
  TNNST,     \* the transport's state
  batch,     \* records fetched and not yet consumed (TNRDN of them)
  wire       \* wire[c]: records on their way to c

consoleVars == <<up, TNTICK, ran, phase, TNLOC, TNCRCV, shadow, sim>>
vars == <<up, TNTICK, ran, phase, TNLOC, TNRING, TNRWAT, TNCRCV, rsy, shadow,
          sim, TNNST, batch, wire>>

-----------------------------------------------------------------------------
(* Bytes, ticks and slots *)

\* The capture console c made for tick t; "again" marks one made over.
Byte(c, t) == [of |-> c, tick |-> t, again |-> FALSE]
Bytes == [of: Console, tick: Int, again: BOOLEAN]

\* A digest of the game.  The checksum is taken to tell any two games apart.
Sim == [n: Nat, split: Console \cup {"none"}]

InputRecord == [type: {"INPUT"}, tick: Int, win: [0 .. TNWIN - 1 -> Bytes],
                crc: Sim]
LeftRecord == [type |-> "LEFT"]

\* The sign the code's BMI and BPL see in an eight-bit difference.
SignedMutant(x) == x % TICKS
Signed(x) == LET low == x % TICKS
             IN  IF low < TICKS \div 2 THEN low ELSE low - TICKS

LocSlot(t) == t % 4
RingSlot(t) == t % 8

\* The last tick before TND that falls in slot s of n: the tick whose idle
\* byte the seed of that slot stands for.
SeedTick(s, n) == (TND - 1) - ((TND - 1 - s) % n)

-----------------------------------------------------------------------------
(* The handover: both consoles start here, and the game at its cold start. *)

Init ==
  /\ up = [c \in Console |-> TRUE]
  /\ TNTICK = [c \in Console |-> -1]
  /\ ran = [c \in Console |-> TRUE]
  /\ phase = [c \in Console |-> 0]
  /\ TNLOC = [c \in Console |-> [s \in 0 .. 3 |-> Byte(c, SeedTick(s, 4))]]
  /\ TNRING = [c \in Console |->
                 [s \in 0 .. 7 |-> Byte(Peer(c), SeedTick(s, 8))]]
  /\ TNRWAT = [c \in Console |-> -2]
  /\ TNCRCV = [c \in Console |-> [n |-> 0, split |-> "none"]]
  /\ rsy = [c \in Console |-> FALSE]
  /\ shadow = [c \in Console |-> <<Byte("host", -1), Byte("guest", -1)>>]
  /\ sim = [c \in Console |-> [n |-> 0, split |-> "none"]]
  /\ TNNST = [c \in Console |-> "WISS"]
  /\ batch = [c \in Console |-> <<>>]
  /\ wire = [c \in Console |-> <<>>]

-----------------------------------------------------------------------------
(* The frame *)

\* The newest tick whose capture by the peer console c holds: the seeds serve
\* until the first record is in.
Holds(c) == IF TNRWAT[c] < TND - 1 THEN TND - 1 ELSE TNRWAT[c]

\* Timing and bound: a console enters a tick only while its captures reach
\* the peer in time.  The consoles themselves guarantee 2 * TND + 2.
Timely(c) ==
  /\ TNTICK[c] < LastTick
  /\ TNTICK[c] + 1 + TND - Holds(Peer(c)) <= MaxAhead

BoundaryTickMutant(c) == TNTICK[c] + 1

\* The tick a boundary stands on: one further only if the last one ran.
BoundaryTick(c) == IF ran[c] THEN TNTICK[c] + 1 ELSE TNTICK[c]

Capture(c, t) ==
  [of |-> c, tick |-> t, again |-> TNLOC[c][LocSlot(t)].tick = t]

LocalRingMutant(c) ==
  LET t == BoundaryTick(c) + TND
  IN  [TNLOC[c] EXCEPT ![LocSlot(t)] = Capture(c, t)]

\* The local ring after the boundary: a capture only if the tick advanced.
LocalRing(c) ==
  LET t == TNTICK[c] + 1 + TND
  IN  IF ran[c] THEN [TNLOC[c] EXCEPT ![LocSlot(t)] = Capture(c, t)]
                ELSE TNLOC[c]

GateMutant(c, t) == Signed(TNRWAT[c] - t) >= -1

\* Has the peer's input for tick t arrived?
Gate(c, t) == Signed(TNRWAT[c] - t) >= 0

\* The part of a boundary that comes before the gate.
EnterTick(c) ==
  /\ ran[c] => Timely(c)
  /\ TNTICK' = [TNTICK EXCEPT ![c] = BoundaryTick(c)]
  /\ TNCRCV' = [TNCRCV EXCEPT ![c] = IF ran[c] THEN sim[c] ELSE @]
  /\ TNLOC' = [TNLOC EXCEPT ![c] = LocalRing(c)]
  /\ rsy' = [rsy EXCEPT ![c] = @ /\ ~ran[c]]

PortOrderMutant(c, own, peer) == <<own, peer>>

\* The host is port 0: the guest's own byte and the peer's change places.
PortOrder(c, own, peer) ==
  IF c = "guest" THEN <<peer, own>> ELSE <<own, peer>>

NextPhaseMutant(c) == phase[c] + 1

\* Every frame whose logic runs bumps the phase; the carry out is discarded.
NextPhase(c) == (phase[c] + 1) % TNK

\* One pass of the game logic.  A console that runs on other bytes than the
\* two captures of the tick has a game of its own from there on.
Simulated(c, honest) ==
  [n |-> sim[c].n + 1,
   split |-> IF honest \/ sim[c].split # "none" THEN sim[c].split ELSE c]

\* A boundary whose tick runs: mix the two bytes, mark the tick as run, bump
\* the phase; the game logic of the frame follows.
RunTick(c) ==
  LET t == BoundaryTick(c)
      bytes == PortOrder(c, LocalRing(c)[LocSlot(t)], TNRING[c][RingSlot(t)])
  IN  /\ up[c] /\ phase[c] = 0 /\ Gate(c, t)
      /\ EnterTick(c)
      /\ shadow' = [shadow EXCEPT ![c] = bytes]
      /\ ran' = [ran EXCEPT ![c] = TRUE]
      /\ phase' = [phase EXCEPT ![c] = NextPhase(c)]
      /\ sim' = [sim EXCEPT ![c] =
                   Simulated(c, bytes = <<Byte("host", t), Byte("guest", t)>>)]
      /\ UNCHANGED <<up, TNRING, TNRWAT, TNNST, batch, wire>>

\* A boundary the gate holds: the phase stays, no game logic, same boundary
\* on the next frame.  The stall counters TNSTDV and TNERR are not kept here.
StallTick(c) ==
  /\ up[c] /\ phase[c] = 0 /\ ~Gate(c, BoundaryTick(c))
  /\ EnterTick(c)
  /\ ran' = [ran EXCEPT ![c] = FALSE]
  /\ UNCHANGED <<up, phase, shadow, sim, TNRING, TNRWAT, TNNST, batch, wire>>

\* A frame inside a tick: the shadows stand, the phase goes on.
MidTick(c) ==
  /\ up[c] /\ phase[c] # 0
  /\ phase' = [phase EXCEPT ![c] = NextPhase(c)]
  /\ sim' = [sim EXCEPT ![c] = Simulated(c, TRUE)]
  /\ UNCHANGED <<up, TNTICK, ran, TNLOC, TNRING, TNRWAT, TNCRCV, rsy, shadow,
                 TNNST, batch, wire>>

\* The stall watchdog tops out: the console leaves the match.  How many
\* stalled frames that takes is left open, so a leave may come on any frame
\* that stalls again.  The relay closes up behind it: its connection drops,
\* a peer still in the match is told.
Leave(c) ==
  /\ up[c] /\ phase[c] = 0 /\ ~ran[c] /\ ~Gate(c, TNTICK[c])
  /\ up' = [up EXCEPT ![c] = FALSE]
  /\ batch' = [batch EXCEPT ![c] = <<>>]
  /\ wire' = [k \in Console |-> IF k # c /\ up[k]
                                THEN Append(wire[k], LeftRecord) ELSE <<>>]
  /\ UNCHANGED <<TNTICK, ran, phase, TNLOC, TNRING, TNRWAT, TNCRCV, rsy,
                 shadow, sim, TNNST>>

-----------------------------------------------------------------------------
(* The transport *)

WindowMutant(c, t) == [i \in 0 .. TNWIN - 1 |-> TNLOC[c][LocSlot(t + i - 2)]]

\* The window of a record: its tick and the two before it, newest first.
Window(c, t) == [i \in 0 .. TNWIN - 1 |-> TNLOC[c][LocSlot(t - i)]]

SampledCrcMutant(c) == sim[c]

\* The checksum that goes in a record is the one of the last boundary.
SampledCrc(c) == TNCRCV[c]

Outgoing(c) ==
  LET t == TNTICK[c] + TND
  IN  [type |-> "INPUT", tick |-> t, win |-> Window(c, t),
       crc |-> SampledCrc(c)]

\* WRITE, and the relay passes the record on to the peer's stream.  A second
\* copy right behind the first is carried as one; once the first has been
\* fetched the copy is a record of its own.
Write(c) ==
  LET p == Peer(c)
      repeated == wire[p] # <<>> /\ wire[p][Len(wire[p])] = Outgoing(c)
  IN  /\ up[c] /\ TNNST[c] = "WISS" /\ TNTICK[c] >= 0
      /\ wire' = [wire EXCEPT ![p] = IF repeated \/ ~up[p] THEN @
                                     ELSE Append(@, Outgoing(c))]
      /\ TNNST' = [TNNST EXCEPT ![c] = "SISS"]
      /\ UNCHANGED <<up, TNTICK, ran, phase, TNLOC, TNRING, TNRWAT, TNCRCV,
                     rsy, shadow, sim, batch>>

\* STATUS and READ: the whole records that have arrived, however many.
Fetch(c) ==
  /\ up[c] /\ TNNST[c] = "SISS"
  /\ \E k \in 1 .. Len(wire[c]) :
       /\ batch' = [batch EXCEPT ![c] = SubSeq(wire[c], 1, k)]
       /\ wire' = [wire EXCEPT ![c] = SubSeq(@, k + 1, Len(@))]
  /\ TNNST' = [TNNST EXCEPT ![c] = "CONS"]
  /\ UNCHANGED <<consoleVars, TNRING, TNRWAT, rsy>>

\* STATUS finds nothing whole waiting, or the transaction failed: start over.
NothingToRead(c) ==
  /\ up[c] /\ TNNST[c] = "SISS"
  /\ TNNST' = [TNNST EXCEPT ![c] = "WISS"]
  /\ UNCHANGED <<consoleVars, TNRING, TNRWAT, rsy, batch, wire>>

StoredMutant(c, r) == [TNRING[c] EXCEPT ![RingSlot(r.tick)] = r.win[0]]

\* Each byte of the window goes to the slot of its own tick, newest first.
Stored(c, r) == [TNRING[c] EXCEPT ![RingSlot(r.tick)] = r.win[0],
                                  ![RingSlot(r.tick - 1)] = r.win[1],
                                  ![RingSlot(r.tick - 2)] = r.win[2]]

\* The peer sampled its checksum on the tick this console is in.
Comparable(c, r) == (r.tick - TND - TNTICK[c]) % TICKS = 0

NewerMutant(c, r) == TRUE

\* Only a record that is newer raises the watermark.
Newer(c, r) == Signed(r.tick - TNRWAT[c]) >= 0

\* The record a CONSUME step takes: the batch is walked backwards.
NextRecord(c) == batch[c][Len(batch[c])]

\* CONSUME, one record a step.
Consume(c) ==
  LET r == NextRecord(c)
  IN  /\ up[c] /\ TNNST[c] = "CONS" /\ batch[c] # <<>>
      /\ batch' = [batch EXCEPT ![c] = SubSeq(@, 1, Len(@) - 1)]
      /\ IF r.type = "LEFT" THEN UNCHANGED <<TNRING, TNRWAT, rsy>>
         ELSE /\ TNRING' = [TNRING EXCEPT ![c] = Stored(c, r)]
              /\ rsy' = [rsy EXCEPT ![c] =
                           @ \/ (Comparable(c, r) /\ r.crc # TNCRCV[c])]
              /\ TNRWAT' = [TNRWAT EXCEPT ![c] =
                              IF Newer(c, r) THEN r.tick ELSE @]
      /\ UNCHANGED <<consoleVars, TNNST, wire>>

ConsumeDoneMutant(c) ==
  /\ up[c] /\ TNNST[c] = "CONS" /\ batch[c] = <<>>
  /\ TNNST' = [TNNST EXCEPT ![c] = "SISS"]
  /\ UNCHANGED <<consoleVars, TNRING, TNRWAT, rsy, batch, wire>>

\* The batch is used up: WRITE comes next.
ConsumeDone(c) ==
  /\ up[c] /\ TNNST[c] = "CONS" /\ batch[c] = <<>>
  /\ TNNST' = [TNNST EXCEPT ![c] = "WISS"]
  /\ UNCHANGED <<consoleVars, TNRING, TNRWAT, rsy, batch, wire>>

-----------------------------------------------------------------------------
Next == \E c \in Console :
  \/ RunTick(c) \/ StallTick(c) \/ MidTick(c) \/ Leave(c)
  \/ Write(c) \/ Fetch(c) \/ NothingToRead(c) \/ Consume(c) \/ ConsumeDone(c)

Spec == Init /\ [][Next]_vars

\* The frame loop never stops and steps the transport in its slack; the
\* network delivers, though not on the first time of asking.
Fairness == \A c \in Console :
  /\ WF_vars(RunTick(c) \/ StallTick(c) \/ MidTick(c))
  /\ WF_vars(Write(c) \/ NothingToRead(c) \/ Consume(c) \/ ConsumeDone(c))
  /\ SF_vars(Fetch(c))

FairSpec == Spec /\ Fairness

-----------------------------------------------------------------------------
(* Properties *)

\* The rings have four and eight slots, the phase stays within a tick, the
\* transport is in one of its states.
TypeOK ==
  /\ up \in [Console -> BOOLEAN]
  /\ TNTICK \in [Console -> Int]
  /\ ran \in [Console -> BOOLEAN]
  /\ phase \in [Console -> 0 .. TNK - 1]
  /\ TNLOC \in [Console -> [0 .. 3 -> Bytes]]
  /\ TNRING \in [Console -> [0 .. 7 -> Bytes]]
  /\ TNRWAT \in [Console -> Int]
  /\ TNCRCV \in [Console -> Sim]
  /\ rsy \in [Console -> BOOLEAN]
  /\ shadow \in [Console -> Bytes \X Bytes]
  /\ sim \in [Console -> Sim]
  /\ TNNST \in [Console -> TransportState]
  /\ batch \in [Console -> Seq(InputRecord \cup {LeftRecord})]
  /\ wire \in [Console -> Seq(InputRecord \cup {LeftRecord})]

\* Both consoles play a tick on the same two bytes, each in its own port: the
\* captures the two players' consoles made for that very tick.
Agreement == \A c \in Console :
  ran[c] => shadow[c] = <<Byte("host", TNTICK[c]), Byte("guest", TNTICK[c])>>

\* The watermark tells the truth: of every tick from the current one up to it
\* the ring holds the peer's capture.  The gate looks at nothing else.
NoHole == \A c \in Console :
  \A t \in TNTICK[c] .. TNRWAT[c] : TNRING[c][RingSlot(t)] = Byte(Peer(c), t)

\* The match as the game sees it is lockstep on the captured inputs.
Promise == INSTANCE InputLockstep
             WITH D <- TND, tick <- TNTICK, played <- ran, view <- shadow
KeepsThePromise == Promise!Spec

\* However the frames, the transports and the network interleave, a console
\* enters at most TND + 1 ticks more than its peer has: it stalls in the tick
\* whose byte the peer has not captured.
LeadBound == \A c \in Console : TNTICK[c] <= TNTICK[Peer(c)] + TND + 1

\* The records of console c that its peer has not consumed.
InTransit(c) ==
  LET p == Peer(c)
  IN  {r \in {wire[p][i] : i \in 1 .. Len(wire[p])}
             \cup {batch[p][i] : i \in 1 .. Len(batch[p])} : r.type = "INPUT"}

\* A record, once sent, is immutable, and reaches back no further than the
\* local ring still holds: every byte of every record on its way is the first
\* capture its sender made for that tick.
RecordsHonest == \A c \in Console : \A r \in InTransit(c) :
  \A i \in 0 .. TNWIN - 1 : r.win[i] = Byte(c, r.tick - i)

\* How many frames a console has simulated follows from its tick and phase
\* alone, however differently the two consoles stalled: this is what makes
\* two samples of the same tick samples of the same instant.
FramesFollowTicks == \A c \in Console :
  sim[c].n = TNK * TNTICK[c]
             + (IF ran[c] /\ phase[c] = 0 THEN TNK ELSE phase[c])

\* The repair is never armed between two consoles whose games are one game:
\* records of other ticks, old copies and stalls raise no false alarm.
NoFalseAlarm == (\E c \in Console : rsy[c])
                  => \E c \in Console : sim[c].split # "none"

\* Every comparison of ticks the code makes on the low byte comes out as it
\* would on the whole ticks: the wrap of TNTICK is invisible.
WrapInvisible == \A c \in Console :
  /\ Gate(c, BoundaryTick(c)) <=> TNRWAT[c] >= BoundaryTick(c)
  /\ \A r \in InTransit(Peer(c)) :
       /\ Newer(c, r) <=> r.tick >= TNRWAT[c]
       /\ Comparable(c, r) <=> r.tick - TND = TNTICK[c]

\* A batch is consumed newest first and copies of old records come late; none
\* of them pulls the watermark back.
WatermarkMonotone == [][\A c \in Console : TNRWAT'[c] >= TNRWAT[c]]_TNRWAT

\* Neither console starves the other: while both are in the match, both get to
\* run the last tick, though they wait for one another and the network is slow.
BothFinish ==
  <>(\/ \A c \in Console : TNTICK[c] = LastTick /\ ran[c]
     \/ \E c \in Console : ~up[c])

-----------------------------------------------------------------------------
(* Two claims of the source that the code does not keep *)

\* The gate is open and the ring holds no capture of the peer for this tick.
PlaysAHole(c) ==
  LET t == BoundaryTick(c)
  IN  /\ up[c] /\ phase[c] = 0 /\ Gate(c, t)
      /\ TNRING[c][RingSlot(t)] # Byte(Peer(c), t)

\* The missing byte is in a record fetched and not yet consumed.
StillInBatch(c) == \E i \in 1 .. Len(batch[c]) :
  LET r == batch[c][i]
  IN  r.type = "INPUT" /\ r.tick - BoundaryTick(c) \in 0 .. TNWIN - 1

\* tnnet.inc on CONSUME: "Order does not matter, because every record carries
\* its own tick and writes its own ring slot."
OrderDoesNotMatter == \A c \in Console : ~(PlaysAHole(c) /\ StillInBatch(c))

\* tnnet.inc on the window: "the hole never reaches the gate", since the next
\* record or the one after that fills in one that was never sent.
HoleNeverReachesTheGate == \A c \in Console :
  ~(PlaysAHole(c) /\ ~StillInBatch(c))
=============================================================================
