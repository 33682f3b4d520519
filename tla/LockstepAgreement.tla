-------------------------- MODULE LockstepAgreement --------------------------
(***************************************************************************)
(* Both consoles play every tick on the same two captures; and while their *)
(* two games are one, no checksum says otherwise.                          *)
(*                                                                         *)
(* Two invariants lead to the first.  HInv holds whatever the timing: the  *)
(* local ring keeps the last four captures, so a record never carries      *)
(* anything but first captures.  AInv needs MaxAhead <= TNWIN: no record   *)
(* may reach further past a console's newest byte than the window fills,   *)
(* else ticks in between are announced by the watermark and never stored.  *)
(* Two more lead to the second, whatever the timing: FInv counts a         *)
(* console's frames, SInv says what every checksum in the match is.        *)
(***************************************************************************)
EXTENDS LockstepProofs

\* The local ring holds the captures of the last four ticks.
Own(c) == \A t \in TNTICK[c] + TND - 3 .. TNTICK[c] + TND :
  TNLOC[c][LocSlot(t)] = Byte(c, t)

\* The records that carry nothing but console c's first captures.
Truthful(c) == {r \in Record : r.type = "INPUT" =>
  \A i \in 0 .. TNWIN - 1 : r.win[i] = Byte(c, r.tick - i)}

Honest(c) == /\ wire[c] \in Seq(Truthful(Peer(c)))
             /\ batch[c] \in Seq(Truthful(Peer(c)))

HInv == TypeOK /\ \A c \in Console : Own(c) /\ Honest(c)

\* The ring holds every byte from the current tick to the newest held one.
Filled(c) == \A t \in TNTICK[c] .. Holds(c) :
  TNRING[c][RingSlot(t)] = Byte(Peer(c), t)

Played(c) ==
  ran[c] => shadow[c] = <<Byte("host", TNTICK[c]), Byte("guest", TNTICK[c])>>

AInv == LInv /\ HInv /\ \A c \in Console : Filled(c) /\ Played(c)

-----------------------------------------------------------------------------
(* Slots *)

\* Ticks less than a ring apart have slots of their own.
LEMMA SlotsDiffer ==
  ASSUME NEW t \in Int, NEW u \in Int
  PROVE  /\ (t - u \in -3 .. 3 /\ LocSlot(t) = LocSlot(u)) => t = u
         /\ (t - u \in -7 .. 7 /\ RingSlot(t) = RingSlot(u)) => t = u
  BY DEF LocSlot, RingSlot

\* The idle bytes the rings are seeded with stand for the ticks up to TND - 1.
LEMMA SeedFacts ==
  ASSUME NEW t \in Int, t <= TND - 1
  PROVE  /\ t >= TND - 4 => SeedTick(LocSlot(t), 4) = t
         /\ t >= TND - 8 => SeedTick(RingSlot(t), 8) = t
  BY ConstantsAssumption DEF SeedTick, LocSlot, RingSlot

-----------------------------------------------------------------------------
(* Captures and records are honest, whatever the timing *)

\* The idle seeds count as captures of the ticks before TND.
LEMMA HonestInit == Init => HInv
  <1> SUFFICES ASSUME Init PROVE HInv
    OBVIOUS
  <1>1. ASSUME NEW c \in Console PROVE Own(c)
    <2> SUFFICES ASSUME NEW t \in TND - 4 .. TND - 1
                 PROVE  TNLOC[c][LocSlot(t)] = Byte(c, t)
      BY ConstantsAssumption DEF Init, Own
    <2>1. TNLOC[c][LocSlot(t)] = Byte(c, SeedTick(LocSlot(t), 4))
      BY SlotFacts, ConstantsAssumption DEF Init
    <2> QED BY <2>1, SeedFacts, ConstantsAssumption
  <1>2. ASSUME NEW c \in Console PROVE Honest(c)
    BY DEF Init, Honest
  <1> QED BY <1>1, <1>2, TypeInit DEF HInv

\* A boundary leaves the last four captures in the ring.
LEMMA OwnBoundary ==
  ASSUME HInv, NEW c \in Console, EnterTick(c)
  PROVE  /\ \A k \in Console : Own(k)'
         /\ TNLOC'[c] = LocalRing(c)
         /\ TNTICK'[c] = BoundaryTick(c)
  <1> USE DEF HInv
  <1>1. /\ TNLOC' = [TNLOC EXCEPT ![c] = LocalRing(c)]
        /\ TNTICK' = [TNTICK EXCEPT ![c] = BoundaryTick(c)]
    BY DEF EnterTick
  <1>2. /\ TNLOC'[c] = LocalRing(c) /\ TNTICK'[c] = BoundaryTick(c)
        /\ \A k \in Console : k # c => TNLOC'[k] = TNLOC[k]
                                       /\ TNTICK'[k] = TNTICK[k]
    BY <1>1 DEF TypeOK
  <1>3. ASSUME NEW k \in Console, k # c PROVE Own(k)'
    <2>1. Own(k)
      OBVIOUS
    <2> QED BY <1>2, <1>3, <2>1 DEF Own
  <1>4. Own(c)'
    <2> DEFINE n == TNTICK[c] + 1 + TND
    <2>1. Own(c) /\ TNTICK[c] \in Int /\ n \in Int /\ n - 4 \in Int
      BY ConstantsAssumption DEF TypeOK
    <2>2. CASE ~ran[c]
      BY <1>2, <2>1, <2>2 DEF Own, LocalRing, BoundaryTick
    <2>3. CASE ran[c]
      <3>1. TNTICK'[c] + TND = n /\ TNTICK'[c] + TND - 3 = n - 3
        BY <1>2, <2>1, <2>3, ConstantsAssumption DEF BoundaryTick
      <3>2. TNLOC'[c] = [TNLOC[c] EXCEPT ![LocSlot(n)] = Capture(c, n)]
        BY <1>2, <2>3 DEF LocalRing
      <3>3. TNLOC[c][LocSlot(n)] = Byte(c, n - 4)
        <4>1. LocSlot(n) = LocSlot(n - 4)
          BY <2>1 DEF LocSlot
        <4>2. n - 4 \in TNTICK[c] + TND - 3 .. TNTICK[c] + TND
          BY <2>1, ConstantsAssumption
        <4> QED BY <2>1, <4>1, <4>2 DEF Own
      <3>4. Capture(c, n) = Byte(c, n)
        <4>1. TNLOC[c][LocSlot(n)].tick # n
          BY <2>1, <3>3 DEF Byte
        <4> QED BY <4>1 DEF Capture, Byte
      <3>5. TNLOC[c] \in [0 .. 3 -> Bytes]
        BY DEF TypeOK
      <3>6. ASSUME NEW t \in n - 3 .. n
            PROVE  TNLOC'[c][LocSlot(t)] = Byte(c, t)
        <4>1. CASE t = n
          BY <2>1, <3>2, <3>4, <3>5, <4>1, SlotFacts
        <4>2. CASE t # n
          <5>1. LocSlot(t) # LocSlot(n) /\ LocSlot(t) \in 0 .. 3
            BY <2>1, <4>2, SlotsDiffer, SlotFacts
          <5>2. t \in TNTICK[c] + TND - 3 .. TNTICK[c] + TND
            BY <2>1, <4>2, ConstantsAssumption
          <5> QED BY <2>1, <3>2, <3>5, <5>1, <5>2 DEF Own
        <4> QED BY <4>1, <4>2
      <3> QED BY <3>1, <3>6 DEF Own
    <2> QED BY <2>2, <2>3
  <1> QED BY <1>2, <1>3, <1>4

\* The window WRITE sends lies within the four captures of the ring.
LEMMA OutgoingHonest ==
  ASSUME HInv, NEW c \in Console
  PROVE  Outgoing(c) \in Truthful(c)
  <1> USE DEF HInv
  <1>1. Outgoing(c) \in Record /\ TNTICK[c] \in Int /\ Own(c)
    BY OutgoingType DEF Record, TypeOK
  <1> DEFINE t == TNTICK[c] + TND
  <1>2. t \in Int /\ Outgoing(c).tick = t /\ Outgoing(c).win = Window(c, t)
    BY <1>1, ConstantsAssumption DEF Outgoing
  <1>3. \A u \in t - 3 .. t : TNLOC[c][LocSlot(u)] = Byte(c, u)
    BY <1>1, ConstantsAssumption DEF Own
  <1> HIDE DEF t
  <1>4. ASSUME NEW i \in 0 .. TNWIN - 1
        PROVE  Outgoing(c).win[i] = Byte(c, Outgoing(c).tick - i)
    <2>1. Window(c, t)[i] = TNLOC[c][LocSlot(t - i)]
      BY DEF Window
    <2>2. t - i \in t - 3 .. t
      BY <1>2 DEF TNWIN
    <2>3. TNLOC[c][LocSlot(t - i)] = Byte(c, t - i)
      BY <1>3, <2>2
    <2> QED BY <1>2, <2>1, <2>3
  <1> QED BY <1>1, <1>4 DEF Truthful

\* Every step keeps rings and records honest.
LEMMA HonestStep == HInv /\ [Next]_vars => HInv'
  <1> SUFFICES ASSUME HInv, [Next]_vars PROVE HInv'
    OBVIOUS
  <1>1. TypeOK'
    BY TypeStep DEF HInv
  <1>2. \A c \in Console : /\ Own(c) /\ wire[c] \in Seq(Truthful(Peer(c)))
                           /\ batch[c] \in Seq(Truthful(Peer(c)))
                           /\ LeftRecord \in Truthful(c)
    BY DEF HInv, Honest, Truthful, LeftRecord, Record
  <1>3. \A c \in Console : Own(c)'
    <2>1. CASE UNCHANGED <<TNLOC, TNTICK>>
      BY <1>2, <2>1 DEF Own
    <2>2. ASSUME NEW c \in Console, RunTick(c) \/ StallTick(c)
          PROVE  \A k \in Console : Own(k)'
      BY <2>2, OwnBoundary DEF RunTick, StallTick
    <2> QED BY <2>1, <2>2 DEF Next, vars, consoleVars, MidTick, Leave, Write,
               Fetch, NothingToRead, Consume, ConsumeDone
  <1>4. \A c \in Console : Honest(c)'
    <2> SUFFICES ASSUME NEW k \in Console PROVE Honest(k)'
      OBVIOUS
    <2>1. CASE UNCHANGED <<wire, batch>>
      BY <1>2, <2>1 DEF Honest
    <2>2. ASSUME NEW c \in Console, Leave(c) PROVE Honest(k)'
      <3>1. wire'[k] = <<>> \/ wire'[k] = Append(wire[k], LeftRecord)
        BY <2>2 DEF Leave
      <3>2. batch'[k] = <<>> \/ batch'[k] = batch[k]
        BY <2>2 DEF Leave, HInv, TypeOK
      <3>3. /\ wire[k] \in Seq(Truthful(Peer(k)))
            /\ batch[k] \in Seq(Truthful(Peer(k)))
            /\ LeftRecord \in Truthful(Peer(k))
        BY <1>2, PeerFacts
      <3>4. wire'[k] \in Seq(Truthful(Peer(k)))
        <4>1. CASE wire'[k] = <<>>
          BY <4>1
        <4>2. CASE wire'[k] = Append(wire[k], LeftRecord)
          BY <3>3, <4>2
        <4> QED BY <3>1, <4>1, <4>2
      <3>5. batch'[k] \in Seq(Truthful(Peer(k)))
        <4>1. CASE batch'[k] = <<>>
          BY <4>1
        <4>2. CASE batch'[k] = batch[k]
          BY <3>3, <4>2
        <4> QED BY <3>2, <4>1, <4>2
      <3> QED BY <3>4, <3>5 DEF Honest
    <2>3. ASSUME NEW c \in Console, Write(c) PROVE Honest(k)'
      <3>1. wire'[k] = wire[k]
            \/ (k = Peer(c) /\ wire'[k] = Append(wire[k], Outgoing(c)))
        BY <2>3, PeerFacts, SMTT(30) DEF Write, HInv, TypeOK
      <3>2. Outgoing(c) \in Truthful(c) /\ Peer(Peer(c)) = c
        BY OutgoingHonest, PeerFacts
      <3>3. batch' = batch
        BY <2>3 DEF Write
      <3>4. wire'[k] \in Seq(Truthful(Peer(k)))
        <4>1. CASE wire'[k] = wire[k]
          BY <1>2, <4>1
        <4>2. CASE k = Peer(c) /\ wire'[k] = Append(wire[k], Outgoing(c))
          BY <1>2, <3>2, <4>2
        <4> QED BY <3>1, <4>1, <4>2
      <3> QED BY <1>2, <3>3, <3>4 DEF Honest
    <2>4. ASSUME NEW c \in Console, Fetch(c) PROVE Honest(k)'
      <3>1. PICK n \in 1 .. Len(wire[c]) :
              /\ batch' = [batch EXCEPT ![c] = SubSeq(wire[c], 1, n)]
              /\ wire' = [wire EXCEPT ![c] = SubSeq(@, n + 1, Len(@))]
        BY <2>4 DEF Fetch
      <3>2. \/ batch'[k] = batch[k] /\ wire'[k] = wire[k]
            \/ /\ k = c /\ batch'[k] = SubSeq(wire[k], 1, n)
               /\ wire'[k] = SubSeq(wire[k], n + 1, Len(wire[k]))
        BY <3>1 DEF HInv, TypeOK
      <3>3. k = c => /\ SubSeq(wire[k], 1, n) \in Seq(Truthful(Peer(k)))
                     /\ SubSeq(wire[k], n + 1, Len(wire[k]))
                          \in Seq(Truthful(Peer(k)))
        BY <1>2
      <3> QED BY <1>2, <3>2, <3>3 DEF Honest
    <2>5. ASSUME NEW c \in Console, Consume(c) PROVE Honest(k)'
      <3>1. batch' = [batch EXCEPT ![c] = SubSeq(@, 1, Len(@) - 1)]
            /\ wire' = wire /\ batch[c] # <<>>
        BY <2>5 DEF Consume
      <3>2. \/ batch'[k] = batch[k]
            \/ k = c /\ batch'[k] = SubSeq(batch[k], 1, Len(batch[k]) - 1)
        BY <3>1 DEF HInv, TypeOK
      <3>3. k = c => SubSeq(batch[k], 1, Len(batch[k]) - 1)
                       \in Seq(Truthful(Peer(k)))
        BY <1>2, <3>1
      <3> QED BY <1>2, <3>1, <3>2, <3>3 DEF Honest
    <2> QED BY <2>1, <2>2, <2>3, <2>4, <2>5 DEF Next, vars, RunTick, StallTick,
               MidTick, NothingToRead, ConsumeDone
  <1> QED BY <1>1, <1>3, <1>4 DEF HInv

\* The invariant of the captures.
LEMMA HonestInvariant == Spec => []HInv
  BY HonestInit, HonestStep, PTL DEF Spec

\* Whatever the timing, no record on its way holds a byte made over or a byte
\* of an older lap of the local ring: tnmix.inc captures once, on a boundary
\* that advanced, and four slots outlast a window of three.
THEOREM RecordsAreHonest == Spec => []RecordsHonest
  <1>1. ASSUME HInv PROVE RecordsHonest
    <2> SUFFICES ASSUME NEW c \in Console, NEW r \in InTransit(c),
                        NEW i \in 0 .. TNWIN - 1
                 PROVE  r.win[i] = Byte(c, r.tick - i)
      BY DEF RecordsHonest
    <2> DEFINE p == Peer(c)
    <2>1. /\ wire[p] \in Seq(Truthful(c)) /\ batch[p] \in Seq(Truthful(c))
      BY <1>1, PeerFacts DEF HInv, Honest
    <2>2. r.type = "INPUT" /\ r \in Truthful(c)
      BY <2>1 DEF InTransit
    <2> QED BY <2>2 DEF Truthful
  <1> QED BY <1>1, HonestInvariant, PTL

-----------------------------------------------------------------------------
(* Agreement, when no record runs further ahead than the window fills *)

\* The handover satisfies the invariant of the agreement.
LEMMA AgreementInit == Init => AInv
  <1> SUFFICES ASSUME Init PROVE AInv
    OBVIOUS
  <1>1. ASSUME NEW c \in Console PROVE Filled(c)
    <2>1. TNTICK[c] = -1 /\ Holds(c) = TND - 1
      BY ConstantsAssumption DEF Init, Holds
    <2> SUFFICES ASSUME NEW t \in -1 .. TND - 1
                 PROVE  TNRING[c][RingSlot(t)] = Byte(Peer(c), t)
      BY <2>1 DEF Filled
    <2>2. t \in Int /\ t <= TND - 1 /\ t >= TND - 8
      BY ConstantsAssumption
    <2>3. TNRING[c][RingSlot(t)] = Byte(Peer(c), SeedTick(RingSlot(t), 8))
      BY <2>2, SlotFacts DEF Init
    <2> QED BY <2>2, <2>3, SeedFacts
  <1>2. \A c \in Console : Played(c)
    BY DEF Init, Played
  <1> QED BY <1>1, <1>2, LeadInit, HonestInit DEF AInv

\* A boundary moves on into ticks the ring already holds.
LEMMA FilledBoundary ==
  ASSUME AInv, NEW c \in Console, RunTick(c) \/ StallTick(c), NEW k \in Console
  PROVE  Filled(k)'
  <1>1. TypeOK /\ Filled(k) /\ LeadInv
    BY DEF AInv, LInv
  <1>2. /\ EnterTick(c) /\ TNRING' = TNRING /\ TNRWAT' = TNRWAT
    BY DEF RunTick, StallTick
  <1>3. Holds(k)' = Holds(k) /\ Holds(k) \in Int
    BY <1>1, <1>2, LeadFacts DEF Holds
  <1>4. TNTICK'[k] >= TNTICK[k] /\ TNTICK'[k] \in Int /\ TNTICK[k] \in Int
    BY <1>1, <1>2 DEF EnterTick, BoundaryTick, TypeOK
  <1> QED BY <1>1, <1>2, <1>3, <1>4 DEF Filled

\* The gate opens on a byte that is there, and each byte goes to its own port.
LEMMA PlayedRun ==
  ASSUME AInv, NEW c \in Console, RunTick(c)
  PROVE  /\ shadow'[c] = <<Byte("host", TNTICK'[c]), Byte("guest", TNTICK'[c])>>
         /\ TNTICK'[c] = BoundaryTick(c)
         /\ BoundaryTick(c) <= TNTICK[Peer(c)] + TND
  <1> DEFINE t == BoundaryTick(c)
             p == Peer(c)
  <1>1. TypeOK /\ LeadInv /\ HInv /\ Filled(c)
    BY DEF AInv, LInv
  <1>2. EnterTick(c) /\ Gate(c, t)
    BY DEF RunTick
  <1>3. /\ TNTICK'[c] = t /\ TNLOC'[c] = LocalRing(c) /\ Own(c)'
    BY <1>1, <1>2, OwnBoundary
  <1>4. t \in Int /\ TNTICK[c] \in Int /\ TNTICK[c] <= t
    <2>1. TNTICK[c] \in Int
      BY <1>1, LeadFacts
    <2> QED BY <2>1 DEF BoundaryTick
  <1>5. TNRWAT[c] >= t /\ t <= Holds(c) /\ t <= TNTICK[p] + TND
    BY <1>1, <1>2, <1>4, GateExact, LeadFacts, PeerFacts, ConstantsAssumption
  <1>6. TNRING[c][RingSlot(t)] = Byte(p, t)
    <2>1. t \in TNTICK[c] .. Holds(c)
      BY <1>1, <1>4, <1>5, LeadFacts
    <2> QED BY <1>1, <2>1 DEF Filled
  <1>7. LocalRing(c)[LocSlot(t)] = Byte(c, t)
    <2>1. t \in t + TND - 3 .. t + TND
      BY <1>4, ConstantsAssumption
    <2> QED BY <1>3, <2>1 DEF Own
  <1>8. shadow'[c] = PortOrder(c, Byte(c, t), Byte(p, t))
    BY <1>1, <1>6, <1>7 DEF RunTick, TypeOK
  <1>9. PortOrder(c, Byte(c, t), Byte(p, t)) = <<Byte("host", t), Byte("guest", t)>>
    BY DEF PortOrder, Console, Peer
  <1> QED BY <1>3, <1>5, <1>8, <1>9

\* Storing a record writes its own three ticks and no other tick in use.
LEMMA FilledConsume ==
  ASSUME MaxAhead <= TNWIN, AInv, NEW c \in Console, Consume(c),
         NEW k \in Console
  PROVE  Filled(k)'
  <1> DEFINE p == Peer(c)
             r == NextRecord(c)
  <1>1. /\ TypeOK /\ LeadInv /\ InFlight(c) /\ Honest(c) /\ Filled(k)
        /\ TNTICK' = TNTICK /\ p \in Console
    BY PeerFacts DEF AInv, LInv, HInv, LinkInv, Consume, consoleVars
  <1>2. CASE TNRING'[k] = TNRING[k] /\ TNRWAT'[k] = TNRWAT[k]
    BY <1>1, <1>2 DEF Filled, Holds
  <1>3. CASE k = c /\ r.type # "LEFT"
    <2>1. Len(batch[c]) \in 1 .. Len(batch[c]) /\ r = batch[c][Len(batch[c])]
      BY <1>1 DEF Consume, NextRecord, InFlight
    <2>2. /\ r \in Written(p) /\ Recent(r, TNRWAT[c])
          /\ r \in Truthful(p)
      BY <1>1, <2>1 DEF InFlight, Honest
    <2>3. r.type = "INPUT"
      BY <1>3, <2>2 DEF Written, Record, InputRecord, LeftRecord
    <2>4. /\ r \in InputRecord /\ r.tick \in Int
          /\ r.tick \in TND .. TNTICK[p] + TND
          /\ Newer(c, r) <=> r.tick >= TNRWAT[c]
      BY <1>1, <2>2, <2>3, RecordFacts DEF InputRecord
    <2>5. /\ r.win[0] = Byte(p, r.tick) /\ r.win[1] = Byte(p, r.tick - 1)
          /\ r.win[2] = Byte(p, r.tick - 2)
      BY <2>2, <2>3, <2>4 DEF Truthful, TNWIN
    <2>6. TNRING'[c] = Stored(c, r)
      BY <1>1, <1>3 DEF Consume, TypeOK
    <2>7. TNRWAT'[c] = IF r.tick >= TNRWAT[c] THEN r.tick ELSE TNRWAT[c]
      BY <1>1, <1>3, <2>4 DEF Consume, TypeOK
    <2>8. /\ TNTICK[c] \in Int /\ TNRWAT[c] \in Int /\ Holds(c) \in Int
          /\ TNTICK[p] \in Int
          /\ r.tick <= Holds(c) + 3 /\ Holds(c) - r.tick <= 3
          /\ r.tick <= TNTICK[c] + 5 /\ TNTICK[c] <= Holds(c) + 1
      <3>1. /\ TNTICK[c] \in Int /\ TNRWAT[c] \in Int /\ Holds(c) \in Int
            /\ TNTICK[p] \in Int
            /\ TNTICK[p] + TND - Holds(c) <= Reach
            /\ TNTICK[p] <= TNTICK[c] + TND + 1
        BY <1>1, LeadFacts, PeerFacts
      <3>2. Reach \in Int /\ Reach <= 3
        BY ReachFacts, ConstantsAssumption DEF TNWIN
      <3>3. TNRWAT[c] - r.tick <= 3
        BY <2>2, <2>3, <2>4, <3>1, <3>2 DEF Recent
      <3>4. Holds(c) - r.tick <= 3
        BY <2>4, <3>1, <3>3, ConstantsAssumption DEF Holds
      <3>5. TNTICK[c] <= Holds(c) + 1
        BY <1>1, <3>1 DEF LeadInv, Lead
      <3> QED BY <2>4, <3>1, <3>2, <3>4, <3>5, ConstantsAssumption
    <2>9. Holds(c)' = IF r.tick > Holds(c) THEN r.tick ELSE Holds(c)
      BY <2>4, <2>7, <2>8, ConstantsAssumption DEF Holds
    <2>10. ASSUME NEW t \in TNTICK[c] .. Holds(c)'
           PROVE  TNRING'[c][RingSlot(t)] = Byte(p, t)
      <3>1. t \in Int /\ t >= TNTICK[c] /\ t <= Holds(c)' /\ Holds(c)' \in Int
        BY <2>4, <2>8, <2>9
      <3>2. /\ t - r.tick \in -7 .. 7 /\ t - (r.tick - 1) \in -7 .. 7
            /\ t - (r.tick - 2) \in -7 .. 7
        BY <2>4, <2>8, <2>9, <3>1
      <3>3. /\ RingSlot(t) \in 0 .. 7 /\ RingSlot(r.tick) \in 0 .. 7
            /\ RingSlot(r.tick - 1) \in 0 .. 7
            /\ RingSlot(r.tick - 2) \in 0 .. 7
            /\ TNRING[c] \in [0 .. 7 -> Bytes]
        <4>1. r.tick - 1 \in Int /\ r.tick - 2 \in Int
          BY <2>4
        <4>2. TNRING[c] \in [0 .. 7 -> Bytes]
          BY <1>1 DEF TypeOK
        <4> QED BY <2>4, <3>1, <4>1, <4>2, SlotFacts
      <3>4. /\ RingSlot(t) = RingSlot(r.tick) => t = r.tick
            /\ RingSlot(t) = RingSlot(r.tick - 1) => t = r.tick - 1
            /\ RingSlot(t) = RingSlot(r.tick - 2) => t = r.tick - 2
        BY <2>4, <3>1, <3>2, SlotsDiffer
      <3>5. CASE t \in r.tick - 2 .. r.tick
        <4>1. /\ RingSlot(r.tick) # RingSlot(r.tick - 1)
              /\ RingSlot(r.tick) # RingSlot(r.tick - 2)
              /\ RingSlot(r.tick - 1) # RingSlot(r.tick - 2)
          BY <2>4, SlotsDiffer
        <4>2. t = r.tick \/ t = r.tick - 1 \/ t = r.tick - 2
          BY <2>4, <3>1, <3>5
        <4> QED BY <2>5, <2>6, <3>3, <4>1, <4>2 DEF Stored
      <3>6. CASE t \notin r.tick - 2 .. r.tick
        <4>1. t # r.tick /\ t # r.tick - 1 /\ t # r.tick - 2
          BY <2>4, <3>6
        <4>2. TNRING'[c][RingSlot(t)] = TNRING[c][RingSlot(t)]
          BY <2>6, <3>3, <3>4, <4>1 DEF Stored
        <4>3. t \in TNTICK[c] .. Holds(c)
          BY <2>4, <2>8, <2>9, <3>1, <3>6
        <4> QED BY <1>1, <1>3, <4>2, <4>3 DEF Filled
      <3> QED BY <3>5, <3>6
    <2> QED BY <1>1, <1>3, <2>10 DEF Filled
  <1>4. CASE k # c \/ r.type = "LEFT"
    <2>1. TNRING'[k] = TNRING[k] /\ TNRWAT'[k] = TNRWAT[k]
      BY <1>1, <1>4 DEF Consume, TypeOK
    <2> QED BY <1>2, <2>1
  <1> QED BY <1>3, <1>4

\* Every step keeps it, when no record overreaches the window.
LEMMA AgreementStep ==
  ASSUME MaxAhead <= TNWIN
  PROVE  AInv /\ [Next]_vars => AInv'
  <1> SUFFICES ASSUME AInv, [Next]_vars PROVE AInv'
    OBVIOUS
  <1>1. LInv' /\ HInv'
    BY TypeStep, LeadStep, LinkStep, HonestStep DEF AInv, LInv
  <1>2. ASSUME NEW k \in Console PROVE Filled(k)'
    <2>1. CASE UNCHANGED <<TNTICK, TNRING, TNRWAT>>
      BY <2>1 DEF AInv, Filled, Holds
    <2>2. ASSUME NEW c \in Console, RunTick(c) \/ StallTick(c)
          PROVE  Filled(k)'
      BY <2>2, FilledBoundary
    <2>3. ASSUME NEW c \in Console, Consume(c) PROVE Filled(k)'
      BY <2>3, FilledConsume
    <2> QED BY <2>1, <2>2, <2>3 DEF Next, vars, consoleVars, MidTick, Leave,
               Write, Fetch, NothingToRead, ConsumeDone
  <1>3. ASSUME NEW k \in Console PROVE Played(k)'
    <2>1. CASE UNCHANGED <<TNTICK, ran, shadow>>
      BY <2>1 DEF AInv, Played
    <2>2. ASSUME NEW c \in Console, RunTick(c) PROVE Played(k)'
      <3>1. k # c => /\ TNTICK'[k] = TNTICK[k] /\ ran'[k] = ran[k]
                     /\ shadow'[k] = shadow[k]
        BY <2>2 DEF RunTick, EnterTick, AInv, LInv, TypeOK
      <3> QED BY <2>2, <3>1, PlayedRun DEF AInv, Played
    <2>3. ASSUME NEW c \in Console, StallTick(c) PROVE Played(k)'
      <3>1. /\ shadow' = shadow
            /\ k = c => ~ran'[k]
            /\ k # c => TNTICK'[k] = TNTICK[k] /\ ran'[k] = ran[k]
        BY <2>3 DEF StallTick, EnterTick, AInv, LInv, TypeOK
      <3> QED BY <3>1 DEF AInv, Played
    <2> QED BY <2>1, <2>2, <2>3 DEF Next, vars, consoleVars, MidTick, Leave,
               Write, Fetch, NothingToRead, Consume, ConsumeDone
  <1> QED BY <1>1, <1>2, <1>3 DEF AInv

\* Both consoles play every tick on the two captures made for it, each in its
\* own port, as long as no record runs further ahead of a console's newest byte
\* than the window of tnnet.inc reaches back.
THEOREM ConsolesAgree ==
  ASSUME MaxAhead <= TNWIN
  PROVE  Spec => []Agreement
  <1>1. AInv => Agreement
    BY DEF AInv, Played, Agreement
  <1> QED BY <1>1, AgreementInit, AgreementStep, PTL DEF Spec

\* Under the same timing the watermark that the gate of tnmix.inc trusts never
\* announces a tick whose byte is not in the ring.
THEOREM WatermarkIsTrue ==
  ASSUME MaxAhead <= TNWIN
  PROVE  Spec => []NoHole
  <1>1. ASSUME AInv PROVE NoHole
    <2> SUFFICES ASSUME NEW c \in Console, NEW t \in TNTICK[c] .. TNRWAT[c]
                 PROVE  TNRING[c][RingSlot(t)] = Byte(Peer(c), t)
      BY DEF NoHole
    <2>1. Filled(c) /\ t \in TNTICK[c] .. Holds(c)
      BY <1>1, LeadFacts DEF AInv, LInv
    <2> QED BY <2>1 DEF Filled
  <1> QED BY <1>1, AgreementInit, AgreementStep, PTL DEF Spec

\* Two claims of the source about holes are false in general (two runs violate
\* them), and true under that timing: when the gate opens, the peer's capture of
\* the tick is in its slot, whatever is still in the batch.
THEOREM GateMeetsNoHole ==
  ASSUME MaxAhead <= TNWIN
  PROVE  Spec => [](OrderDoesNotMatter /\ HoleNeverReachesTheGate)
  <1>1. ASSUME AInv, NEW c \in Console PROVE ~PlaysAHole(c)
    <2> DEFINE t == BoundaryTick(c)
    <2>1. TypeOK /\ LeadInv /\ Filled(c)
      BY <1>1 DEF AInv, LInv
    <2>2. ASSUME Gate(c, t) PROVE t \in TNTICK[c] .. Holds(c)
      <3>1. /\ t \in Int /\ TNTICK[c] \in Int /\ Holds(c) \in Int
            /\ TNRWAT[c] \in Int /\ TNRWAT[c] <= Holds(c)
        BY <2>1, GateExact, LeadFacts
      <3>2. TNRWAT[c] >= t
        BY <2>1, <2>2, GateExact
      <3>3. TNTICK[c] <= t
        BY <3>1 DEF BoundaryTick
      <3> QED BY <3>1, <3>2, <3>3
    <2> QED BY <2>1, <2>2 DEF PlaysAHole, Filled
  <1>2. AInv => OrderDoesNotMatter /\ HoleNeverReachesTheGate
    BY <1>1 DEF OrderDoesNotMatter, HoleNeverReachesTheGate
  <1> QED BY <1>2, AgreementInit, AgreementStep, PTL DEF Spec

-----------------------------------------------------------------------------
(* Refinement: under that timing the match is lockstep on the inputs *)

\* The inputs of the abstract match are the captures of this one.
LEMMA InputsAreBytes ==
  ASSUME NEW t \in Int
  PROVE  Promise!Inputs(t) = <<Byte("host", t), Byte("guest", t)>>
  BY DEF Promise!Inputs, Byte

\* The handover is the start of the abstract match.
LEMMA PromiseInit == Init => Promise!Init
  <1> SUFFICES ASSUME Init PROVE Promise!Init
    OBVIOUS
  <1>1. shadow = [c \in Promise!Player |-> Promise!Inputs(-1)]
    BY InputsAreBytes DEF Init, Console, Promise!Player
  <1> QED BY <1>1 DEF Init, Promise!Init, Console, Promise!Player

\* A boundary that runs is a Play, a boundary that stalls first is a Wait, and
\* every other step is invisible.
LEMMA PromiseStep ==
  ASSUME MaxAhead <= TNWIN
  PROVE  AInv /\ [Next]_vars => [Promise!Next]_<<TNTICK, ran, shadow>>
  <1> SUFFICES ASSUME AInv, [Next]_vars
               PROVE  [Promise!Next]_<<TNTICK, ran, shadow>>
    OBVIOUS
  <1>1. CASE UNCHANGED <<TNTICK, ran, shadow>>
    BY <1>1
  <1>2. ASSUME NEW c \in Console, RunTick(c) PROVE Promise!Play(c)
    <2> DEFINE t == BoundaryTick(c)
    <2>1. /\ TypeOK /\ EnterTick(c) /\ t \in Int
          /\ t = IF ran[c] THEN TNTICK[c] + 1 ELSE TNTICK[c]
      BY <1>2, GateExact DEF AInv, LInv, RunTick, BoundaryTick
    <2>2. /\ shadow'[c] = <<Byte("host", t), Byte("guest", t)>>
          /\ t <= TNTICK[Peer(c)] + TND
      BY <1>2, PlayedRun
    <2>3. shadow' = [shadow EXCEPT ![c] = Promise!Inputs(t)]
      BY <1>2, <2>1, <2>2, InputsAreBytes DEF RunTick, TypeOK
    <2>4. Promise!Opponent(c) = Peer(c)
      BY DEF Promise!Opponent, Peer
    <2> QED BY <1>2, <2>1, <2>2, <2>3, <2>4
            DEF Promise!Play, RunTick, EnterTick
  <1>3. ASSUME NEW c \in Console, StallTick(c)
        PROVE  Promise!Wait(c) \/ UNCHANGED <<TNTICK, ran, shadow>>
    <2>1. /\ TypeOK /\ EnterTick(c) /\ shadow' = shadow
          /\ ran' = [ran EXCEPT ![c] = FALSE]
      BY <1>3 DEF AInv, LInv, StallTick
    <2>2. CASE ran[c]
      BY <2>1, <2>2 DEF Promise!Wait, EnterTick, BoundaryTick, TypeOK
    <2>3. CASE ~ran[c]
      BY <2>1, <2>3 DEF EnterTick, BoundaryTick, TypeOK
    <2> QED BY <2>2, <2>3
  <1>4. Console = Promise!Player
    BY DEF Console, Promise!Player
  <1> QED BY <1>1, <1>2, <1>3, <1>4 DEF Next, vars, consoleVars, MidTick, Leave,
             Write, Fetch, NothingToRead, Consume, ConsumeDone, Promise!Next

\* Under that timing the two consoles, their transports and the stream between
\* them implement InputLockstep: every tick once, in order, on both captures.
THEOREM KeepsItsPromise ==
  ASSUME MaxAhead <= TNWIN
  PROVE  Spec => KeepsThePromise
  <1>1. Init => AInv /\ Promise!Init
    BY PromiseInit, AgreementInit
  <1>2. AInv /\ [Next]_vars => AInv'
    BY AgreementStep
  <1>3. AInv /\ [Next]_vars => [Promise!Next]_<<TNTICK, ran, shadow>>
    BY PromiseStep
  <1> QED BY <1>1, <1>2, <1>3, PTL DEF Spec, KeepsThePromise, Promise!Spec

-----------------------------------------------------------------------------
(* Frames and checksums, whatever the timing *)

\* The frames console c has simulated follow from its tick and phase.
Frames(c) ==
  /\ phase[c] # 0 => ran[c]
  /\ sim[c].n = TNK * TNTICK[c]
                + (IF ran[c] /\ phase[c] = 0 THEN TNK ELSE phase[c])

FInv == TypeOK /\ \A c \in Console : Frames(c)

\* The game at the beginning of tick t, while it is one game.
Sampled(t) == [n |-> TNK * t, split |-> "none"]

\* The records whose checksum is the one of their tick.
Clean == {r \in Record : r.type = "INPUT" =>
  r.tick >= TND /\ r.crc = Sampled(r.tick - TND)}

OneGame == \A c \in Console : sim[c].split = "none"

\* While the two games are one, every checksum is that of its tick.
Matching(c) ==
  /\ ~rsy[c]
  /\ TNTICK[c] >= 0 => TNCRCV[c] = Sampled(TNTICK[c])
  /\ wire[c] \in Seq(Clean) /\ batch[c] \in Seq(Clean)

SInv == OneGame => \A c \in Console : Matching(c)

\* A tick is TNK frames; stated once, being out of linear arithmetic.
LEMMA TickOfFrames ==
  ASSUME NEW t \in Int
  PROVE  TNK * t \in Int /\ TNK * (t + 1) = TNK * t + TNK /\ TNK * (-1) = -TNK
  BY ConstantsAssumption

\* One frame more.
LEMMA PhaseSteps ==
  ASSUME TypeOK, NEW c \in Console
  PROVE  \/ NextPhase(c) = phase[c] + 1
         \/ NextPhase(c) = 0 /\ phase[c] + 1 = TNK
  <1>1. phase[c] \in 0 .. TNK - 1 /\ TNK \in Nat \ {0}
    BY ConstantsAssumption DEF TypeOK
  <1>2. CASE phase[c] + 1 = TNK
    BY <1>1, <1>2 DEF NextPhase
  <1>3. CASE phase[c] + 1 < TNK
    BY <1>1, <1>3 DEF NextPhase
  <1> QED BY <1>1, <1>2, <1>3

\* The count of frames is right when the match begins.
LEMMA FramesInit == Init => FInv
  <1> SUFFICES ASSUME Init PROVE FInv
    OBVIOUS
  <1>1. ASSUME NEW c \in Console PROVE Frames(c)
    BY TickOfFrames, ConstantsAssumption DEF Init, Frames
  <1> QED BY <1>1, TypeInit DEF FInv

\* A boundary that stalls changes the tick and not the game; a frame that runs
\* adds one to the frames and moves the phase.
LEMMA FramesStep == FInv /\ [Next]_vars => FInv'
  <1> SUFFICES ASSUME FInv, [Next]_vars PROVE FInv'
    OBVIOUS
  <1>1. TypeOK /\ TypeOK'
    BY TypeStep DEF FInv
  <1>2. ASSUME NEW c \in Console
        PROVE  /\ phase[c] \in 0 .. TNK - 1 /\ TNTICK[c] \in Int
               /\ sim[c].n \in Int /\ Frames(c) /\ ran[c] \in BOOLEAN
               /\ TNK \in Nat \ {0}
    BY <1>1, ConstantsAssumption DEF FInv, TypeOK, Sim
  <1>3. ASSUME NEW c \in Console, NEW k \in Console,
               RunTick(c) \/ StallTick(c) \/ MidTick(c), k # c
        PROVE  Frames(k)'
    <2>1. /\ phase'[k] = phase[k] /\ TNTICK'[k] = TNTICK[k]
          /\ ran'[k] = ran[k] /\ sim'[k] = sim[k]
      BY <1>1, <1>3 DEF RunTick, StallTick, MidTick, EnterTick, TypeOK
    <2> QED BY <1>2, <2>1 DEF Frames
  <1>4. ASSUME NEW c \in Console, RunTick(c) PROVE Frames(c)'
    <2>1. /\ phase[c] = 0 /\ phase'[c] = NextPhase(c) /\ ran'[c] = TRUE
          /\ TNTICK'[c] = BoundaryTick(c) /\ sim'[c].n = sim[c].n + 1
      BY <1>1, <1>4 DEF RunTick, EnterTick, TypeOK, Simulated
    <2>2. sim[c].n = TNK * BoundaryTick(c)
      <3>1. CASE ran[c]
        BY <1>2, <2>1, <3>1, TickOfFrames DEF Frames, BoundaryTick
      <3>2. CASE ~ran[c]
        <4>1. sim[c].n = TNK * TNTICK[c] + 0 /\ TNK * TNTICK[c] \in Int
          BY <1>2, <2>1, <3>2, TickOfFrames DEF Frames
        <4> QED BY <3>2, <4>1 DEF BoundaryTick
      <3> QED BY <3>1, <3>2
    <2>3. TNK * BoundaryTick(c) \in Int
      <3>1. BoundaryTick(c) \in Int
        BY <1>2 DEF BoundaryTick
      <3> QED BY <3>1, TickOfFrames
    <2> QED BY <1>1, <1>2, <2>1, <2>2, <2>3, PhaseSteps DEF Frames
  <1>5. ASSUME NEW c \in Console, StallTick(c) PROVE Frames(c)'
    <2>1. /\ phase[c] = 0 /\ phase'[c] = 0 /\ ran'[c] = FALSE
          /\ TNTICK'[c] = BoundaryTick(c) /\ sim'[c] = sim[c]
      BY <1>1, <1>5 DEF StallTick, EnterTick, TypeOK
    <2>2. sim[c].n = TNK * BoundaryTick(c)
      BY <1>2, <2>1, TickOfFrames DEF Frames, BoundaryTick
    <2>3. TNK * BoundaryTick(c) \in Int
      <3>1. BoundaryTick(c) \in Int
        BY <1>2 DEF BoundaryTick
      <3> QED BY <3>1, TickOfFrames
    <2> QED BY <1>2, <2>1, <2>2, <2>3 DEF Frames
  <1>6. ASSUME NEW c \in Console, MidTick(c) PROVE Frames(c)'
    <2>1. /\ phase[c] # 0 /\ phase'[c] = NextPhase(c) /\ ran'[c] = ran[c]
          /\ TNTICK'[c] = TNTICK[c] /\ sim'[c].n = sim[c].n + 1
      BY <1>1, <1>6 DEF MidTick, TypeOK, Simulated
    <2>2. TNK * TNTICK[c] \in Int
      BY <1>2, TickOfFrames
    <2> QED BY <1>1, <1>2, <2>1, <2>2, PhaseSteps DEF Frames
  <1>7. ASSUME UNCHANGED <<phase, TNTICK, ran, sim>>
        PROVE  \A c \in Console : Frames(c)'
    BY <1>2, <1>7 DEF Frames
  <1>8. \A c \in Console : Frames(c)'
    BY <1>3, <1>4, <1>5, <1>6, <1>7 DEF Next, vars, consoleVars, Leave, Write,
       Fetch, NothingToRead, Consume, ConsumeDone
  <1> QED BY <1>1, <1>8 DEF FInv

\* The invariant of the frames.
LEMMA FramesInvariant == Spec => []FInv
  BY FramesInit, FramesStep, PTL DEF Spec

\* However differently the two consoles stall, the number of frames of the game
\* each has run is a function of its tick and phase: a stalled boundary of
\* tnmix.inc runs none, and every other frame runs one.
THEOREM FramesAreTicks == Spec => []FramesFollowTicks
  <1>1. FInv => FramesFollowTicks
    BY DEF FInv, Frames, FramesFollowTicks
  <1> QED BY <1>1, FramesInvariant, PTL

\* What is true of all that is written is true of all that is on its way.
LEMMA StreamsStay ==
  ASSUME TypeOK, [Next]_vars, NEW k \in Console, NEW S,
         wire[k] \in Seq(S), batch[k] \in Seq(S), LeftRecord \in S,
         Write(Peer(k)) => Outgoing(Peer(k)) \in S
  PROVE  wire'[k] \in Seq(S) /\ batch'[k] \in Seq(S)
  <1>1. CASE UNCHANGED <<wire, batch>>
    BY <1>1
  <1>2. ASSUME NEW c \in Console, Leave(c)
        PROVE  wire'[k] \in Seq(S) /\ batch'[k] \in Seq(S)
    <2>1. wire'[k] = <<>> \/ wire'[k] = Append(wire[k], LeftRecord)
      BY <1>2 DEF Leave
    <2>2. batch'[k] = <<>> \/ batch'[k] = batch[k]
      BY <1>2 DEF Leave, TypeOK
    <2>3. Append(wire[k], LeftRecord) \in Seq(S) /\ <<>> \in Seq(S)
      OBVIOUS
    <2> QED BY <2>1, <2>2, <2>3
  <1>3. ASSUME NEW c \in Console, Write(c)
        PROVE  wire'[k] \in Seq(S) /\ batch'[k] \in Seq(S)
    <2>1. wire'[k] = wire[k]
          \/ (k = Peer(c) /\ wire'[k] = Append(wire[k], Outgoing(c)))
      BY <1>3, PeerFacts, SMTT(30) DEF Write, TypeOK
    <2>2. k = Peer(c) => Append(wire[k], Outgoing(c)) \in Seq(S)
      BY <1>3, PeerFacts
    <2>3. batch' = batch
      BY <1>3 DEF Write
    <2> QED BY <2>1, <2>2, <2>3
  <1>4. ASSUME NEW c \in Console, Fetch(c)
        PROVE  wire'[k] \in Seq(S) /\ batch'[k] \in Seq(S)
    <2>1. PICK n \in 1 .. Len(wire[c]) :
            /\ batch' = [batch EXCEPT ![c] = SubSeq(wire[c], 1, n)]
            /\ wire' = [wire EXCEPT ![c] = SubSeq(@, n + 1, Len(@))]
      BY <1>4 DEF Fetch
    <2>2. \/ batch'[k] = batch[k] /\ wire'[k] = wire[k]
          \/ /\ k = c /\ batch'[k] = SubSeq(wire[k], 1, n)
             /\ wire'[k] = SubSeq(wire[k], n + 1, Len(wire[k]))
      BY <2>1 DEF TypeOK
    <2>3. k = c => /\ SubSeq(wire[k], 1, n) \in Seq(S)
                   /\ SubSeq(wire[k], n + 1, Len(wire[k])) \in Seq(S)
      OBVIOUS
    <2> QED BY <2>2, <2>3
  <1>5. ASSUME NEW c \in Console, Consume(c)
        PROVE  wire'[k] \in Seq(S) /\ batch'[k] \in Seq(S)
    <2>1. batch' = [batch EXCEPT ![c] = SubSeq(@, 1, Len(@) - 1)]
          /\ wire' = wire /\ batch[c] # <<>>
      BY <1>5 DEF Consume
    <2>2. \/ batch'[k] = batch[k]
          \/ k = c /\ batch'[k] = SubSeq(batch[k], 1, Len(batch[k]) - 1)
      BY <2>1 DEF TypeOK
    <2>3. k = c => SubSeq(batch[k], 1, Len(batch[k]) - 1) \in Seq(S)
      BY <2>1
    <2> QED BY <2>1, <2>2, <2>3
  <1> QED BY <1>1, <1>2, <1>3, <1>4, <1>5 DEF Next, vars, RunTick, StallTick,
             MidTick, NothingToRead, ConsumeDone

\* The handover: nothing has been sent and no tick entered.
LEMMA MatchingInit == Init => SInv
  BY DEF Init, SInv, Matching

\* A boundary that advances samples the game of its tick, and disarms.
LEMMA MatchingBoundary ==
  ASSUME LInv, FInv, SInv, OneGame, NEW c \in Console, EnterTick(c),
         phase[c] = 0
  PROVE  \A k \in Console :
           /\ ~rsy'[k]
           /\ TNTICK'[k] >= 0 => TNCRCV'[k] = Sampled(TNTICK'[k])
  <1>1. TypeOK /\ Frames(c) /\ \A k \in Console : Matching(k)
    BY DEF FInv, SInv
  <1>2. ASSUME NEW k \in Console, k # c
        PROVE  rsy'[k] = rsy[k] /\ TNTICK'[k] = TNTICK[k]
                 /\ TNCRCV'[k] = TNCRCV[k]
    BY <1>1, <1>2 DEF EnterTick, TypeOK
  <1>3. /\ rsy'[c] = (rsy[c] /\ ~ran[c]) /\ TNTICK'[c] = BoundaryTick(c)
        /\ TNCRCV'[c] = IF ran[c] THEN sim[c] ELSE TNCRCV[c]
    BY <1>1 DEF EnterTick, TypeOK
  <1>4. CASE ran[c]
    <2>1. sim[c].n = TNK * TNTICK[c] + TNK /\ TNTICK[c] \in Int
      BY <1>1, <1>4 DEF Frames, TypeOK
    <2>2. sim[c].n = TNK * (TNTICK[c] + 1)
      BY <2>1, TickOfFrames
    <2>3. sim[c] = [n |-> sim[c].n, split |-> sim[c].split]
      BY <1>1 DEF TypeOK, Sim
    <2>4. sim[c] = Sampled(TNTICK[c] + 1)
      BY <2>2, <2>3 DEF OneGame, Sampled
    <2> QED BY <1>1, <1>2, <1>3, <1>4, <2>4 DEF Matching, BoundaryTick
  <1>5. CASE ~ran[c]
    BY <1>1, <1>2, <1>3, <1>5 DEF Matching, BoundaryTick
  <1> QED BY <1>4, <1>5

\* A checksum is compared with the one sampled on the same tick only.
LEMMA MatchingConsume ==
  ASSUME LInv, SInv, OneGame, NEW c \in Console, Consume(c)
  PROVE  rsy' = rsy
  <1> DEFINE r == NextRecord(c)
  <1>1. TypeOK /\ LeadInv /\ InFlight(c) /\ Matching(c)
    BY DEF LInv, LinkInv, SInv
  <1>2. /\ Len(batch[c]) \in 1 .. Len(batch[c]) /\ r = batch[c][Len(batch[c])]
    BY <1>1 DEF Consume, NextRecord, InFlight
  <1>3. r \in Written(Peer(c)) /\ Recent(r, TNRWAT[c]) /\ r \in Clean
    BY <1>1, <1>2 DEF InFlight, Matching
  <1>4. CASE r.type = "LEFT"
    BY <1>4 DEF Consume
  <1>5. CASE r.type # "LEFT"
    <2>1. r.type = "INPUT" /\ r \in InputRecord
      BY <1>3, <1>5 DEF Written, Record, InputRecord, LeftRecord
    <2>2. Comparable(c, r) => r.tick - TND = TNTICK[c]
      BY <1>1, <1>3, <2>1, RecordFacts
    <2>3. r.tick >= TND /\ r.crc = Sampled(r.tick - TND) /\ r.tick \in Int
      BY <1>3, <2>1 DEF Clean, InputRecord
    <2>4. Comparable(c, r) => r.crc = TNCRCV[c]
      BY <1>1, <2>2, <2>3, ConstantsAssumption DEF Matching
    <2>5. rsy' = [rsy EXCEPT ![c] =
                     @ \/ (Comparable(c, r) /\ r.crc # TNCRCV[c])]
      BY <1>5 DEF Consume
    <2>6. rsy \in [Console -> BOOLEAN] /\ ~rsy[c]
      BY <1>1 DEF TypeOK, Matching
    <2> QED BY <2>4, <2>5, <2>6
  <1> QED BY <1>4, <1>5

\* Every step keeps the checksums those of their ticks.
LEMMA MatchingStep == LInv /\ FInv /\ SInv /\ [Next]_vars => SInv'
  <1> SUFFICES ASSUME LInv, FInv, SInv, [Next]_vars, OneGame'
               PROVE  \A k \in Console : Matching(k)'
    BY DEF SInv
  <1>1. TypeOK
    BY DEF LInv
  <1>2. OneGame
    <2>1. ASSUME NEW c \in Console, RunTick(c) \/ MidTick(c),
                 NEW k \in Console
          PROVE  sim'[k] = sim[k] \/ \E h : sim'[k] = Simulated(k, h)
      <3>1. PICK h : sim' = [sim EXCEPT ![c] = Simulated(c, h)]
        BY <2>1 DEF RunTick, MidTick
      <3>2. sim'[k] = sim[k] \/ sim'[k] = Simulated(k, h)
        BY <1>1, <3>1 DEF TypeOK
      <3> QED BY <3>2
    <2>2. ASSUME NEW k \in Console PROVE sim[k].split = "none"
      <3>1. sim'[k].split = "none"
        BY DEF OneGame
      <3>2. sim'[k] = sim[k] \/ \E h : sim'[k] = Simulated(k, h)
        BY <2>1 DEF Next, vars, consoleVars, StallTick, Leave, Write, Fetch,
           NothingToRead, Consume, ConsumeDone
      <3>3. ASSUME NEW h, sim'[k] = Simulated(k, h)
            PROVE  sim'[k].split = sim[k].split \/ sim'[k].split = k
        BY <3>3 DEF Simulated
      <3>4. k # "none"
        BY DEF Console
      <3> QED BY <3>1, <3>2, <3>3, <3>4
    <2> QED BY <2>2 DEF OneGame
  <1>3. \A k \in Console : Matching(k)
    BY <1>2 DEF SInv
  <1>4. ASSUME NEW k \in Console
        PROVE  wire'[k] \in Seq(Clean) /\ batch'[k] \in Seq(Clean)
    <2> DEFINE p == Peer(k)
    <2>1. LeftRecord \in Clean
      BY DEF Clean, LeftRecord, Record
    <2>2. Write(p) => Outgoing(p) \in Clean
      <3> SUFFICES ASSUME Write(p) PROVE Outgoing(p) \in Clean
        OBVIOUS
      <3>1. p \in Console /\ Outgoing(p) \in Record /\ TNTICK[p] \in Int
        BY <1>1, PeerFacts, OutgoingType DEF Record, TypeOK
      <3>2. TNTICK[p] >= 0 /\ TNCRCV[p] = Sampled(TNTICK[p])
        BY <1>3, <3>1 DEF Write, Matching
      <3>3. /\ Outgoing(p).tick = TNTICK[p] + TND
            /\ Outgoing(p).crc = TNCRCV[p]
        BY DEF Outgoing, SampledCrc
      <3>4. Outgoing(p).tick - TND = TNTICK[p] /\ Outgoing(p).tick >= TND
        BY <3>1, <3>2, <3>3, ConstantsAssumption
      <3>5. /\ Outgoing(p).tick >= TND
            /\ Outgoing(p).crc = Sampled(Outgoing(p).tick - TND)
        BY <3>2, <3>3, <3>4 DEF Sampled
      <3> QED BY <3>1, <3>5 DEF Clean
    <2> QED BY <1>1, <1>3, <2>1, <2>2, StreamsStay DEF Matching
  <1>5. \A k \in Console :
          /\ ~rsy'[k]
          /\ TNTICK'[k] >= 0 => TNCRCV'[k] = Sampled(TNTICK'[k])
    <2>1. CASE \E c \in Console : RunTick(c) \/ StallTick(c)
      BY <1>2, <2>1, MatchingBoundary DEF RunTick, StallTick
    <2>2. CASE \E c \in Console : Consume(c)
      <3>1. rsy' = rsy /\ TNTICK' = TNTICK /\ TNCRCV' = TNCRCV
        BY <1>2, <2>2, MatchingConsume DEF Consume, consoleVars
      <3> QED BY <1>3, <3>1 DEF Matching
    <2>3. CASE UNCHANGED <<rsy, TNTICK, TNCRCV>>
      BY <1>3, <2>3 DEF Matching
    <2> QED BY <2>1, <2>2, <2>3 DEF Next, vars, consoleVars, MidTick, Leave,
               Write, Fetch, NothingToRead, ConsumeDone
  <1> QED BY <1>4, <1>5 DEF Matching

\* Whatever the timing, tncrc.inc arms no repair while the two games are one:
\* a record is compared on the tick its checksum was sampled on, or not at all.
THEOREM AlarmsAreTrue == Spec => []NoFalseAlarm
  <1>1. SInv => NoFalseAlarm
    BY DEF SInv, OneGame, Matching, NoFalseAlarm
  <1>2. LInv /\ FInv /\ SInv /\ [Next]_vars => SInv'
    BY MatchingStep
  <1> QED BY <1>1, <1>2, MatchingInit, LeadInvariant, FramesInvariant, PTL
          DEF Spec

\* Under the timing that keeps holes away from the gate the two games are one
\* for as long as the match lasts, and the repair of tncrc.inc is never armed.
Undisturbed == \A c \in Console : sim[c].split = "none" /\ ~rsy[c]

THEOREM NoRepairInTime ==
  ASSUME MaxAhead <= TNWIN
  PROVE  Spec => []Undisturbed
  <1> DEFINE Whole == \A c \in Console : sim[c].split = "none"
  <1>1. Init => Whole
    BY DEF Init
  <1>2. AInv /\ Whole /\ [Next]_vars => Whole'
    <2> SUFFICES ASSUME AInv, Whole, [Next]_vars PROVE Whole'
      OBVIOUS
    <2>1. CASE sim' = sim
      BY <2>1
    <2>2. ASSUME NEW c \in Console, RunTick(c) PROVE Whole'
      <3> DEFINE t == BoundaryTick(c)
                 bytes == PortOrder(c, LocalRing(c)[LocSlot(t)],
                                    TNRING[c][RingSlot(t)])
      <3>1. /\ shadow'[c] = <<Byte("host", t), Byte("guest", t)>>
        BY <2>2, PlayedRun
      <3>2. bytes = <<Byte("host", t), Byte("guest", t)>>
        BY <2>2, <3>1 DEF RunTick, AInv, LInv, TypeOK
      <3>3. sim' = [sim EXCEPT ![c] = Simulated(c, TRUE)]
        BY <2>2, <3>2 DEF RunTick
      <3> QED BY <3>3 DEF Simulated
    <2>3. ASSUME NEW c \in Console, MidTick(c) PROVE Whole'
      BY <2>3 DEF MidTick, Simulated
    <2> QED BY <2>1, <2>2, <2>3 DEF Next, vars, consoleVars, StallTick, Leave,
               Write, Fetch, NothingToRead, Consume, ConsumeDone
  <1>3. Spec => []Whole
    <2>1. AInv /\ [Next]_vars => AInv'
      BY AgreementStep
    <2> QED BY <1>1, <1>2, <2>1, AgreementInit, PTL DEF Spec
  <1>4. Whole /\ NoFalseAlarm => Undisturbed
    BY DEF NoFalseAlarm, Undisturbed
  <1> QED BY <1>3, <1>4, AlarmsAreTrue, PTL
=============================================================================
