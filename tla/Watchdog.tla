------------------------------ MODULE Watchdog ------------------------------
(***************************************************************************)
(* The stall watchdog of one console: how long it waits for a peer that    *)
(* has stopped answering, and what a peer that says it leaves changes.     *)
(*                                                                         *)
(* The count lives in the high nibble of TNERR, above an error code that   *)
(* the transport writes in the low one; TNSTDV divides it by the frames of *)
(* a tick.  A frame that stalls counts (src/src/tncap.inc, TNSTALLN), a    *)
(* tick that runs clears (src/src/tnmix.inc), a transaction that fails     *)
(* leaves its code (src/src/tnnet.inc, TNSFAIL) and a PEER_LEFT record     *)
(* saturates the count on the spot (TNSCONS).                              *)
(*                                                                         *)
(* The ticks themselves are Lockstep's; all that is left of them here is   *)
(* how far the peer's records reach past the tick the console is in.       *)
(***************************************************************************)
EXTENDS Integers

CONSTANT Bound   \* bound: where the count of stalled frames after a PEER_LEFT
                 \* stops counting

ASSUME BoundAssumption == Bound \in Nat /\ Bound > 4

TNK == 4         \* frames in a tick
TND == 2         \* the input delay, in ticks
FNEBAD == 2      \* a transport step failed
FNEPEER == 3     \* the peer left

VARIABLES
  net,       \* TNE_NET: in a match
  phase,     \* TNE_PH: frame of the tick
  ran,       \* TNE_RAN: the tick has run
  ready,     \* TNRWAT - TNTICK
  TNERR,     \* stalled ticks in the high nibble, an error code in the low
  TNSTDV,    \* the divider
  peer,      \* "playing"; "leaving": its PEER_LEFT is consumed and older
             \* records of the batch are not; "silent": nothing comes any more
  stalled,   \* frames stalled since a tick last ran, no further than one past
             \* what PatienceEnds allows
  told,      \* a PEER_LEFT was consumed: "no", "fresh" or, once a tick has run
             \* after it, "overrun"
  since      \* frames stalled after the PEER_LEFT

counters == <<TNERR, TNSTDV>>
history == <<stalled, told, since>>
vars == <<net, phase, ran, ready, counters, peer, history>>

High(b) == b \div 16
Low(b) == b % 16

-----------------------------------------------------------------------------
\* The handover: the boot bank has cleared the RAM, so the divider is 0.
Init ==
  /\ net = TRUE /\ phase = 0 /\ ran = TRUE
  /\ ready = -1
  /\ TNERR = 0 /\ TNSTDV = 0
  /\ peer = "playing"
  /\ stalled = 0 /\ told = "no" /\ since = 0

\* Where the peer's records stand for the tick of this boundary.
AtBoundary == IF ran THEN ready - 1 ELSE ready

NextPhase == (phase + 1) % TNK

\* A tick that runs clears the divider with the count.
ClearedDivider == 0

\* A boundary whose tick runs: the count is cleared, the code under it kept.
RunTick ==
  /\ net /\ phase = 0 /\ AtBoundary >= 0
  /\ ready' = AtBoundary
  /\ ran' = TRUE
  /\ phase' = NextPhase
  /\ TNERR' = Low(TNERR)
  /\ TNSTDV' = ClearedDivider
  /\ stalled' = 0
  /\ told' = IF told = "fresh" THEN "overrun" ELSE told
  /\ UNCHANGED <<net, peer, since>>

CountsNowMutant == TRUE

\* One stalled frame in TNK counts.
CountsNow == ((TNSTDV + 1) % 256) % TNK = 0

\* The count is full: the console leaves instead of counting on.
Saturated == TNERR >= 240

GivesUpMutant == CountsNow /\ TNERR = 240

GivesUp == CountsNow /\ Saturated

\* The stall count after this frame.
Counted == IF CountsNow /\ ~Saturated THEN (TNERR + 16) % 256 ELSE TNERR

\* A boundary the gate holds, and TNGONE when the count has topped out.
StallFrame ==
  /\ net /\ phase = 0 /\ AtBoundary < 0
  /\ ready' = AtBoundary
  /\ ran' = FALSE
  /\ TNERR' = Counted
  /\ TNSTDV' = (TNSTDV + 1) % 256
  /\ net' = ~GivesUp
  /\ stalled' = IF stalled > 16 * TNK THEN stalled ELSE stalled + 1
  /\ since' = IF told = "no" \/ since = Bound THEN since ELSE since + 1
  /\ UNCHANGED <<phase, peer, told>>

\* A frame inside a tick.
MidTick ==
  /\ net /\ phase # 0
  /\ phase' = NextPhase
  /\ UNCHANGED <<net, ran, ready, counters, peer, history>>

-----------------------------------------------------------------------------
FailedMutant == (TNERR + FNEBAD) % 256
FailedWholeMutant == FNEBAD

\* A transaction that failed leaves its code under the count.
Failed == High(TNERR) * 16 + FNEBAD

TransportFails ==
  /\ net
  /\ TNERR' = Failed
  /\ UNCHANGED <<net, phase, ran, ready, TNSTDV, peer, history>>

\* A record of the peer is consumed.  It may be an old one; how far a new one
\* reaches is what Lockstep proves: the peer is at most TND + 1 ticks ahead.
HearInput ==
  /\ net /\ peer # "silent"
  /\ \E n \in ready .. 2 * TND + 1 : ready' = n
  /\ UNCHANGED <<net, phase, ran, counters, peer, history>>

LeftSeenMutant == FNEPEER

\* What a PEER_LEFT puts in TNERR: a full count, and the reason.
LeftSeen == 15 * 16 + FNEPEER

\* PEER_LEFT is consumed.  It is the last record of its batch and so the first
\* to be taken: inputs the peer sent before it may follow.
HearLeft ==
  /\ net /\ peer = "playing"
  /\ TNERR' = LeftSeen
  /\ peer' = "leaving"
  /\ told' = "fresh" /\ since' = 0
  /\ UNCHANGED <<net, phase, ran, ready, TNSTDV, stalled>>

\* The rest of that batch is consumed, or a peer was unplugged: nothing more
\* comes from it.
FallsSilent ==
  /\ peer # "silent"
  /\ peer' = "silent"
  /\ UNCHANGED <<net, phase, ran, ready, counters, history>>

-----------------------------------------------------------------------------
Frame == RunTick \/ StallFrame \/ MidTick

Next == Frame \/ TransportFails \/ HearInput \/ HearLeft \/ FallsSilent

Spec == Init /\ [][Next]_vars

\* The frame loop runs for as long as the console is on; a batch ends.
Fairness == WF_vars(Frame) /\ WF_vars(FallsSilent /\ peer = "leaving")

FairSpec == Spec /\ Fairness

-----------------------------------------------------------------------------
\* TNERR is a byte whose low nibble is an error code, whatever is added above.
TypeOK ==
  /\ net \in BOOLEAN /\ ran \in BOOLEAN
  /\ phase \in 0 .. TNK - 1
  /\ ready \in -2 .. 2 * TND + 1
  /\ TNERR \in 0 .. 255
  /\ Low(TNERR) \in {0, FNEBAD, FNEPEER}
  /\ TNSTDV \in 0 .. 255
  /\ peer \in {"playing", "leaving", "silent"}
  /\ stalled \in Nat
  /\ told \in {"no", "fresh", "overrun"}
  /\ since \in 0 .. Bound

\* No console gives up early: unless the peer said it left, it has stalled for
\* sixteen ticks on end, whatever the transport did meanwhile.  The comments say
\* fifteen (tncap.inc:103, tncrc.inc:146, tnnet.inc:216, tndefs.inc:338); that
\* many fill the nibble, and it is the next one that finds it full and leaves.
Patience == ~net /\ told = "no" => stalled = 16 * TNK

\* And none waits for ever: no failure, no late record and no PEER_LEFT makes
\* a console sit in one tick for longer than that.
PatienceEnds == stalled <= 16 * TNK

\* A peer that left, told to a console that has no tick left to play, costs
\* one tick of stalled frames and no more.
LeaveIsPrompt == told = "fresh" => since <= TNK

\* A peer that is gone, with or without a word, is noticed.
GoneIsNoticed == peer = "silent" ~> ~net

-----------------------------------------------------------------------------
\* tnnet.inc on PEER_LEFT: saturating the count "is what makes a CLEAN leave
\* instant instead of making the player wait out the same second an unplugged
\* console would cost."  It is not when a tick still runs after it.
CleanLeaveIsInstant == told # "no" => since <= TNK
=============================================================================
