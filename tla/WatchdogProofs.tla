--------------------------- MODULE WatchdogProofs ---------------------------
(***************************************************************************)
(* The watchdog's safety properties, proved of Watchdog for any Bound and  *)
(* without a limit on how long a match lasts.                              *)
(*                                                                         *)
(* The argument: the divider counts exactly the frames stalled since a     *)
(* tick last ran, the high nibble of TNERR is never behind a quarter of    *)
(* it, and is exactly that until a PEER_LEFT is consumed; after one the    *)
(* nibble is full and the divider's next multiple of TNK ends the match.   *)
(***************************************************************************)
EXTENDS Watchdog, TLAPS

\* Where the count stands while the console is in the match.
CountStands ==
  /\ stalled <= 63
  /\ stalled \div 4 <= High(TNERR)
  /\ told = "no" => High(TNERR) = stalled \div 4
  /\ told = "fresh" => High(TNERR) = 15 /\ since <= TNSTDV % 4

\* Where it stood when the console left.
CountStood ==
  /\ stalled <= 64
  /\ told = "no" => stalled = 64
  /\ told = "fresh" => since <= 4

\* The inductive invariant.
WInv ==
  /\ TypeOK
  /\ stalled <= 64 /\ TNSTDV = stalled
  /\ ran => ready >= -1
  /\ net => CountStands
  /\ ~net => CountStood

\* The nibbles of a byte.
LEMMA Nibbles ==
  ASSUME NEW b \in 0 .. 255
  PROVE  /\ High(b) \in 0 .. 15 /\ Low(b) \in 0 .. 15
         /\ b = 16 * High(b) + Low(b)
         /\ b >= 240 <=> High(b) = 15
  BY DEF High, Low

\* Adding one to the high nibble of a byte whose count is not full leaves the
\* low nibble alone.
LEMMA OneMore ==
  ASSUME NEW b \in 0 .. 255, b < 240
  PROVE  /\ (b + 16) % 256 \in 0 .. 255
         /\ High((b + 16) % 256) = High(b) + 1
         /\ Low((b + 16) % 256) = Low(b)
  BY DEF High, Low

\* Writing an error code under the count leaves the count alone.
LEMMA NewCode ==
  ASSUME NEW h \in 0 .. 15, NEW l \in 0 .. 15
  PROVE  /\ h * 16 + l \in 0 .. 255
         /\ High(h * 16 + l) = h
         /\ Low(h * 16 + l) = l
  BY DEF High, Low

\* The handover satisfies the invariant.
LEMMA InitInv == Init => WInv
  BY BoundAssumption DEF Init, WInv, TypeOK, CountStands, CountStood, High, Low,
     TNK, TND, FNEBAD, FNEPEER

\* A tick that runs starts the count afresh.
LEMMA RunStep == ASSUME WInv, RunTick PROVE WInv'
  <1>1. TNERR \in 0 .. 255
    BY DEF WInv, TypeOK
  <1>2. High(Low(TNERR)) = 0 /\ Low(Low(TNERR)) = Low(TNERR)
    BY <1>1 DEF High, Low
  <1>3. Low(TNERR) \in 0 .. 255
    BY <1>1 DEF Low
  <1> QED
    BY <1>1, <1>2, <1>3 DEF WInv, TypeOK, CountStands, CountStood, RunTick,
       ClearedDivider, NextPhase, AtBoundary, TNK, TND

\* A frame that stalls counts at most once in four.
LEMMA StallStep == ASSUME WInv, StallFrame PROVE WInv'
  <1>1. /\ TNERR \in 0 .. 255 /\ net /\ stalled \in 0 .. 63
        /\ TNSTDV = stalled /\ TNSTDV' = stalled + 1 /\ stalled' = stalled + 1
        /\ since \in 0 .. Bound /\ CountStands
    BY DEF WInv, TypeOK, CountStands, StallFrame, TNK
  <1>2. CountsNow <=> (stalled + 1) % 4 = 0
    BY <1>1 DEF CountsNow, TNK
  <1>3. Saturated <=> High(TNERR) = 15
    BY <1>1, Nibbles DEF Saturated
  <1>4. TypeOK'
    <2>1. TNERR' \in 0 .. 255 /\ Low(TNERR') = Low(TNERR)
      <3>1. CASE CountsNow /\ ~Saturated
        <4>1. TNERR < 240 /\ TNERR' = (TNERR + 16) % 256
          BY <1>1, <3>1 DEF StallFrame, Counted, Saturated
        <4> QED
          BY <1>1, <4>1, OneMore
      <3>2. CASE ~(CountsNow /\ ~Saturated)
        BY <1>1, <3>2 DEF StallFrame, Counted
      <3> QED
        BY <3>1, <3>2
    <2>2. since' \in 0 .. Bound
      BY <1>1, BoundAssumption DEF StallFrame
    <2>3. net' \in BOOLEAN /\ ran' \in BOOLEAN
      BY DEF StallFrame
    <2>4. ready' \in -2 .. 2 * TND + 1
      BY <1>1 DEF WInv, TypeOK, StallFrame, AtBoundary, TND
    <2> QED
      BY <1>1, <2>1, <2>2, <2>3, <2>4 DEF WInv, TypeOK, StallFrame
  <1>5. High(TNERR') = IF CountsNow /\ ~Saturated THEN High(TNERR) + 1
                                                  ELSE High(TNERR)
    BY <1>1, OneMore DEF StallFrame, Counted, Saturated
  <1>6. High(TNERR) \in 0 .. 15 /\ High(TNERR') \in 0 .. 15
    BY <1>1, <1>4, Nibbles DEF TypeOK
  <1>7. told' = told /\ (told = "no" => since' = since)
        /\ (told # "no" => since' <= since + 1)
    BY <1>1, BoundAssumption DEF StallFrame
  <1>8. net' => CountStands'
    <2> SUFFICES ASSUME net' PROVE CountStands'
      OBVIOUS
    <2>1. ~(CountsNow /\ Saturated)
      BY DEF StallFrame, GivesUp
    <2>2. stalled' <= 63
      BY <1>1, <1>2, <1>3, <1>6, <2>1 DEF CountStands
    <2>3. /\ stalled' \div 4 <= High(TNERR')
          /\ told' = "no" => High(TNERR') = stalled' \div 4
      BY <1>1, <1>2, <1>3, <1>5, <1>6, <1>7, <2>1 DEF CountStands
    <2>4. told' = "fresh" => High(TNERR') = 15 /\ since' <= TNSTDV' % 4
      BY <1>1, <1>2, <1>3, <1>4, <1>5, <1>6, <1>7, <2>1
         DEF CountStands, TypeOK
    <2> QED
      BY <2>2, <2>3, <2>4 DEF CountStands
  <1>9. ~net' => CountStood'
    <2> SUFFICES ASSUME ~net' PROVE CountStood'
      OBVIOUS
    <2>1. CountsNow /\ Saturated
      BY DEF StallFrame, GivesUp
    <2>2. told = "no" => stalled' = 64
      BY <1>1, <1>2, <1>3, <2>1 DEF CountStands
    <2>3. told = "fresh" => since' <= 4
      BY <1>1, <1>4, <1>7 DEF CountStands, TypeOK
    <2> QED
      BY <1>1, <1>7, <2>2, <2>3 DEF CountStood
  <1> QED
    BY <1>1, <1>4, <1>8, <1>9 DEF WInv, StallFrame

\* The mid-tick frames, the transport and the peer disturb the count in one
\* way only: a PEER_LEFT fills it.
LEMMA OtherSteps ==
  ASSUME WInv, MidTick \/ TransportFails \/ HearInput \/ HearLeft \/ FallsSilent
  PROVE  WInv'
  <1>1. TNERR \in 0 .. 255 /\ TNSTDV = stalled /\ stalled \in 0 .. 64
    BY DEF WInv, TypeOK
  <1>2. CASE MidTick
    BY <1>2 DEF WInv, TypeOK, CountStands, CountStood, MidTick, NextPhase,
       counters, history, TNK
  <1>3. CASE TransportFails
    <2>1. TNERR' \in 0 .. 255 /\ High(TNERR') = High(TNERR) /\ Low(TNERR') = 2
      BY <1>1, <1>3, Nibbles, NewCode DEF TransportFails, Failed, FNEBAD
    <2> QED
      BY <1>3, <2>1 DEF WInv, TypeOK, CountStands, CountStood, TransportFails,
         history, FNEBAD
  <1>4. CASE HearInput
    BY <1>4 DEF WInv, TypeOK, CountStands, CountStood, HearInput, counters,
       history, TND
  <1>5. CASE HearLeft
    <2>1. TNERR' \in 0 .. 255 /\ High(TNERR') = 15 /\ Low(TNERR') = 3
      BY <1>5, NewCode DEF HearLeft, LeftSeen, FNEPEER
    <2>2. stalled <= 63
      BY <1>5 DEF WInv, CountStands, HearLeft
    <2> QED
      BY <1>1, <1>5, <2>1, <2>2, BoundAssumption
         DEF WInv, TypeOK, CountStands, CountStood, HearLeft, FNEPEER
  <1>6. CASE FallsSilent
    BY <1>6 DEF WInv, TypeOK, CountStands, CountStood, FallsSilent, counters,
       history
  <1> QED
    BY <1>2, <1>3, <1>4, <1>5, <1>6

\* The invariant is inductive.
LEMMA NextInv == WInv /\ [Next]_vars => WInv'
  <1> SUFFICES ASSUME WInv, [Next]_vars PROVE WInv'
    OBVIOUS
  <1>1. CASE UNCHANGED vars
    BY <1>1 DEF WInv, TypeOK, CountStands, CountStood, vars, counters, history
  <1>2. CASE Next
    BY <1>2, RunStep, StallStep, OtherSteps DEF Next, Frame
  <1> QED
    BY <1>1, <1>2

\* The invariant holds of every behaviour.
LEMMA AlwaysInv == Spec => []WInv
  BY InitInv, NextInv, PTL DEF Spec

-----------------------------------------------------------------------------
\* A console that leaves without having been told has stalled for sixteen whole
\* ticks, 64 frames on end (TNSTALLN), whatever its transport did.
THEOREM NobodyGivesUpEarly == Spec => []Patience
  <1>1. WInv => Patience
    BY DEF WInv, CountStood, Patience, TNK
  <1> QED
    BY <1>1, AlwaysInv, PTL

\* No console stalls for longer than that: neither TNSFAIL nor TNSCONS can
\* hold the count back.
THEOREM NobodyWaitsForEver == Spec => []PatienceEnds
  <1>1. WInv => PatienceEnds
    BY DEF WInv, PatienceEnds, TNK
  <1> QED
    BY <1>1, AlwaysInv, PTL

\* PEER_LEFT, consumed by a console that has no tick left to play, ends the
\* match within a tick's worth of stalled frames.
THEOREM LeaveComesPromptly == Spec => []LeaveIsPrompt
  <1>1. WInv => LeaveIsPrompt
    BY DEF WInv, TypeOK, CountStands, CountStood, LeaveIsPrompt, TNK
  <1> QED
    BY <1>1, AlwaysInv, PTL

\* The counters keep to their bytes whatever TNSFAIL, TNSCONS and the stalls do
\* to TNERR and TNSTDV.
THEOREM TypeCorrect == Spec => []TypeOK
  <1>1. WInv => TypeOK
    BY DEF WInv
  <1> QED
    BY <1>1, AlwaysInv, PTL
=============================================================================
