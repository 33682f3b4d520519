--------------------------- MODULE InputLockstep ----------------------------
(***************************************************************************)
(* What lockstep promises the game, with no network in it: each console    *)
(* plays the ticks in order, each tick once, on the byte the host captured *)
(* for it in port 0 and the byte the guest captured for it in port 1, and  *)
(* never a tick the peer has not come within D ticks of.                   *)
(***************************************************************************)
EXTENDS Integers

CONSTANT D      \* the input delay in ticks

VARIABLES
  tick,         \* the tick a console has entered
  played,       \* whether it has played it
  view          \* the two captures it played last

Player == {"host", "guest"}

Opponent(c) == IF c = "host" THEN "guest" ELSE "host"

\* The captures of tick t, host first.
Inputs(t) == <<[of |-> "host", tick |-> t, again |-> FALSE],
               [of |-> "guest", tick |-> t, again |-> FALSE]>>

Init ==
  /\ tick = [c \in Player |-> -1]
  /\ played = [c \in Player |-> TRUE]
  /\ view = [c \in Player |-> Inputs(-1)]

\* Enter the next tick and wait in it.
Wait(c) ==
  /\ played[c]
  /\ tick' = [tick EXCEPT ![c] = @ + 1]
  /\ played' = [played EXCEPT ![c] = FALSE]
  /\ UNCHANGED view

\* Play a tick: the next one, or the one the console has been waiting in.
Play(c) ==
  LET t == IF played[c] THEN tick[c] + 1 ELSE tick[c]
  IN  /\ t <= tick[Opponent(c)] + D
      /\ tick' = [tick EXCEPT ![c] = t]
      /\ played' = [played EXCEPT ![c] = TRUE]
      /\ view' = [view EXCEPT ![c] = Inputs(t)]

Next == \E c \in Player : Wait(c) \/ Play(c)

Spec == Init /\ [][Next]_<<tick, played, view>>
=============================================================================
