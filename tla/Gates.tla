-------------------------------- MODULE Gates --------------------------------
(***************************************************************************)
(* The gates of the build and of the rigs for TLC.  They are run by make   *)
(* targets of their own, on what they are given: a behaviour is one of     *)
(* them at work, and the state of the others is left at a fixed value.     *)
(***************************************************************************)
EXTENDS CodeMap, Banks, Listing, PlayDiff, ZpGuard

VARIABLE target  \* what is made
gateVars == <<mapVars, bankVars, listVars, playVars, zpVars>>

MapIdle ==
  /\ rom = <<>> /\ reset = 0 /\ work = <<>> /\ pc = NoPc /\ starts = {}
  /\ undefined = {} /\ decl = {} /\ result = "idle" /\ cpu = -1 /\ stack = {}
BanksIdle ==
  /\ step = "idle" /\ addr = <<>> /\ REGIONS = <<>> /\ lines = <<>>
  /\ built = <<>> /\ declared = {}
ListIdle ==
  /\ rows = <<>> /\ here = 0 /\ tool = "idle" /\ cursor = 1 /\ end = 0
  /\ over = {} /\ deliberate = FALSE /\ fit = "unknown"
PlayIdle ==
  /\ dumped = <<{}, {}>> /\ differs = {} /\ repair = FALSE /\ tick = 0
  /\ eps = <<>> /\ exit = "idle"
ZpIdle ==
  /\ cell = <<>> /\ TNZPLO = 0 /\ TNSTKLO = 0 /\ loop = 0 /\ other = {}
  /\ gate = "idle" /\ warm = FALSE /\ X = Idle /\ wiped = {}

Init ==
  \/ target = "map" /\ MapInit /\ BanksIdle /\ ListIdle /\ PlayIdle /\ ZpIdle
  \/ target = "banks" /\ MapIdle /\ BanksInit /\ ListIdle /\ PlayIdle /\ ZpIdle
  \/ /\ target = "listing"
     /\ MapIdle /\ BanksIdle /\ ListInit /\ PlayIdle /\ ZpIdle
  \/ target = "play" /\ MapIdle /\ BanksIdle /\ ListIdle /\ PlayInit /\ ZpIdle
  \/ target = "zp" /\ MapIdle /\ BanksIdle /\ ListIdle /\ PlayIdle /\ ZpInit

Next ==
  /\ UNCHANGED target
  /\ \/ target = "map" /\ MapNext
          /\ UNCHANGED <<bankVars, listVars, playVars, zpVars>>
     \/ target = "banks" /\ BanksNext
          /\ UNCHANGED <<mapVars, listVars, playVars, zpVars>>
     \/ target = "listing" /\ ListNext
          /\ UNCHANGED <<mapVars, bankVars, playVars, zpVars>>
     \/ target = "play" /\ PlayNext
          /\ UNCHANGED <<mapVars, bankVars, listVars, zpVars>>
     \/ target = "zp" /\ ZpNext
          /\ UNCHANGED <<mapVars, bankVars, listVars, playVars>>

\* The descent is a process of its own and runs to its end.
GatesSpec ==
  Init /\ [][Next]_<<target, gateVars>>
    /\ WF_<<target, gateVars>>(Walk /\ UNCHANGED <<target, bankVars, listVars,
                                                  playVars, zpVars>>)

-----------------------------------------------------------------------------
(* The values for TLC *)

\* One byte of nearly every kind: plain3 goes on as a call does, and brk is
\* judged as jmpind.  Operands are in the image, beyond it, and backwards.
MCByte ==
  {"ret", "plain", "plain2", "branch", "jsr", "jmp", "jmpind", "undefined"}
MCClass == [b \in MCByte |-> b]
MCOperand == [ret |-> 3, plain |-> 0, plain2 |-> -1, branch |-> -3, jsr |-> 2,
              jmp |-> 1, jmpind |-> 4, undefined |-> 1]

\* Four lines of any length, some of none, in five bytes; three regions, and
\* each place a region for both banks can have.
MCListings ==
  {l \in [1 .. 4 -> 0 .. 5] : l[1] = 0 /\ \A i \in 1 .. 3 : l[i] <= l[i + 1]}
Table(c, d, banks) ==
  LET edge == <<0, c, d, 5>>
  IN  [i \in 1 .. 3 |-> [lo |-> edge[i], hi |-> edge[i + 1], bank |-> banks[i]]]
MCTables == {Table(c, d, banks) : c \in 1 .. 2, d \in 3 .. 4, banks \in
  {<<"GAME", "KERN", "GAME">>, <<"KERN", "BOTH", "GAME">>,
   <<"GAME", "KERN", "BOTH">>}}

=============================================================================
