------------------------------ MODULE PlayDiff -------------------------------
(***************************************************************************)
(* How a match between two emulated consoles is judged                     *)
(* (src/tools/playdiff.py): their states, dumped at every tick, are        *)
(* compared tick by tick.  Normally one difference is a failure.  In the   *)
(* repair test one console is broken on purpose, and the pair has to       *)
(* differ, to come back together soon, and to stay together.               *)
(***************************************************************************)
EXTENDS Integers, SequencesExt

CONSTANTS
  LastTick,      \* bound: ticks of a run
  GAP,           \* ticks of agreement inside one episode: 8 in the code
  RECOVER_TAIL,  \* ticks that must agree at the end: 120
  REPAIR_BOUND   \* ticks the repair may take: 30

ASSUME PlayDiffAssumption ==
  /\ LastTick \in Nat /\ GAP \in Nat
  /\ RECOVER_TAIL \in Nat \ {0} /\ REPAIR_BOUND \in Nat \ {0}

VARIABLES
  dumped,   \* the ticks each console printed
  differs,  \* the ticks the two states differ at
  repair,   \* --repair is given
  tick,     \* the tick that was looked at last
  eps,      \* the episodes of divergence found so far
  exit      \* the verdict

playVars == <<dumped, differs, repair, tick, eps, exit>>

common == dumped[1] \cap dumped[2]

\* The dumps of two consoles that may start late, stop early or lose a tick.
PlayInit ==
  /\ \E either \in SUBSET (1 .. LastTick) : \E one \in {either, 1 .. LastTick} :
       dumped = <<one, either>>
  /\ differs \in SUBSET common
  /\ repair \in BOOLEAN
  /\ tick = 0 /\ eps = <<>> /\ exit = "running"

\* One console printed no state at all.
Nothing ==
  /\ exit = "running" /\ tick = 0 /\ \E c \in 1 .. 2 : dumped[c] = {}
  /\ exit' = "fail"
  /\ UNCHANGED <<dumped, differs, repair, tick, eps>>

LastOf == eps[Len(eps)]

InEpisodeMutant(t) == eps # <<>> /\ t - LastOf.lo <= GAP

\* The tick belongs to the episode at hand.
InEpisode(t) == eps # <<>> /\ t - LastOf.hi <= GAP

\* The next common tick: one that differs extends the last episode or opens a
\* new one.
Compare ==
  /\ exit = "running" /\ \A c \in 1 .. 2 : dumped[c] # {}
  /\ \E t \in common :
       /\ t > tick /\ \A u \in common : u > tick => t <= u
       /\ tick' = t
       /\ eps' = IF t \notin differs THEN eps
                 ELSE IF InEpisode(t) THEN [eps EXCEPT ![Len(eps)].hi = t]
                 ELSE Append(eps, [lo |-> t, hi |-> t])
  /\ UNCHANGED <<dumped, differs, repair, exit>>

\* The last RECOVER_TAIL common ticks, or as many as there are.
tail == {t \in common : Cardinality({u \in common : u > t}) < RECOVER_TAIL}

healed == tail \cap differs = {}
firstLen == eps[1].hi - eps[1].lo + 1

Passes ==
  IF repair THEN eps # <<>> /\ healed /\ firstLen <= REPAIR_BOUND
  ELSE eps = <<>>

Sentence ==
  /\ exit = "running" /\ \A c \in 1 .. 2 : dumped[c] # {}
  /\ \A u \in common : u <= tick
  /\ exit' = IF Passes THEN "pass" ELSE "fail"
  /\ UNCHANGED <<dumped, differs, repair, tick, eps>>

PlayNext == Nothing \/ Compare \/ Sentence
PlaySpec == PlayInit /\ [][PlayNext]_playVars

-----------------------------------------------------------------------------
(* Properties *)

\* From tick t on the two consoles agree for n common ticks or more.
Agree(t, n) == /\ \A u \in common : u >= t => u \notin differs
               /\ Cardinality({u \in common : u >= t}) >= n

\* What the repair test promises, both ways.  A pair it passes was broken, was
\* whole for GAP ticks within REPAIR_BOUND of that, and is whole at the end: a
\* pair may part again in between.  A pair that is whole within REPAIR_BOUND
\* of its first difference, and stays so for RECOVER_TAIL ticks, is passed.
RepairIsJudged ==
  repair /\ exit # "running" =>
    /\ exit = "pass" =>
         /\ \E t \in common : Agree(t, RECOVER_TAIL)
         /\ \E t \in differs :
              /\ \A u \in differs : t <= u
              /\ \E e \in t .. t + REPAIR_BOUND - 1 :
                   (e + 1 .. e + GAP) \cap differs = {}
    /\ exit = "fail" =>
         ~ \E t \in differs :
             /\ \A u \in differs : t <= u /\ u < t + REPAIR_BOUND
             /\ \E v \in common : Agree(v, RECOVER_TAIL)
=============================================================================
