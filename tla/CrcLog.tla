------------------------------- MODULE CrcLog --------------------------------
(***************************************************************************)
(* The relay's verdict on a match (src/server/tennis_relay_server.py,      *)
(* log_crc): it pairs the checksums of the two consoles by tick, though    *)
(* the ticks on the wire are eight bits wide and wrap every seventeen      *)
(* seconds.                                                                *)
(*                                                                         *)
(* What the relay is given are two streams of INPUT records.  Within one   *)
(* the ticks never fall, but may repeat (the transport writes a record     *)
(* again while its console stalls) and may leave some out (a console can   *)
(* enter more than one tick between two WRITEs); how far one stream can    *)
(* run ahead of what has been passed on of the other is Lockstep's lead.   *)
(***************************************************************************)
EXTENDS Integers, SequencesExt

CONSTANTS
  TND,        \* the input delay, in ticks
  TICKS,      \* how many values a tick has on the wire: 256 in the code
  Splits,     \* the ticks from which the two games may differ
  LastTick,   \* bound: the last tick of the match
  MaxOdd      \* bound: how often the streams repeat a tick or leave some out

ASSUME CrcAssumption ==
  /\ TND \in 1 .. 2
  /\ TICKS \in {10, 16, 32, 64, 128, 256} /\ TICKS > 4 * (TND + 1)
  /\ Splits \subseteq Nat
  /\ LastTick \in Nat /\ MaxOdd \in Nat

Client == {"host", "guest"}
Peer(c) == IF c = "host" THEN "guest" ELSE "host"

None == -1

VARIABLES
  here,       \* the clients still connected: partner is None without the peer
  newest,     \* the tick of the last record of a stream, in full
  odd,        \* how often the streams have repeated a tick or left some out
  lap,        \* Client.lap
  last_tick,  \* Client.last_tick
  crc,        \* Client.crc, in the order the keys were inserted
  crc_bad,    \* was a mismatch ever counted
  split,      \* the first tick at which the two games differ
  reported    \* the ticks a console has reported while both were connected

vars == <<here, newest, odd, lap, last_tick, crc, crc_bad, split, reported>>

\* The checksum console c sampled at tick t: it tells any two instants of the
\* game apart, and the two games once they differ.
Sum(c, t) == [tick |-> t, game |-> IF t < split THEN "both" ELSE c]

Init ==
  /\ here = Client
  /\ newest = [c \in Client |-> TND - 1]
  /\ odd = 0
  /\ lap = [c \in Client |-> 0]
  /\ last_tick = [c \in Client |-> None]
  /\ crc = [c \in Client |-> <<>>]
  /\ crc_bad = FALSE
  /\ split \in Splits
  /\ reported = [c \in Client |-> {}]

-----------------------------------------------------------------------------
WrappedMutant(c, tick) == FALSE

\* A tick that falls by more than half the range has wrapped.
Wrapped(c, tick) ==
  /\ last_tick[c] # None
  /\ (tick - last_tick[c]) % TICKS \in 1 .. TICKS \div 2 - 1
  /\ tick < last_tick[c]

Lap(c, tick) == IF Wrapped(c, tick) THEN lap[c] + 1 ELSE lap[c]

\* The entries of s with this key.
Places(s, key) == {i \in 1 .. Len(s) : s[i].key = key}

PutMutant(s, key, sum) == Append(s, [key |-> key, sum |-> sum])

\* s[key] = sum, as a dict that remembers the order of insertion does it.
Put(s, key, sum) ==
  LET entry == [key |-> key, sum |-> sum]
  IN  IF Places(s, key) = {} THEN Append(s, entry)
      ELSE [i \in 1 .. Len(s) |-> IF s[i].key = key THEN entry ELSE s[i]]

EvictedMutant(s) == IF Len(s) > 8 THEN SubSeq(s, 1, 8) ELSE s

\* The oldest entries go until eight are left.
Evicted(s) == IF Len(s) > 8 THEN SubSeq(s, Len(s) - 7, Len(s)) ELSE s

\* log_crc on a record of c for tick t: pair it with the partner's checksum
\* for the same tick, which is used up, or keep it for later.
LogCrc(c, t) ==
  LET tick == t % TICKS
      key == Lap(c, tick) * TICKS + tick
      mine == Put(crc[c], key, Sum(c, t))
      theirs == crc[Peer(c)]
  IN  /\ lap' = [lap EXCEPT ![c] = Lap(c, tick)]
      /\ last_tick' = [last_tick EXCEPT ![c] = tick]
      /\ \/ /\ Peer(c) \notin here \/ Places(theirs, key) = {}
            /\ crc' = [crc EXCEPT ![c] = Evicted(mine)]
            /\ UNCHANGED crc_bad
         \/ /\ Peer(c) \in here
            /\ \E i \in Places(theirs, key) :
                 /\ crc' = [crc EXCEPT ![c] = mine,
                                       ![Peer(c)] = RemoveAt(theirs, i)]
                 /\ crc_bad' = (crc_bad \/ theirs[i].sum # Sum(c, t))

\* The relay handles the next record of console c.
Handle(c) ==
  /\ c \in here
  /\ \E t \in newest[c] .. newest[Peer(c)] + TND + 1 :
       /\ TND <= t /\ t <= LastTick
       /\ odd' = IF t = newest[c] + 1 THEN odd ELSE odd + 1
       /\ odd' <= MaxOdd
       /\ newest' = [newest EXCEPT ![c] = t]
       /\ reported' = IF here = Client THEN [reported EXCEPT ![c] = @ \cup {t}]
                                       ELSE reported
       /\ LogCrc(c, t)
  /\ UNCHANGED <<here, split>>

\* A client is dropped; the other goes on sending until it has been told.
Drop(c) ==
  /\ here = Client
  /\ here' = {Peer(c)}
  /\ UNCHANGED <<newest, odd, lap, last_tick, crc, crc_bad, split, reported>>

Next == \E c \in Client : Handle(c) \/ Drop(c)

Spec == Init /\ [][Next]_vars

-----------------------------------------------------------------------------
Entry == [key: Nat, sum: [tick: Nat, game: Client \cup {"both"}]]

\* A checksum log is a dict: no key is in it twice.
TypeOK ==
  /\ here \subseteq Client
  /\ newest \in [Client -> Nat]
  /\ odd \in 0 .. MaxOdd
  /\ lap \in [Client -> Nat]
  /\ last_tick \in [Client -> {None} \cup (0 .. TICKS - 1)]
  /\ crc \in [Client -> Seq(Entry)]
  /\ \A c \in Client : \A i, j \in 1 .. Len(crc[c]) :
       crc[c][i].key = crc[c][j].key => i = j
  /\ crc_bad \in BOOLEAN
  /\ split \in Nat
  /\ reported \in [Client -> SUBSET Nat]

\* The ticks at which both consoles have reported and their games differ.
Disagreements == {t \in reported["host"] \cap reported["guest"] : t >= split}

\* The relay never accuses two consoles whose games are one: records repeated,
\* left out, early or late, on either side of a wrap, are paired tick by tick.
NoFalseVerdict == crc_bad => Disagreements # {}

\* And no disagreement both consoles have reported goes unseen: what is evicted
\* is never what the partner is about to report.
NoSplitMissed == Disagreements # {} => crc_bad

=============================================================================
