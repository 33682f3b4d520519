---------------------------- MODULE CrcLogProofs -----------------------------
(***************************************************************************)
(* The relay's verdict is right whatever the length of the match: it never *)
(* pairs checksums of two different ticks, though it sees only a tick's    *)
(* low byte and rebuilds the rest.                                         *)
(*                                                                         *)
(* The argument: the two streams stay within TND + 1 ticks of each other,  *)
(* so a stream never jumps by half the range and the lap is rebuilt        *)
(* exactly; every key is then the tick itself.  A log's keys are in order, *)
(* so the eight that are kept reach back further than that lead, and no    *)
(* checksum goes that the partner is still to be paired with.              *)
(***************************************************************************)
EXTENDS CrcLog, SequenceTheorems, TLAPS

Typed ==
  /\ here \subseteq Client
  /\ newest \in [Client -> Int]
  /\ lap \in [Client -> Nat]
  /\ last_tick \in [Client -> {None} \cup (0 .. TICKS - 1)]
  /\ DOMAIN crc = Client
  /\ DOMAIN reported = Client
  /\ split \in Nat

\* What has been rebuilt of a stream's newest tick is that tick.
Clock(c) ==
  /\ newest[c] >= TND - 1
  /\ last_tick[c] = None => lap[c] = 0 /\ newest[c] = TND - 1
  /\ last_tick[c] # None => newest[c] = lap[c] * TICKS + last_tick[c]
  /\ newest[c] <= newest[Peer(c)] + TND + 1

\* The entries whose key is the tick of their checksum, a tick reported.
Exact(c) ==
  {e \in [key: Nat, sum: [tick: Nat, game: Client \cup {"both"}]] :
     /\ e.sum = Sum(c, e.key)
     /\ here = Client => e.key \in reported[c]}

CInv ==
  /\ Typed
  /\ \A c \in Client : Clock(c) /\ crc[c] \in Seq(Exact(c))
  /\ NoFalseVerdict

-----------------------------------------------------------------------------
\* The two clients are each other's peers.
LEMMA PeerFacts == \A c \in Client :
  Peer(c) \in Client /\ Peer(c) # c /\ Peer(Peer(c)) = c
    /\ Client = {c, Peer(c)}
  BY DEF Client, Peer

\* The low digit of a tick.
LEMMA LowDigit ==
  ASSUME NEW q \in Nat, NEW r \in 0 .. TICKS - 1
  PROVE  /\ (q * TICKS + r) % TICKS = r
         /\ (r - TICKS + TICKS) % TICKS = r
         /\ (q + 1) * TICKS = q * TICKS + TICKS
  <1>1. CASE TICKS = 10
    BY <1>1
  <1>2. CASE TICKS = 16
    BY <1>2
  <1>3. CASE TICKS = 32
    BY <1>3
  <1>4. CASE TICKS = 64
    BY <1>4
  <1>5. CASE TICKS = 128
    BY <1>5
  <1>6. CASE TICKS = 256
    BY <1>6
  <1> QED BY <1>1, <1>2, <1>3, <1>4, <1>5, <1>6, CrcAssumption

\* The remainder of a difference that has wrapped.
LEMMA WrappedDigit ==
  ASSUME NEW d \in 0 .. TICKS - 1
  PROVE  (d - TICKS) % TICKS = d
  BY CrcAssumption

\* The rebuilt key of the next record is its tick.
LEMMA KeyExact ==
  ASSUME CInv, NEW c \in Client,
         NEW t \in newest[c] .. newest[Peer(c)] + TND + 1, TND <= t
  PROVE  /\ Lap(c, t % TICKS) \in Nat
         /\ t % TICKS \in 0 .. TICKS - 1
         /\ Lap(c, t % TICKS) * TICKS + (t % TICKS) = t
  <1> DEFINE d == t - newest[c]
             l == last_tick[c]
  <1>1. /\ newest[c] \in Int /\ newest[Peer(c)] \in Int /\ t \in Int
        /\ lap[c] \in Nat /\ TND \in 1 .. 2
        /\ l \in {None} \cup (0 .. TICKS - 1)
        /\ TICKS \in {10, 16, 32, 64, 128, 256} /\ TICKS > 4 * (TND + 1)
    BY PeerFacts, CrcAssumption DEF CInv, Typed
  <1>2. newest[Peer(c)] <= newest[c] + TND + 1
    BY PeerFacts DEF CInv, Clock
  <1>3. d \in 0 .. 2 * (TND + 1) /\ d < TICKS \div 2
    BY <1>1, <1>2
  <1>4. t \in Nat /\ t % TICKS \in 0 .. TICKS - 1
    BY <1>1
  <1>5. CASE l = None
    <2>1. lap[c] = 0 /\ newest[c] = TND - 1
      BY <1>5 DEF CInv, Clock
    <2>2. t < TICKS
      BY <1>1, <1>3, <2>1
    <2>3. t % TICKS = t
      BY <1>1, <1>4, <2>2
    <2> QED BY <1>1, <1>4, <1>5, <2>1, <2>3 DEF Lap, Wrapped
  <1>6. CASE l # None
    <2>1. /\ newest[c] = lap[c] * TICKS + l /\ l \in 0 .. TICKS - 1
          /\ None = -1
      BY <1>1, <1>6 DEF CInv, Clock, None
    <2>2. t = lap[c] * TICKS + l + d
      BY <1>1, <2>1
    <2>3. CASE l + d < TICKS
      <3>1. t % TICKS = l + d
        <4>1. l + d \in 0 .. TICKS - 1 /\ t = lap[c] * TICKS + (l + d)
          BY <1>1, <1>3, <2>1, <2>2, <2>3
        <4>2. \A r \in 0 .. TICKS - 1 : (lap[c] * TICKS + r) % TICKS = r
          BY <1>1, LowDigit
        <4> HIDE DEF d
        <4> QED BY <4>1, <4>2
      <3>2. ~Wrapped(c, t % TICKS)
        BY <1>1, <1>3, <2>1, <3>1 DEF Wrapped
      <3>3. Lap(c, t % TICKS) = lap[c]
        BY <3>2 DEF Lap
      <3>4. lap[c] * TICKS \in Int /\ lap[c] * TICKS + (l + d) = t
        BY <1>1, <1>3, <2>1, <2>2
      <3>5. Lap(c, t % TICKS) * TICKS + (t % TICKS) = t
        BY <3>1, <3>3, <3>4
      <3> QED BY <1>1, <1>4, <3>3, <3>5
    <2>4. CASE l + d >= TICKS
      <3>1. t % TICKS = l + d - TICKS
        <4>1. /\ l + d - TICKS \in 0 .. TICKS - 1 /\ lap[c] + 1 \in Nat
              /\ t = (lap[c] + 1) * TICKS + (l + d - TICKS)
          BY <1>1, <1>3, <2>1, <2>2, <2>4, LowDigit
        <4> QED BY <4>1, LowDigit
      <3>2. ((t % TICKS) - l) % TICKS = d
        <4>1. (t % TICKS) - l = d - TICKS /\ d \in 0 .. TICKS - 1
          BY <1>1, <1>3, <2>1, <3>1
        <4> QED BY <4>1, WrappedDigit
      <3>3. Wrapped(c, t % TICKS)
        BY <1>1, <1>3, <1>6, <2>1, <2>4, <3>1, <3>2 DEF Wrapped
      <3>4. (lap[c] + 1) * TICKS = lap[c] * TICKS + TICKS
        BY <1>1, LowDigit
      <3>5. Lap(c, t % TICKS) = lap[c] + 1
        BY <3>3 DEF Lap
      <3>6. lap[c] * TICKS \in Int /\ (lap[c] + 1) * TICKS + (l + d - TICKS) = t
        BY <1>1, <1>3, <2>1, <2>2, <3>4
      <3>7. Lap(c, t % TICKS) * TICKS + (t % TICKS) = t
        BY <3>1, <3>5, <3>6
      <3> QED BY <1>1, <1>4, <3>5, <3>7
    <2> QED BY <1>1, <1>3, <2>1, <2>3, <2>4
  <1> QED BY <1>5, <1>6

-----------------------------------------------------------------------------
(* The dict *)

\* Putting, evicting and removing entries yields a log of the same entries.
LEMMA LogOps ==
  ASSUME NEW S, NEW s \in Seq(S)
  PROVE  /\ \A key, sum : [key |-> key, sum |-> sum] \in S
                            => Put(s, key, sum) \in Seq(S)
         /\ Evicted(s) \in Seq(S)
         /\ \A i \in 1 .. Len(s) : RemoveAt(s, i) \in Seq(S)
  <1>1. ASSUME NEW key, NEW sum, [key |-> key, sum |-> sum] \in S
        PROVE  Put(s, key, sum) \in Seq(S)
    <2>1. Append(s, [key |-> key, sum |-> sum]) \in Seq(S)
      BY <1>1
    <2> DEFINE f == [i \in 1 .. Len(s) |->
                       IF s[i].key = key THEN [key |-> key, sum |-> sum]
                                         ELSE s[i]]
    <2>2. f \in [1 .. Len(s) -> S]
      BY <1>1
    <2>3. f \in Seq(S)
      BY <2>2
    <2> QED BY <2>1, <2>3 DEF Put
  <1>2. Evicted(s) \in Seq(S)
    BY DEF Evicted
  <1>3. ASSUME NEW i \in 1 .. Len(s) PROVE RemoveAt(s, i) \in Seq(S)
    <2>1. SubSeq(s, 1, i - 1) \in Seq(S) /\ SubSeq(s, i + 1, Len(s)) \in Seq(S)
      OBVIOUS
    <2> QED BY <2>1 DEF RemoveAt
  <1> QED BY <1>1, <1>2, <1>3

-----------------------------------------------------------------------------
(* The invariant *)

\* The invariant holds when the match begins.
LEMMA InitInv == Init => CInv
  BY CrcAssumption DEF Init, CInv, Typed, Clock, NoFalseVerdict, Disagreements,
     Client, None, Peer

\* A record handled: its key is its tick, and so is the key it is paired with.
LEMMA HandleStep == ASSUME CInv, NEW c \in Client, Handle(c) PROVE CInv'
  <1> DEFINE p == Peer(c)
  <1>1. PICK t \in newest[c] .. newest[p] + TND + 1 :
          /\ TND <= t
          /\ newest' = [newest EXCEPT ![c] = t]
          /\ reported' = IF here = Client
                          THEN [reported EXCEPT ![c] = @ \cup {t}]
                          ELSE reported
          /\ LogCrc(c, t)
    BY DEF Handle
  <1>2. here' = here /\ split' = split /\ c \in here
    BY DEF Handle
  <1> DEFINE tick == t % TICKS
             key == Lap(c, tick) * TICKS + tick
             mine == Put(crc[c], key, Sum(c, t))
             theirs == crc[p]
  <1>3. /\ p \in Client /\ p # c /\ Peer(p) = c /\ Client = {c, p}
        /\ newest[c] \in Int /\ newest[p] \in Int /\ t \in Int /\ TND \in 1 .. 2
        /\ newest[c] >= TND - 1 /\ newest[c] <= newest[p] + TND + 1
        /\ t \in Nat
    BY PeerFacts, CrcAssumption, <1>1 DEF CInv, Typed, Clock
  <1>4. Lap(c, tick) \in Nat /\ tick \in 0 .. TICKS - 1 /\ key = t
    BY <1>1, KeyExact
  <1>5. /\ lap' = [lap EXCEPT ![c] = Lap(c, tick)]
        /\ last_tick' = [last_tick EXCEPT ![c] = tick]
    BY <1>1 DEF LogCrc
  <1>6. /\ newest'[c] = t /\ newest'[p] = newest[p]
        /\ lap'[c] = Lap(c, tick) /\ lap'[p] = lap[p]
        /\ last_tick'[c] = tick /\ last_tick'[p] = last_tick[p]
    BY <1>1, <1>3, <1>5 DEF CInv, Typed
  <1>7. \A k \in Client : Clock(k)'
    <2>1. Clock(c)'
      BY <1>1, <1>3, <1>4, <1>6 DEF Clock, None
    <2>2. Clock(p)'
      BY <1>1, <1>3, <1>6 DEF CInv, Clock
    <2> QED BY <1>3, <2>1, <2>2
  <1>8. /\ t \in Nat /\ Sum(c, t)' = Sum(c, t)
        /\ \A k \in Client, u \in Nat : Sum(k, u)' = Sum(k, u)
        /\ Sum(c, t) \in [tick: Nat, game: Client \cup {"both"}]
    BY <1>2, <1>3 DEF Sum
  <1>9. /\ DOMAIN reported' = Client
        /\ \A k \in Client : reported[k] \subseteq reported'[k]
        /\ here = Client => t \in reported'[c]
    BY <1>1 DEF CInv, Typed
  <1>10. \A k \in Client : Exact(k) \subseteq Exact(k)'
    BY <1>2, <1>8, <1>9 DEF Exact
  <1>11. [key |-> key, sum |-> Sum(c, t)] \in Exact(c)'
    BY <1>2, <1>4, <1>8, <1>9 DEF Exact
  <1>12. \A k \in Client : crc[k] \in Seq(Exact(k)')
    BY <1>10, SeqMonotonic DEF CInv
  <1>13. mine \in Seq(Exact(c)')
    BY <1>11, <1>12, LogOps
  <1>14. DOMAIN crc' = Client /\ (\A k \in Client : crc'[k] \in Seq(Exact(k)'))
    <2>1. CASE crc' = [crc EXCEPT ![c] = Evicted(mine)]
      BY <1>3, <1>12, <1>13, <2>1, LogOps DEF CInv, Typed
    <2>2. ASSUME NEW i \in Places(theirs, key),
                 crc' = [crc EXCEPT ![c] = mine, ![p] = RemoveAt(theirs, i)]
          PROVE  DOMAIN crc' = Client
                   /\ (\A k \in Client : crc'[k] \in Seq(Exact(k)'))
      <3>1. RemoveAt(theirs, i) \in Seq(Exact(p)')
        BY <1>3, <1>12, LogOps DEF Places
      <3> QED BY <1>3, <1>12, <1>13, <2>2, <3>1 DEF CInv, Typed
    <2> QED BY <1>1, <2>1, <2>2 DEF LogCrc
  <1>15. NoFalseVerdict'
    <2> SUFFICES ASSUME crc_bad'
                 PROVE  \E u \in reported'["host"] \cap reported'["guest"] :
                          u >= split'
      BY DEF NoFalseVerdict, Disagreements
    <2>1. CASE crc_bad
      BY <1>2, <1>9, <2>1 DEF CInv, NoFalseVerdict, Disagreements, Client
    <2>2. CASE ~crc_bad
      <3>1. PICK i \in Places(theirs, key) :
               p \in here /\ theirs[i].sum # Sum(c, t)
        BY <1>1, <2>2 DEF LogCrc
      <3>2. theirs[i] \in Exact(p) /\ theirs[i].key = t
        BY <1>3, <1>4, <3>1 DEF CInv, Places
      <3>3. here = Client
        BY <1>2, <1>3, <3>1 DEF CInv, Typed
      <3>4. theirs[i].sum = Sum(p, t) /\ t \in reported[p]
        BY <3>2, <3>3 DEF Exact
      <3>5. t >= split
        BY <1>3, <1>8, <3>1, <3>4 DEF Sum, CInv, Typed
      <3>6. t \in reported'["host"] /\ t \in reported'["guest"]
        BY <1>3, <1>9, <3>3, <3>4 DEF Client
      <3> QED BY <1>2, <3>5, <3>6
    <2> QED BY <2>1, <2>2
  <1>16. Typed'
    <2>1. lap' \in [Client -> Nat]
      BY <1>4, <1>5 DEF CInv, Typed
    <2>2. last_tick' \in [Client -> {None} \cup (0 .. TICKS - 1)]
      BY <1>4, <1>5 DEF CInv, Typed
    <2>3. newest' \in [Client -> Int]
      BY <1>1, <1>3 DEF CInv, Typed
    <2> QED BY <1>2, <1>9, <1>14, <2>1, <2>2, <2>3 DEF CInv, Typed
  <1> QED BY <1>7, <1>14, <1>15, <1>16 DEF CInv

\* A client that goes leaves the other with nothing to be paired with.
LEMMA DropStep == ASSUME CInv, NEW c \in Client, Drop(c) PROVE CInv'
  <1>1. here' = {Peer(c)} /\ here' # Client
    BY PeerFacts DEF Drop
  <1>2. UNCHANGED <<newest, odd, lap, last_tick, crc, crc_bad, split, reported>>
    BY DEF Drop
  <1>3. ASSUME NEW k \in Client PROVE crc[k] \in Seq(Exact(k)')
    <2>1. Exact(k) \subseteq Exact(k)'
      BY <1>1, <1>2 DEF Exact, Sum
    <2> QED BY <2>1, SeqMonotonic DEF CInv
  <1> QED BY <1>1, <1>2, <1>3, PeerFacts DEF CInv, Typed, Clock, NoFalseVerdict,
          Disagreements

\* The invariant holds of every behaviour.
LEMMA AlwaysInv == Spec => []CInv
  <1>1. CInv /\ [Next]_vars => CInv'
    <2> SUFFICES ASSUME CInv, [Next]_vars PROVE CInv'
      OBVIOUS
    <2>1. CASE UNCHANGED vars
      <3>1. \A k \in Client : Exact(k)' = Exact(k)
        BY <2>1 DEF vars, Exact, Sum
      <3> QED BY <2>1, <3>1 DEF vars, CInv, Typed, Clock, NoFalseVerdict,
              Disagreements
    <2>2. CASE Next
      BY <2>2, HandleStep, DropStep DEF Next
    <2> QED BY <2>1, <2>2
  <1> QED BY <1>1, InitInv, PTL DEF Spec

-----------------------------------------------------------------------------
\* log_crc counts a mismatch only between checksums of one tick that both
\* consoles have reported, over any number of wraps of the tick.
THEOREM VerdictIsFair == Spec => []NoFalseVerdict
  <1>1. CInv => NoFalseVerdict
    BY DEF CInv
  <1> QED BY <1>1, AlwaysInv, PTL

-----------------------------------------------------------------------------
(* Nothing that is still needed is evicted *)

\* Keys are in the order of their ticks: an entry is at least as many ticks
\* younger as it is places further back.
Ordered(s) == \A i, j \in 1 .. Len(s) : i <= j => s[j].key - s[i].key >= j - i

\* The log has this tick.
Has(s, t) == \E i \in 1 .. Len(s) : s[i].key = t

\* What the partner may still report can still be paired.
Waiting(c) ==
  here = Client =>
    \A t \in reported[c] \ reported[Peer(c)] :
      t >= newest[Peer(c)] => Has(crc[c], t)

Kept(c) ==
  /\ Ordered(crc[c])
  /\ \A i \in 1 .. Len(crc[c]) : crc[c][i].key <= newest[c]
  /\ \A t \in reported[c] : t \in Nat /\ t <= newest[c]
  /\ Waiting(c)

KInv == CInv /\ (\A c \in Client : Kept(c)) /\ NoSplitMissed

\* A log with a tick put in that is not before its last one.
LEMMA PutKeeps ==
  ASSUME NEW S, NEW s \in Seq(S), \A e \in S : e.key \in Int,
         NEW t \in Int, NEW sum, [key |-> t, sum |-> sum] \in S,
         Ordered(s), \A i \in 1 .. Len(s) : s[i].key <= t
  PROVE  /\ Ordered(Put(s, t, sum))
         /\ \A i \in 1 .. Len(Put(s, t, sum)) : Put(s, t, sum)[i].key <= t
         /\ Has(Put(s, t, sum), t)
         /\ \A u : Has(s, u) => Has(Put(s, t, sum), u)
  <1> DEFINE e == [key |-> t, sum |-> sum]
             m == Put(s, t, sum)
  <1>1. \A i \in 1 .. Len(s) : s[i] \in S /\ s[i].key \in Int
    OBVIOUS
  <1>2. Len(s) \in Nat
    OBVIOUS
  <1>3. CASE Places(s, t) = {}
    <2>1. m = Append(s, e)
      BY <1>3 DEF Put
    <2>2. /\ Len(m) = Len(s) + 1 /\ m[Len(s) + 1] = e
          /\ \A i \in 1 .. Len(s) : m[i] = s[i]
      BY <2>1
    <2>3. \A i \in 1 .. Len(s) : s[i].key < t
      BY <1>1, <1>3 DEF Places
    <2>4. \A i \in 1 .. Len(s) : t - s[i].key >= Len(s) + 1 - i
      <3> SUFFICES ASSUME NEW i \in 1 .. Len(s)
                   PROVE  t - s[i].key >= Len(s) + 1 - i
        OBVIOUS
      <3>1. Len(s) \in 1 .. Len(s) /\ i <= Len(s)
        BY <1>2
      <3>2. s[Len(s)].key - s[i].key >= Len(s) - i
        BY <3>1 DEF Ordered
      <3>3. s[Len(s)].key < t
        BY <2>3, <3>1
      <3> QED BY <1>1, <1>2, <3>1, <3>2, <3>3
    <2>5. Ordered(m)
      <3> SUFFICES ASSUME NEW i \in 1 .. Len(m), NEW j \in 1 .. Len(m), i <= j
                   PROVE  m[j].key - m[i].key >= j - i
        BY DEF Ordered
      <3> HIDE DEF m
      <3>1. CASE j \in 1 .. Len(s)
        <4>1. i \in 1 .. Len(s) /\ m[i] = s[i] /\ m[j] = s[j]
          BY <1>2, <2>2, <3>1
        <4> QED BY <3>1, <4>1 DEF Ordered
      <3>2. CASE j = Len(s) + 1 /\ i \in 1 .. Len(s)
        BY <2>2, <2>4, <3>2
      <3>3. CASE j = Len(s) + 1 /\ i = Len(s) + 1
        BY <2>2, <3>3
      <3> QED BY <1>2, <2>2, <3>1, <3>2, <3>3
    <2>6. \A i \in 1 .. Len(m) : m[i].key <= t
      <3> HIDE DEF m
      <3> QED BY <1>2, <2>2
    <2>7. Has(m, t)
      <3> HIDE DEF m
      <3> QED BY <1>2, <2>2 DEF Has
    <2>8. ASSUME NEW u, Has(s, u) PROVE Has(m, u)
      <3> HIDE DEF m
      <3> QED BY <1>2, <2>2, <2>8 DEF Has
    <2> QED BY <2>5, <2>6, <2>7, <2>8
  <1>4. CASE Places(s, t) # {}
    <2>1. m = [i \in 1 .. Len(s) |-> IF s[i].key = t THEN e ELSE s[i]]
      BY <1>4 DEF Put
    <2>2. \A i \in 1 .. Len(s) : m[i].key = s[i].key
      BY <2>1
    <2>3. Len(m) = Len(s)
      BY <1>2, <2>1
    <2> HIDE DEF m
    <2>4. Has(m, t)
      BY <1>4, <2>2, <2>3 DEF Has, Places
    <2>5. Ordered(m)
      <3> SUFFICES ASSUME NEW i \in 1 .. Len(s), NEW j \in 1 .. Len(s), i <= j
                   PROVE  m[j].key - m[i].key >= j - i
        BY <2>3 DEF Ordered
      <3>1. m[i].key = s[i].key /\ m[j].key = s[j].key
        BY <2>2
      <3> QED BY <3>1 DEF Ordered
    <2>6. (\A i \in 1 .. Len(m) : m[i].key <= t) /\ \A u : Has(s, u) => Has(m, u)
      BY <2>2, <2>3 DEF Has
    <2> QED BY <2>4, <2>5, <2>6 DEF m
  <1> QED BY <1>3, <1>4

\* Evicting all but eight loses nothing of the last eight ticks.
LEMMA EvictedKeeps ==
  ASSUME NEW S, NEW s \in Seq(S), \A e \in S : e.key \in Int, NEW t \in Int,
         Ordered(s), \A i \in 1 .. Len(s) : s[i].key <= t
  PROVE  /\ Ordered(Evicted(s))
         /\ \A i \in 1 .. Len(Evicted(s)) : Evicted(s)[i].key <= t
         /\ \A u \in Int : Has(s, u) /\ t - u <= 7 => Has(Evicted(s), u)
  <1> DEFINE n == Len(s) - 8
             w == SubSeq(s, Len(s) - 7, Len(s))
  <1>1. Len(s) \in Nat /\ \A i \in 1 .. Len(s) : s[i].key \in Int
    OBVIOUS
  <1>2. CASE Len(s) <= 8
    BY <1>1, <1>2 DEF Evicted
  <1>3. CASE Len(s) > 8
    <2>1. /\ Len(w) = 8 /\ Evicted(s) = w
          /\ \A i \in 1 .. 8 : w[i] = s[i + n] /\ i + n \in 1 .. Len(s)
      BY <1>1, <1>3 DEF Evicted
    <2>2. n \in Nat
      BY <1>1, <1>3
    <2> HIDE DEF w
    <2>3. Ordered(w)
      <3> SUFFICES ASSUME NEW i \in 1 .. 8, NEW j \in 1 .. 8, i <= j
                   PROVE  w[j].key - w[i].key >= j - i
        BY <2>1 DEF Ordered
      <3>1. s[j + n].key - s[i + n].key >= (j + n) - (i + n)
        <4> HIDE DEF n
        <4>1. /\ i + n \in 1 .. Len(s) /\ j + n \in 1 .. Len(s)
              /\ i + n <= j + n
          BY <2>1, <2>2
        <4> QED BY <4>1 DEF Ordered
      <3>2. w[i] = s[i + n] /\ w[j] = s[j + n]
        BY <2>1
      <3>3. s[i + n].key \in Int /\ s[j + n].key \in Int
        BY <1>1, <2>1
      <3> HIDE DEF n
      <3> QED BY <2>2, <3>1, <3>2, <3>3
    <2>4. ASSUME NEW u \in Int, Has(s, u), t - u <= 7 PROVE Has(w, u)
      <3>1. PICK i \in 1 .. Len(s) : s[i].key = u
        BY <2>4 DEF Has
      <3>2. Len(s) \in 1 .. Len(s) /\ i <= Len(s)
        BY <1>1
      <3>3. s[Len(s)].key - s[i].key >= Len(s) - i /\ s[Len(s)].key <= t
        BY <3>2 DEF Ordered
      <3>4. Len(s) - i <= 7
        BY <1>1, <2>4, <3>1, <3>2, <3>3
      <3>5. i - n \in 1 .. 8 /\ (i - n) + n = i
        BY <1>1, <3>2, <3>4
      <3> QED BY <2>1, <3>1, <3>5 DEF Has
    <2> QED BY <2>1, <2>3, <2>4
  <1> QED BY <1>1, <1>2, <1>3

\* Using up one entry loses that one only.
LEMMA RemoveKeeps ==
  ASSUME NEW S, NEW s \in Seq(S), \A e \in S : e.key \in Int, NEW t \in Int,
         Ordered(s), \A i \in 1 .. Len(s) : s[i].key <= t,
         NEW k \in 1 .. Len(s)
  PROVE  /\ Ordered(RemoveAt(s, k))
         /\ \A i \in 1 .. Len(RemoveAt(s, k)) : RemoveAt(s, k)[i].key <= t
         /\ \A u : Has(s, u) /\ u # s[k].key => Has(RemoveAt(s, k), u)
  <1> DEFINE m == RemoveAt(s, k)
             old(i) == IF i < k THEN i ELSE i + 1
  <1>1. Len(s) \in Nat /\ \A i \in 1 .. Len(s) : s[i].key \in Int
    OBVIOUS
  <1>2. /\ Len(m) = Len(s) - 1
        /\ \A i \in 1 .. Len(s) - 1 : m[i] = s[old(i)]
    <2> DEFINE a == SubSeq(s, 1, k - 1)
               b == SubSeq(s, k + 1, Len(s))
    <2>1. /\ a \in Seq(S) /\ Len(a) = k - 1
          /\ \A i \in 1 .. k - 1 : a[i] = s[i]
      OBVIOUS
    <2>2. /\ b \in Seq(S) /\ Len(b) = Len(s) - k
          /\ \A i \in 1 .. Len(s) - k : b[i] = s[i + k]
      OBVIOUS
    <2>3. m = a \o b
      BY DEF RemoveAt
    <2> HIDE DEF a, b
    <2>4. /\ Len(a \o b) = Len(a) + Len(b)
          /\ \A i \in 1 .. Len(a) + Len(b) :
               (a \o b)[i] = IF i <= Len(a) THEN a[i] ELSE b[i - Len(a)]
      BY <2>1, <2>2, ConcatProperties
    <2> HIDE DEF m
    <2>5. Len(m) = Len(s) - 1
      BY <1>1, <2>1, <2>2, <2>3, <2>4
    <2>6. ASSUME NEW i \in 1 .. Len(s) - 1 PROVE m[i] = s[old(i)]
      <3>1. CASE i < k
        BY <1>1, <2>1, <2>2, <2>3, <2>4, <3>1
      <3>2. CASE i >= k
        <4>1. i - (k - 1) \in 1 .. Len(s) - k /\ ~(i <= k - 1)
          BY <1>1, <3>2
        <4>2. m[i] = b[i - (k - 1)]
          BY <1>1, <2>1, <2>2, <2>3, <2>4, <4>1
        <4>3. b[i - (k - 1)] = s[i + 1]
          BY <1>1, <2>2, <4>1
        <4> QED BY <3>2, <4>2, <4>3
      <3> QED BY <3>1, <3>2
    <2> QED BY <2>5, <2>6
  <1>3. \A i \in 1 .. Len(s) - 1 : old(i) \in 1 .. Len(s)
    BY <1>1
  <1>4. \A i, j \in 1 .. Len(s) - 1 : i <= j => /\ old(i) <= old(j)
                                               /\ old(j) - old(i) >= j - i
    BY <1>1
  <1>5. ASSUME NEW i \in 1 .. Len(s), i # k
        PROVE  \E j \in 1 .. Len(s) - 1 : old(j) = i
    <2>1. CASE i < k
      <3>1. i \in 1 .. Len(s) - 1 /\ old(i) = i
        BY <1>1, <2>1
      <3> QED BY <3>1
    <2>2. CASE i > k
      <3>1. i - 1 \in 1 .. Len(s) - 1 /\ old(i - 1) = i
        BY <1>1, <2>2
      <3> QED BY <3>1
    <2> QED BY <1>5, <2>1, <2>2
  <1> HIDE DEF m, old
  <1>6. Ordered(m)
    <2> SUFFICES ASSUME NEW i \in 1 .. Len(s) - 1, NEW j \in 1 .. Len(s) - 1,
                        i <= j
                 PROVE  m[j].key - m[i].key >= j - i
      BY <1>2 DEF Ordered
    <2>1. s[old(j)].key - s[old(i)].key >= old(j) - old(i)
      BY <1>3, <1>4 DEF Ordered
    <2>2. old(j) - old(i) >= j - i /\ old(i) \in Int /\ old(j) \in Int
      BY <1>3, <1>4
    <2>3. s[old(j)].key \in Int /\ s[old(i)].key \in Int
      BY <1>1, <1>3
    <2>4. m[i].key = s[old(i)].key /\ m[j].key = s[old(j)].key
      BY <1>2
    <2>5. s[old(j)].key - s[old(i)].key >= j - i
      <3> DEFINE x == s[old(j)].key - s[old(i)].key
                 y == old(j) - old(i)
      <3>1. i \in Int /\ j \in Int
        OBVIOUS
      <3>2. x \in Int
        BY <2>3
      <3>3. y \in Int /\ y >= j - i
        BY <2>2
      <3>4. x >= y
        BY <2>1
      <3> HIDE DEF x, y
      <3>5. x >= j - i
        BY <3>1, <3>2, <3>3, <3>4
      <3> QED BY <3>5 DEF x
    <2> QED BY <2>4, <2>5
  <1>7. \A i \in 1 .. Len(m) : m[i].key <= t
    BY <1>2, <1>3
  <1>8. ASSUME NEW u, Has(s, u), u # s[k].key PROVE Has(m, u)
    <2>1. PICK i \in 1 .. Len(s) : s[i].key = u /\ i # k
      BY <1>8 DEF Has
    <2>2. PICK j \in 1 .. Len(s) - 1 : old(j) = i
      BY <1>5, <2>1
    <2> QED BY <1>2, <2>1, <2>2 DEF Has
  <1> QED BY <1>6, <1>7, <1>8 DEF m

\* When the match begins the logs are empty.
LEMMA KeptInit == Init => KInv
  <1> SUFFICES ASSUME Init PROVE KInv
    OBVIOUS
  <1>1. \A c \in Client : crc[c] = <<>> /\ reported[c] = {}
    BY DEF Init
  <1>2. \A c \in Client : Kept(c)
    BY <1>1 DEF Kept, Ordered, Waiting
  <1>3. NoSplitMissed
    BY <1>1 DEF NoSplitMissed, Disagreements, Client
  <1> QED BY <1>2, <1>3, InitInv DEF KInv

\* A record handled: the entry it may be paired with is there, and what the
\* partner has still to report is kept.
LEMMA KeptHandle == ASSUME KInv, NEW c \in Client, Handle(c) PROVE KInv'
  <1> DEFINE p == Peer(c)
  <1>0. CInv'
    BY HandleStep DEF KInv
  <1>1. PICK t \in newest[c] .. newest[p] + TND + 1 :
          /\ TND <= t
          /\ newest' = [newest EXCEPT ![c] = t]
          /\ reported' = IF here = Client
                          THEN [reported EXCEPT ![c] = @ \cup {t}]
                          ELSE reported
          /\ LogCrc(c, t)
    BY DEF Handle
  <1>2. here' = here /\ split' = split /\ c \in here
    BY DEF Handle
  <1>3. /\ p \in Client /\ p # c /\ Peer(p) = c /\ Client = {c, p}
        /\ newest[c] \in Int /\ newest[p] \in Int /\ t \in Int /\ TND \in 1 .. 2
        /\ newest[c] >= TND - 1 /\ t >= newest[c] /\ t <= newest[p] + TND + 1
        /\ t \in Nat /\ CInv /\ Typed /\ Kept(c) /\ Kept(p)
    <2>1. p \in Client /\ p # c /\ Peer(p) = c /\ Client = {c, p}
      BY PeerFacts
    <2>2. CInv /\ Typed /\ Kept(c) /\ Kept(p)
      BY <2>1 DEF KInv, CInv
    <2>3. /\ newest[c] \in Int /\ newest[p] \in Int /\ TND \in 1 .. 2
          /\ newest[c] >= TND - 1
      BY <2>1, <2>2, CrcAssumption DEF CInv, Typed, Clock
    <2>4. t \in Int /\ t >= newest[c] /\ t <= newest[p] + TND + 1 /\ t \in Nat
      BY <1>1, <2>3
    <2> QED BY <2>1, <2>2, <2>3, <2>4
  <1>4. Lap(c, t % TICKS) * TICKS + (t % TICKS) = t
    BY <1>1, <1>3, KeyExact
  <1> DEFINE mine == Put(crc[c], t, Sum(c, t))
             theirs == crc[p]
  <1>5. \/ /\ p \notin here \/ Places(theirs, t) = {}
           /\ crc' = [crc EXCEPT ![c] = Evicted(mine)]
           /\ crc_bad' = crc_bad
        \/ \E i \in Places(theirs, t) :
             /\ p \in here
             /\ crc' = [crc EXCEPT ![c] = mine, ![p] = RemoveAt(theirs, i)]
             /\ crc_bad' = (crc_bad \/ theirs[i].sum # Sum(c, t))
    BY <1>1, <1>4 DEF LogCrc
  <1>6. /\ newest'[c] = t /\ newest'[p] = newest[p]
        /\ reported'[p] = reported[p]
        /\ reported'[c] = IF here = Client THEN reported[c] \cup {t}
                                           ELSE reported[c]
    BY <1>1, <1>3 DEF Typed
  <1> DEFINE S == [key: Nat, sum: [tick: Nat, game: Client \cup {"both"}]]
  <1>7. /\ crc[c] \in Seq(S) /\ theirs \in Seq(S)
        /\ \A e \in S : e.key \in Int
        /\ [key |-> t, sum |-> Sum(c, t)] \in S
    <2>1. \A k \in Client : crc[k] \in Seq(Exact(k)) /\ Exact(k) \subseteq S
      BY <1>3 DEF CInv, Exact
    <2>2. \A k \in Client : crc[k] \in Seq(S)
      <3> HIDE DEF S
      <3> QED BY <2>1, SeqMonotonic
    <2>3. Sum(c, t) \in [tick: Nat, game: Client \cup {"both"}]
      BY <1>3 DEF Sum
    <2>4. \A e \in S : e.key \in Int
      OBVIOUS
    <2>5. [key |-> t, sum |-> Sum(c, t)] \in S
      BY <1>3, <2>3
    <2>6. crc[c] \in Seq(S) /\ theirs \in Seq(S)
      <3> HIDE DEF S
      <3> QED BY <1>3, <2>2
    <2> HIDE DEF S
    <2> QED BY <2>4, <2>5, <2>6
  <1>8. mine \in Seq(S)
    BY <1>7, LogOps
  <1>9. \A i \in 1 .. Len(crc[c]) : crc[c][i].key <= t
    <2> SUFFICES ASSUME NEW i \in 1 .. Len(crc[c]) PROVE crc[c][i].key <= t
      OBVIOUS
    <2>1. crc[c][i].key <= newest[c]
      BY <1>3 DEF Kept
    <2>2. crc[c][i] \in S
      <3> HIDE DEF S
      <3> QED BY <1>7
    <2>3. crc[c][i].key \in Int
      BY <1>7, <2>2
    <2> QED BY <1>3, <2>1, <2>3
  <1>10. /\ Ordered(mine) /\ (\A i \in 1 .. Len(mine) : mine[i].key <= t)
         /\ Has(mine, t) /\ \A u : Has(crc[c], u) => Has(mine, u)
    <2> HIDE DEF S
    <2> QED BY <1>3, <1>7, <1>9, PutKeeps DEF Kept
  <1>11. /\ \A u \in reported'[c] : u \in Nat /\ u <= t
         /\ \A u \in reported'[p] : u \in Nat /\ u <= newest'[p]
    BY <1>3, <1>6 DEF Kept
  <1>12. ASSUME NEW u \in reported'[c] \ reported'[p], u >= newest'[p],
                here = Client
         PROVE  Has(mine, u) /\ u \in Int /\ t - u <= 7
    <2>1. u \in Int /\ t - u <= 7
      BY <1>3, <1>6, <1>11, <1>12
    <2>2. CASE u = t
      BY <1>10, <2>1, <2>2
    <2>3. CASE u # t
      BY <1>3, <1>6, <1>10, <1>12, <2>1, <2>3 DEF Kept, Waiting
    <2> QED BY <2>2, <2>3
  <1> HIDE DEF mine, S
  <1>13. CASE /\ p \notin here \/ Places(theirs, t) = {}
              /\ crc' = [crc EXCEPT ![c] = Evicted(mine)]
              /\ crc_bad' = crc_bad
    <2>1. crc'[c] = Evicted(mine) /\ crc'[p] = theirs
      BY <1>3, <1>13 DEF Typed
    <2>2. /\ Ordered(Evicted(mine))
          /\ \A i \in 1 .. Len(Evicted(mine)) : Evicted(mine)[i].key <= t
          /\ \A u \in Int : Has(mine, u) /\ t - u <= 7 => Has(Evicted(mine), u)
      BY <1>3, <1>7, <1>8, <1>10, EvictedKeeps
    <2>3. Waiting(c)'
      BY <1>2, <1>12, <2>1, <2>2 DEF Waiting
    <2>4. Waiting(p)'
      <3> SUFFICES ASSUME here = Client,
                          NEW u \in reported'[p] \ reported'[c], u >= t
                   PROVE  Has(theirs, u)
        BY <1>2, <1>3, <1>6, <2>1 DEF Waiting
      <3>1. u \in reported[p] \ reported[c] /\ u >= newest[c]
        BY <1>3, <1>6, <1>11
      <3> QED BY <1>3, <3>1 DEF Kept, Waiting
    <2>5. Kept(c)'
      BY <1>6, <1>11, <2>1, <2>2, <2>3 DEF Kept
    <2>6. Kept(p)'
      BY <1>3, <1>6, <1>11, <2>1, <2>4 DEF Kept
    <2>7. NoSplitMissed'
      <3> SUFFICES ASSUME NEW u \in reported'["host"] \cap reported'["guest"],
                          u >= split
                   PROVE  crc_bad
        BY <1>2, <1>13 DEF NoSplitMissed, Disagreements
      <3>1. u \in reported'[c] /\ u \in reported[p]
        BY <1>3, <1>6 DEF Client
      <3>2. u \in reported[c]
        <4> SUFFICES ASSUME u \notin reported[c] PROVE FALSE
          OBVIOUS
        <4>1. u = t /\ here = Client
          BY <1>6, <3>1
        <4>2. Has(theirs, t)
          BY <1>3, <3>1, <4>1 DEF Kept, Waiting
        <4> QED BY <1>3, <1>13, <4>1, <4>2 DEF Has, Places
      <3>3. u \in reported["host"] \cap reported["guest"]
        BY <1>3, <3>1, <3>2 DEF Client
      <3> QED BY <3>3 DEF KInv, NoSplitMissed, Disagreements
    <2> QED BY <1>0, <1>3, <2>5, <2>6, <2>7 DEF KInv
  <1>14. ASSUME NEW i \in Places(theirs, t), p \in here,
                crc' = [crc EXCEPT ![c] = mine, ![p] = RemoveAt(theirs, i)],
                crc_bad' = (crc_bad \/ theirs[i].sum # Sum(c, t))
         PROVE  KInv'
    <2> DEFINE rest == RemoveAt(theirs, i)
    <2>1. crc'[c] = mine /\ crc'[p] = rest
      BY <1>3, <1>14 DEF Typed
    <2>2. i \in 1 .. Len(theirs) /\ theirs[i].key = t
      BY <1>14 DEF Places
    <2>3. here = Client
      BY <1>2, <1>3, <1>14 DEF Typed
    <2>4. /\ Ordered(rest)
          /\ \A j \in 1 .. Len(rest) : rest[j].key <= newest[p]
          /\ \A u : Has(theirs, u) /\ u # t => Has(rest, u)
      BY <1>3, <1>7, <2>2, RemoveKeeps DEF Kept
    <2> HIDE DEF rest
    <2>5. Waiting(c)'
      BY <1>2, <1>12, <2>1 DEF Waiting
    <2>6. Waiting(p)'
      <3> SUFFICES ASSUME NEW u \in reported'[p] \ reported'[c], u >= t
                   PROVE  Has(rest, u)
        BY <1>2, <1>3, <1>6, <2>1 DEF Waiting
      <3>1. u \in reported[p] \ reported[c] /\ u >= newest[c] /\ u # t
        BY <1>3, <1>6, <1>11, <2>3
      <3> QED BY <1>3, <2>3, <2>4, <3>1 DEF Kept, Waiting
    <2>7. Kept(c)'
      BY <1>6, <1>10, <1>11, <2>1, <2>5 DEF Kept
    <2>8. Kept(p)'
      BY <1>3, <1>6, <1>11, <2>1, <2>4, <2>6 DEF Kept
    <2>9. NoSplitMissed'
      <3> SUFFICES ASSUME NEW u \in reported'["host"] \cap reported'["guest"],
                          u >= split, ~crc_bad
                   PROVE  crc_bad'
        BY <1>2, <1>14 DEF NoSplitMissed, Disagreements
      <3>1. u \in reported'[c] /\ u \in reported[p]
        BY <1>3, <1>6 DEF Client
      <3>2. u \notin reported["host"] \cap reported["guest"]
        BY DEF KInv, NoSplitMissed, Disagreements
      <3>3. u = t
        BY <1>3, <1>6, <3>1, <3>2 DEF Client
      <3>4. theirs[i] \in Exact(p)
        BY <1>3, <2>2 DEF CInv
      <3>5. theirs[i].sum = Sum(p, t)
        BY <2>2, <3>4 DEF Exact
      <3>6. Sum(p, t).game = p /\ Sum(c, t).game = c
        BY <1>3, <3>3 DEF Sum, Typed
      <3> QED BY <1>3, <1>14, <3>5, <3>6
    <2> QED BY <1>0, <1>3, <2>7, <2>8, <2>9 DEF KInv
  <1> QED BY <1>5, <1>13, <1>14

\* The invariant of the logs.
LEMMA KeptInvariant == Spec => []KInv
  <1>1. KInv /\ [Next]_vars => KInv'
    <2> SUFFICES ASSUME KInv, [Next]_vars PROVE KInv'
      OBVIOUS
    <2>1. CInv'
      <3>1. CASE UNCHANGED vars
        <4>1. \A k \in Client : Exact(k)' = Exact(k)
          BY <3>1 DEF vars, Exact, Sum
        <4> QED BY <3>1, <4>1 DEF vars, KInv, CInv, Typed, Clock,
                NoFalseVerdict, Disagreements
      <3>2. CASE Next
        BY <3>2, HandleStep, DropStep DEF Next, KInv
      <3> QED BY <3>1, <3>2
    <2>2. CASE UNCHANGED vars
      BY <2>1, <2>2 DEF KInv, Kept, Ordered, Waiting, Has, NoSplitMissed,
         Disagreements, vars
    <2>3. ASSUME NEW c \in Client, Handle(c) PROVE KInv'
      BY <2>3, KeptHandle
    <2>4. ASSUME NEW c \in Client, Drop(c) PROVE KInv'
      <3>1. here' # Client
        BY <2>4, PeerFacts DEF Drop
      <3>2. UNCHANGED <<newest, crc, crc_bad, split, reported>>
        BY <2>4 DEF Drop
      <3> QED BY <2>1, <3>1, <3>2 DEF KInv, Kept, Ordered, Waiting,
              NoSplitMissed, Disagreements
    <2> QED BY <2>2, <2>3, <2>4 DEF Next
  <1> QED BY <1>1, KeptInit, PTL DEF Spec

\* A disagreement that both consoles have reported is counted: eight entries
\* are more than the ticks one stream can be ahead of the other, though
\* entries that were paired stay in the log and take their places among them.
THEOREM VerdictIsComplete == Spec => []NoSplitMissed
  <1>1. KInv => NoSplitMissed
    BY DEF KInv
  <1> QED BY <1>1, KeptInvariant, PTL

-----------------------------------------------------------------------------
(* Types *)

\* What TypeOK says and the argument so far had no use for.
Shapes ==
  /\ odd \in 0 .. MaxOdd
  /\ crc \in [Client -> Seq(Entry)]
  /\ crc_bad \in BOOLEAN
  /\ reported \in [Client -> SUBSET Nat]

\* A record handled leaves what the dicts hold well formed.
LEMMA ShapesHandle ==
  ASSUME KInv, Shapes, NEW c \in Client, Handle(c) PROVE Shapes'
  <1> DEFINE p == Peer(c)
  <1>1. PICK t \in newest[c] .. newest[p] + TND + 1 :
          /\ TND <= t
          /\ odd' = IF t = newest[c] + 1 THEN odd ELSE odd + 1
          /\ odd' <= MaxOdd
          /\ reported' = IF here = Client
                          THEN [reported EXCEPT ![c] = @ \cup {t}]
                          ELSE reported
          /\ LogCrc(c, t)
    BY DEF Handle
  <1>2. newest[c] \in Int /\ newest[p] \in Int /\ TND \in Nat
    BY PeerFacts, CrcAssumption DEF KInv, CInv, Typed
  <1>3. odd' \in 0 .. MaxOdd
    BY <1>1, CrcAssumption DEF Shapes
  <1>4. reported' \in [Client -> SUBSET Nat]
    <2>1. t \in Nat
      BY <1>1, <1>2
    <2> QED BY <1>1, <2>1 DEF Shapes
  <1>5. crc' \in [Client -> Seq(Entry)]
    <2>1. ASSUME NEW k \in Client PROVE crc'[k] \in Seq(Entry)
      <3>1. crc'[k] \in Seq(Exact(k)')
        BY HandleStep DEF KInv, CInv
      <3>2. Exact(k)' \subseteq Entry
        BY DEF Exact, Entry
      <3> QED BY <3>1, <3>2, SeqMonotonic
    <2>2. \/ \E a : crc' = [crc EXCEPT ![c] = a]
          \/ \E a, b : crc' = [crc EXCEPT ![c] = a, ![p] = b]
      BY <1>1 DEF LogCrc
    <2> QED BY <2>1, <2>2, PeerFacts DEF Shapes
  <1>6. crc_bad' \in BOOLEAN
    BY <1>1 DEF LogCrc, Shapes
  <1> QED BY <1>3, <1>4, <1>5, <1>6 DEF Shapes

\* The invariant of the shapes.
LEMMA ShapesInvariant == Spec => []Shapes
  <1>1. Init => Shapes
    <2>1. <<>> \in Seq(Entry) /\ 0 \in 0 .. MaxOdd
      BY CrcAssumption
    <2> QED BY <2>1 DEF Init, Shapes
  <1>2. KInv /\ Shapes /\ [Next]_vars => Shapes'
    BY ShapesHandle DEF Next, Drop, Shapes, vars
  <1> QED BY <1>1, <1>2, KeptInvariant, PTL DEF Spec

\* The log of log_crc is a dict: no key is in it twice, and what the relay
\* rebuilds of a client's tick keeps its range over any number of laps.
THEOREM TypeCorrect == Spec => []TypeOK
  <1>1. ASSUME KInv, Shapes PROVE TypeOK
    <2>1. newest \in [Client -> Nat]
      <3>1. \A c \in Client : newest[c] \in Nat
        BY <1>1, CrcAssumption DEF KInv, CInv, Typed, Clock
      <3> QED BY <1>1, <3>1 DEF KInv, CInv, Typed
    <2>2. ASSUME NEW c \in Client, NEW i \in 1 .. Len(crc[c]),
                 NEW j \in 1 .. Len(crc[c]), crc[c][i].key = crc[c][j].key
          PROVE  i = j
      <3>1. Ordered(crc[c]) /\ crc[c] \in Seq(Entry)
        BY <1>1 DEF KInv, Kept, Shapes
      <3>2. crc[c][i] \in Entry
        BY <3>1
      <3>3. crc[c][i].key \in Int /\ i \in Int /\ j \in Int
        BY <3>2 DEF Entry
      <3>4. (i <= j => 0 >= j - i) /\ (j <= i => 0 >= i - j)
        BY <2>2, <3>1, <3>3 DEF Ordered
      <3> QED BY <3>3, <3>4
    <2> QED BY <1>1, <2>1, <2>2 DEF TypeOK, KInv, CInv, Typed, Shapes
  <1> QED BY <1>1, KeptInvariant, ShapesInvariant, PTL
=============================================================================
