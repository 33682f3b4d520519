# Verification of FujiNet 2600 Tennis

Two Atari 2600 consoles play the 1981 game Tennis against each other over a
network.  Neither console sends game state: both run the same deterministic
program on the same joystick bytes, tick by tick (delay-based input lockstep),
and a TCP relay passes the bytes between them.  The repository holds the
6502 code wrapped around the game, the relay, a latency probe, the build tools
and a large set of emulator rigs.

This directory holds TLA+ models of that program, the TLC configurations that
check them, and theorems about them that the TLAPS proof system checks.

## 1. The system

### Components

| component | source | state it keeps | operations |
|---|---|---|---|
| Tick boundary and lockstep (TNNET) | `src/src/tnmix.inc`, `src/src/tncap.inc` | TNTICK, the phase and flags of TNE, TNLOC (4 slots), the shadows TNSWA/TNTRIG/TNSWB, TNCRCV | one call a frame: boundary that runs, boundary that stalls, mid-tick frame |
| Transport machine (TNNSTEP) | `src/src/tnnet.inc` | TNNST, TNRDN, TNRING (8 slots), TNRWAT, the mailbox | one micro-step at a time in the frame's slack: WRITE, ACK, STATUS, READ, CONSUME |
| Stall watchdog, TNGONE | `src/src/tncap.inc` (TNSTALLN), `src/src/tnnet.inc` | TNERR (count and error code in one byte), TNSTDV | count a stalled frame, clear, saturate, leave |
| Relay | `src/server/tennis_relay_server.py` | clients, by_name, partner, role, crc log | accept, HELLO, pair, forward, sweep, flush, drop |
| Checksum log | the same file, `log_crc` | per client a dict of checksums by whole tick | record, compare, evict |
| Lobby publisher, player names | the same file, a thread of its own | payload, dirty flag, keepalive clock; by_name | register, rename, update, post, keep alive, shut down |
| Session | `src/src/tnsess.inc` | appkeys, socket, the match handover | boot, connect, HELLO, wait for START, hand over, give up |
| Mailbox | `src/src/fujinet.inc`, `tnnet.inc`, `tnsess.inc` | SEQ, ACKSEQ, transmit and receive buffers of the cartridge | launch, poll, copy |
| Checksum and repair | `src/src/tncrc.inc` | TNCRCV, TNE_RSY | sample, compare, press RESET |
| Gate, counters, variation | `src/src/tntick.inc`, `tncap.inc`, `tndefs.inc` | the game's cells $80, $84 and others | run or skip one frame of the game |
| Banks, display, text kernel | `src/src/*.asm`, `main.asm` | none that outlives a call | trampolines, cold start |
| Build gates | `src/tools/checkmap.py`, `patches.py`, `mkbanks.py`, `checkbanks.py`, `mktail.py`, `check_patch.py`, `check_zp.py` | none between runs: an image, a source, listings | walk, patch, split, measure, audit, pass or stop the build |
| Match judge | `src/tools/playdiff.py` | none between runs: two dumps | compare tick by tick, group into episodes, pass or fail |
| Tennis, latency probe, other tools, rigs | the rest | | |

### How they interact

Once a frame the wrapper calls TNNET.  A frame inside a tick re-uses the
inputs in the shadows.  A frame on a boundary advances the tick (if the last
one ran), samples the checksum of the game's memory, captures this player's
joystick for the tick TND = 2 ahead, and asks whether the peer's byte for
*this* tick is in the remote ring: it compares the watermark TNRWAT with TNTICK
and looks at nothing else.  If it is, the two bytes are put in port order and
the game runs; if not, the game's logic is skipped for a frame and the watchdog
counts.

In what is left of the frame the transport takes micro-steps, as many as fit
before the timer says stop.  It has no idea of ticks: it writes the record of
whatever tick it finds TNTICK at, with the two captures before it (a window of
three), asks the cartridge how much has arrived, reads it, and consumes it one
record a step.  A record sets three slots of the ring and raises the watermark.

The relay passes each record on to the partner.  It pairs a console that says
HELLO with the oldest idle one, tells each its role in START, and tells the
survivor PEER_LEFT when the other goes.  A console whose watchdog tops out, or
that gets PEER_LEFT, hangs up, returns to its boot bank and dials again.

A second thread of the relay tells the FujiNet Lobby how many players are in
the room, again every five minutes, and says goodbye at the end.

The image is made out of a dump of the cartridge: the disassembly is patched,
its lines are filed into two banks at the addresses they had, and the result is
assembled.  Nothing in the 6502 code can check that this was done right; a row
of gates does, and each is the only thing between a slip and a console that
crashes hours later.

### What is hard in it, and what would make it correct

* The frames, the transport steps, the peer and the network interleave freely.
  *Correct:* both consoles run every tick on the same two bytes (Agreement);
  the watermark never vouches for a byte that is not there (NoHole).
* Rings of four and eight slots, a tick of eight bits.  *Correct:* the lead of
  one console over the other is bounded, so that no slot is overwritten or read
  for another tick, and the wrap of the tick is invisible.
* The checksum is sampled on one frame and sent on another, retransmitted, and
  compared on a third.  *Correct:* no false alarm.
* Each console waits for the other.  *Correct:* they do not deadlock, and
  neither starves the other.
* TNERR is written by the frame and by the transport, half a byte each.
  *Correct:* nobody gives up early, nobody waits for ever.
* Drops, HELLOs and rematches come in any order at the relay.  *Correct:* no
  half a match is left behind, nobody waits beside somebody who waits, the
  survivor is told.

* Two threads of the relay and a server that may answer late share what the
  Lobby shows.  *Correct:* the count becomes right, the farewell is the last
  word, shutdown ends.
* The gates decide from partial views: a walk, a listing, a byte that differs.
  *Correct:* what they pass is what they exist to pass, and they turn nothing
  right away.

`PROJECT.json` lists these as hazards, each at its line, with the properties
that would catch it going wrong.

## 2. The modules

```
InputLockstep            what lockstep promises the game, no network
  ^ refined by
Lockstep                 two consoles, frames and transport, two streams
  ^ proofs: LockstepProofs, LockstepAgreement
Watchdog                 the stall counters of one console
  ^ proofs: WatchdogProofs
Relay  (MCRelay for TLC) the relay and the connections it serves
  ^ proofs: RelayProofs
CrcLog                   the relay's verdict on a match, log_crc
  ^ proofs: CrcLogProofs
Room   (MCRoom for TLC)  the relay as a room of the Lobby, and players' names
  ^ proofs: RoomProofs

CodeMap                  checkmap: which bytes are code
Banks                    patches, mkbanks, checkbanks, check_patch
Listing                  checkbanks and mktail: does it fit
PlayDiff                 playdiff: the judge of a match
ZpGuard                  check_zp and the clear loop it is about
  ^ one run for the five: Gates
  ^ proofs: BanksProofs of Banks, GateProofs of the other four
```

The modules meet at named facts.  Watchdog takes from Lockstep that the peer's
records reach at most 2 * TND + 1 ticks past the current one; CrcLog takes that
a stream runs at most TND + 1 ticks ahead of what was passed on of the other:
both are LeadBound,
seen from one console and from the relay, and both are theorems about Lockstep
(WatchdogIsFed, StreamsFitTheLog).  Lockstep's
`wire` is what Relay's `Forward` provides to two consoles in a match, and its
LEFT record what Relay's `Drop` appends.  Room is the same `drop` and
`on_hello` as Relay, seen by what they do to `by_name` and tell the publisher:
Relay hands out names as it likes, Room says how one is found.  The five
modules of the build run one after the other, or not at all, and share no
state; `Gates` is their disjoint sum, with `target` for what is being made.

### Lockstep

Two consoles, `host` and `guest`.  `RunTick`, `StallTick` and `MidTick` are the
three ways through TNNET (with the RECOVER test, the gate and TNMIX) and the
frame of the game that follows; `Leave` is TNGONE; `Write`, `Fetch`,
`NothingToRead`, `Consume` and `ConsumeDone` are the transport.  Its
acknowledgement polls are not steps of their own.  `Fetch` brings any positive
number of whole records, as STATUS and READ do.  A failed transaction starts
over, as TNSFAIL does.  `up` is TNE_NET, `ran` TNE_RAN, `phase` TNE_PH, `rsy`
TNE_RSY; the other variables have the code's names.

Two representations need a word.

*Ticks.*  The code keeps the low byte.  The model keeps the whole tick as an
integer, and takes every slot number and every comparison on its value modulo
`TICKS`, in the sign the code looks at.  So the model goes wrong wherever the
code would, and the properties can still say which tick was meant.  `TICKS` is
a parameter (256 in the code; TLC also takes 32, so that the wrap is nearer);
the proofs hold for each allowed value.

*Captures.*  A byte of input is the record of who captured it for which tick,
with a flag for a capture made over.  Two different captures are then always
different, whatever the players did, so "the same bytes" in Agreement is
stronger than equality of joystick bytes.  The game is a digest: how many
frames it has simulated, and which console's wrong input split it from the
other.  The checksum is the digest, taken to tell any two games apart; the
arithmetic of the sum is not in this module.

`MaxAhead` is the one assumption about timing.  A console enters a tick only
while its newest capture is at most `MaxAhead` ticks past the newest capture
its peer has consumed.  The code does not enforce it; it follows from how fast
the transport is.  What the code itself guarantees is 2 * TND + 2 = 6 ticks
(LeadBound), so `MaxAhead = 6` leaves the timing free.

### InputLockstep

The abstract promise: each console plays the ticks in order, each tick once, on
the host's capture in port 0 and the guest's in port 1, and never a tick the
peer has not come within `D` of.  `Lockstep!KeepsThePromise` is its
specification under the mapping tick <- TNTICK, played <- ran, view <- shadow.

### Watchdog

One console.  Of the lockstep, it keeps how far the peer's records reach past
the current tick (`ready`), and the two counters as the code packs them.
`Counted` is TNSTALLN, `Failed` TNSFAIL, `LeftSeen` the PEER_LEFT branch of
TNSCONS.  `stalled`, `told` and `since` are history, read only by properties.
PEER_LEFT is the newest record of its batch and a batch is consumed newest
first, so older inputs of the peer may follow it; `HearInput` allows that.

### Relay

The relay is one thread around `select`, so an action is one frame handled, one
acceptance, one drop.  `Drop` is the whole of `drop(c)` and is what `HangsUp`
(the stream ends, or HELLO is refused), `Sweep` and `Flush` do.  `elders` is
`Client.born` as an order: who was accepted before whom.  The consoles' own
steps (dial, HELLO, read START, play, read, hang up, be unplugged) are actions
at the other end of each stream.  A console that dials again is a new
connection.  `Drop` takes what the relay has not looked at with it.  service()
goes on through frames already buffered even if one of them got the client
dropped; a console that keeps to the protocol has none there, since it sends
nothing between a HELLO and the START that answers it.

A console in the model that finds a START at the head of its stream while it
plays stops reading: what the ROM makes of a stream cut in the wrong place is
garbage, and the console gets out of it by hanging up.  `EightBytesInPlay` says
that it should not happen.

### CrcLog

The relay sees the low byte of each tick and pairs checksums by tick, so it
rebuilds the rest: `Wrapped` and `Lap` are that reconstruction, `Put`, `Places`
and `Evicted` the dict in its order of insertion, `LogCrc` the whole of log_crc.
The two streams of records are the environment: ticks do not fall, may repeat
and may leave some out, and `LogCrc` is fed from either stream in any order
that LeadBound allows.  A checksum is the tick and the game it was sampled in;
from the tick `split` on the two games differ.  `reported` is history.

### Room

Two threads and the Lobby.  A name is a sequence of letters and digits; the
loop of on_hello is `Arrive`, `Rename` for each digit drawn, `Register`.
`Update` is LobbyPublisher.update, called from `Register`, `Paired` and
`Depart`.  The publisher's loop is `Loop`, `Take` or `Wait`, `Keepalive` (the
wait runs out), the POST, `Pause`; `Take` is what happens under the lock.  The
way out is one action a line: `Terminate` (a signal, anywhere in the server's
loop), `Stop`, `Notify`, `Joined` or `JoinTimesOut`, `PostOffline`.  A request
is on its way until `Record`; `PostFails` and `GiveUpOffline` leave it on its
way with nobody waiting, so that it may be recorded later, after a newer one.
`hurried` is history: something was given up on.

Three things about the code the model makes plain.  A notify that comes before
the publisher's wait is lost, and is harmless only because join has a timeout.
join waits twelve seconds and a POST may take ten for the connection and ten
for the reply, so an "online" may be recorded after the farewell;
`test_lobby_pub.py:131` expects the farewell last, and OfflineIsLast says when
it is.  An offline POST that fails is not tried again.

### CodeMap

An image is a function from addresses to bytes, and what a byte does as an
opcode (`Class`) or means as an operand (`Operand`) are parameters.  `Pop`,
`Leave`, `Undefined`, `Crash` and `Visit` are one turn each of checkmap's two
loops, and `Judge` is the rest of main.  `Crash` is the IndexError of an operand
past the end.  After a pass, `Run` executes the image as a 6507 would, so that
NeverRunsData is about the console and not about the gate.  Jumps out of the
image and instructions that overlap are not problems to checkmap, and are not
followed by `Run` either: the window's mirror is outside the model.

### Banks

Bytes of the cartridge are written as their addresses, so a displaced byte
shows.  `Apply` replaces a run of lines by one with the bytes of the patch and
blanks the rest, as patches.apply does; `Split` checks the regions' edges
against the line addresses of the *unpatched* listing, files every line by its
address there and assembles the two banks; `Fits` is checkbanks; `Audit` is
check_patch with whatever the patch's author declared.  One patch stands for
the two lists.  What the properties need of a
table and of a listing is in BanksAssumption: the regions tile the image in
order, as REGIONS does, and a listing gives every line the address it starts
at, from 0 up.  The table of this port (`TennisRegions`, `TennisSpans`,
`TennisLandings`) meets the further conditions under which the properties say
something: the ASSUME TennisTable.

### Listing

The assembler writes any listing of up to `MaxRows` rows and ORGs; then
checkbanks (`BankRow`) or mktail (`TailRow`) reads it row by row.

### PlayDiff

`dumped` is the ticks each console printed, `differs` those at which the two
states are not the same.  `Compare` is one turn of the loop that builds the
episodes; the same pass finds the first difference in the normal mode.

### ZpGuard

`Gate` is check_zp on any listing.  Then a console runs the bank: `Enter` is
the top of TNCLR with its three ways in, `Clear` one turn of the loop, and
`Cold` a reset in the middle of anything.  The cold entry starts from X = 0.

## 3. What TLC checks

| run | instance | what it shows |
|---|---|---|
| lockstep_timely | one frame a tick, MaxAhead 3, TICKS 32, ticks 0..7 | the two consoles agree on every tick, no hole under the watermark, lead bound, InputLockstep is implemented |
| lockstep_free | two frames a tick, FairSpec, MaxAhead 6 (free), ticks 0..3 | records honest, simulated frames a function of tick and phase, no false alarm, wrap invisible, watermark monotone; both consoles run the last tick, and neither stall nor slow delivery starves one |
| lockstep_order | MaxAhead 4 | *violated:* a batch consumed newest first lets the watermark vouch for slots not yet stored |
| lockstep_window | MaxAhead 4 | *violated:* a capture can be in no record at all |
| watchdog | the code's constants | sixteen ticks of patience, no more and no fewer (the comments say fifteen, section 5); a leave is prompt when no tick is left to play; whoever is gone is noticed |
| watchdog_left | the code's constants | *violated:* a tick that runs wipes the saturation of PEER_LEFT |
| relay | 4 connections, 3 at a time, 3 names, 1 frame of backlog | partners mutual, names exact, no two consoles waiting side by side, survivor told, roles differ |
| relay_start | the same | *violated:* a survivor still in play is sent a START |
| crclog | TND 1, ticks 1..12 over a wrap at 10, one repeat or gap | a mismatch is counted exactly when both consoles have reported a tick at which the games differ |
| room | names of one or two characters, two digits, four clients, one late request | the Lobby's count becomes right, the farewell is last, shutdown ends, the naming loop finds a free name where there is one |
| room_full | the same | *violated:* with every candidate in use the naming loop never ends, and the server with it |
| gates | five small inputs, below | the walk finds exactly what can run and ends (DescentExact, NeverRunsData, GateEnds); a patched source keeps every other byte at its address, the audit sees what moved and passes what is honest (BytesStayPut, AuditedIsPlaced, HonestPatchPasses); fit is judged right (VerdictIsRight), the clear keeps out of the netcode (ClearKeepsOut), a repair counts when it held (RepairIsJudged) |

Every property of a passing run has a mutant in `PROJECT.json`: a plausible
slip in one definition (a swapped port order, an off-by-one in the gate, a
capture made over on a stalled boundary, a checksum sampled when it is sent, an
error code that overwrites the count, an eviction from the wrong end) under
which TLC finds that property violated.

### The bounds, and why they are enough

* `MaxAhead`.  At 3 Agreement and NoHole hold (and are proved for every length
  of match); at 4 both of the violations above are found.  3 is therefore the
  exact limit, and equals TNWIN: the hole needs a batch or a gap wider than the
  window.  The properties that do not need it run at 6, which every execution
  of the code satisfies (all but LeadBound, see `lockstep_free` below).
* `LastTick`.  Seven ticks lap the local ring once and reach the last slot of
  the remote one; what happens beyond, and past the wrap of the tick, is
  covered by the theorems, which have no bound.  `TICKS = 32` is the smallest
  for which slots and signs behave like 256.
* One frame a tick in `lockstep_timely`: mid-tick frames touch only the phase
  and the digest, which that run's properties do not read.  The runs that do
  read them have two.
* Duplicates: a record written twice in a row is carried once while the first
  copy is still on the wire, and is a record of its own after that.  This keeps
  the wires finite without a bound on them.
* Relay: four connections with three at a time let two idle clients compete for
  a third, and let a connection be replaced while its old partner plays.  One
  frame of backlog is the smallest limit that can be passed.  `MaxRx` bounds
  what a console has sent and the relay has not looked at.  Connections and
  names are symmetric: no property and no action names one.
* `lockstep_free` goes to tick 3: the first record a console sends vouches for
  tick 2, so tick 3 is the first that takes a second exchange, and with it the
  whole cycle of the transport.  The captures made by then have reused slots of
  the local ring.  LeadBound is not among its properties: a lead of one tick too
  many shows at tick 4 at the earliest, against a peer in tick 0.  It is checked
  in `lockstep_timely`, where `MaxAhead` does not help it (that bounds how far a
  console runs ahead of what its peer has consumed, and a peer can consume every
  record without entering a tick), and LeadIsBounded has no limit on timing.
  The wrap of the low byte itself is out of this run's reach (the differences
  it compares are negative only at the start), and is what the theorems are for.
* CrcLog: the dict's contents are the history of the match, so the instance is
  short.  TICKS 10 is the least the reconstruction works for at TND 1 (no jump
  of half the range); twelve ticks cross the wrap, reach the eviction and reuse
  low bytes of ticks whose entries are still in the dict.  The theorem has no
  bound on the length.
* Watchdog: `stalled` stops one past the count PatienceEnds allows; `Bound` is where a history counter stops; it is past TNK, which is
  all the property compares it with.

* Room: names are two characters long at most instead of eight, so that both
  kinds of wish occur, one with room for a digit and one that loses its last
  letter.  With two digits a full name has three candidates (`AA`, `A0` and
  `A1`) and there are four clients, so the names can run out, as they can in the
  code, where 64 clients may share the eleven candidates of an eight-letter
  name.  The limit on clients is accept's; there is no other.  One request that is late at a time is enough to be
  recorded after any newer one.
* Gates.  CodeMap: every image of four bytes over eight kinds of instruction,
  every reset vector and every declaration; operands point in, out and
  backwards.  Banks: four lines of any length in five bytes, twelve tables of
  three regions, every patch of any run of lines with up to one byte more,
  every contiguous declaration.  Listing: four rows, a limit of four.
  PlayDiff: nine ticks; gap, tail and bound scaled to 2, 2 and 4.  ZpGuard: a
  page of five cells, two of them the netcode's, and one other compare.  The
  inputs are all there are of that size, and each module's properties hold or
  fail on the relation of two or three places in them.

Deadlock is not checked: the gates stop at a verdict and the matches end (a console leaves, `LastTick` is
reached, the connections are used up).

### Fairness

`Lockstep!FairSpec`: the frame loop runs as long as the console is switched on,
and steps the transport in the slack of each frame, so frames keep coming and
so do transport steps (weak fairness of the one and of the other).  `Fetch` is
asked for strong fairness: a STATUS may come back empty any number of
times, but not for ever when records keep arriving, which is what TCP promises
while the connection stands.  `Leave` has no fairness: a match may go on.

`Watchdog!FairSpec`: frames happen, and a batch being consumed ends.  Nothing is
assumed about the peer.

`Room!FairSpec`: each thread goes on when it can (weak fairness on the two
loops; Terminate, Arrive and Depart are the world's).  A digit that is drawn
again and again is drawn in the end, which is random.randrange's promise and
FreeNameIsFound needs (strong, as the loop keeps changing the name on trial).  A
publisher that keeps posting is heard in the end: strong fairness of its
Record, since every POST may fail; and a request nobody waits for arrives or is
overtaken, so it does not stay on its way for ever.  The offline POST is assumed
nothing about: ShutdownEnds holds even if the Lobby is down.

`Gates!GatesSpec`: weak fairness of the walk, a loop in a process of its own.

## 4. What is proved

Every proof is checked by tlapm from nothing, for every value of the constants
that their assumptions allow: TNK >= 1, TND in {1, 2}, TICKS in {32, 64, 128,
256}.  There is no bound on the length of a match.

* **TypeCorrect** (LockstepProofs): the type invariant.
* **LeadIsBounded, WrapIsInvisible, WatermarkNeverFalls** (LockstepProofs), with
  any timing.  LeadBound is not inductive: that a console stalls depends on its
  watermark, the watermark on records in flight, and those on how far the peer
  had got.  LInv follows that chain.  `Lead` bounds a console's watermark by the
  peer's tick plus TND, and its own tick by its watermark plus one; `InFlight`
  says that every record on its way was captured, that records arrive in order
  of their ticks, and that none in a batch is older than the reach.  From it
  any two ticks the code compares are within half of TICKS of each other, which
  is why the sign of a low byte's difference is right.
* **WatchdogIsFed, StreamsFitTheLog** (LockstepProofs), with any timing: what
  Watchdog and CrcLog assume of the records they are given holds of the records
  two consoles write.  The three models are proved apart and fit together here.
* **RecordsAreHonest** (LockstepAgreement), with any timing: HInv says that the
  local ring holds the first captures of the last four ticks, so a window of
  three never reaches a slot that was reused, and a stalled boundary never
  captures over.
* **ConsolesAgree, WatermarkIsTrue, KeepsItsPromise** (LockstepAgreement), for
  MaxAhead <= TNWIN: AInv adds that the ring holds every byte from the current
  tick to the newest one held.  A record consumed is at most three ticks past
  that newest one, so its window closes the gap; without the assumption it need
  not, and that is what the two violated runs show.
* **GateMeetsNoHole, NoRepairInTime** (LockstepAgreement), for MaxAhead <= TNWIN:
  the two claims of the source that TLC refutes at four ticks (section 5, items 1
  and 2) are true at three.  The byte the gate lets through is always the peer's,
  the two games stay one, and no repair is ever armed.
* **FramesAreTicks, AlarmsAreTrue** (LockstepAgreement), with any timing: FInv
  counts a console's frames from its tick and phase, and SInv says that while
  the games are one every checksum sampled, on its way or fetched is that of the
  game at its own tick.  With the comparison exact (LInv), a record is compared
  on that tick or not at all.
* **NobodyGivesUpEarly, NobodyWaitsForEver, LeaveComesPromptly**
  (WatchdogProofs): in WInv the divider is the number of frames stalled, and the
  high nibble of TNERR is that number over four, or full after a PEER_LEFT.
  A **TypeCorrect** of its own follows from the same invariant.
* **MatchesAreWhole, NamesAreExact, NobodyWaitsBesideAnother, SurvivorsAreTold,
  RolesDiffer** and a **TypeCorrect** of its own (RelayProofs), for any number
  of connections and names and any limits.  RInv adds that a client that is gone
  has neither name nor partner, that a console which has not said HELLO has
  nothing queued either way, that at most one HELLO is on its way, and that a
  console matched while it waits has its START queued.  The last is why a
  survivor can never again count as one that waits for its first opponent.
* **VerdictIsFair** (CrcLogProofs): CInv says that lap and last_tick together
  are the newest tick, so a key is the tick itself (KeyExact), and every entry
  is the checksum of its key.
* **VerdictIsComplete** and a **TypeCorrect** of its own (CrcLogProofs): KInv
  adds that a log's keys are in order, an entry at least as many ticks younger
  as it is places further back (Ordered), and that whatever the partner may
  still report is there (Waiting).  A stream is at most TND + 1 ticks ahead of
  the other, so what the partner has still to report is among the last eight
  places, and eviction leaves it.
* **FarewellIsLast** and a **TypeCorrect** of its own (RoomProofs), for any
  names, any NAME_LEN from two on, any number of players and late requests.
  RInv adds that the publisher has at most one request open, and only while it
  posts, that the farewell is not out before the main thread has joined it, and
  that from then on, unless somebody was hurried, nothing says "online" that is
  still to be recorded.
* **DescentIsExact, DataIsNeverRun** (GateProofs), for any image, any size and
  any instruction set with the code's lengths.  MInv is the invariant of a
  worklist: what was found is reachable (Sound), and every way on from what was
  found is found, on the list, or being followed (Covered).  When the list is
  empty the set found is therefore the least closed one.
* **ClearIsBounded** (GateProofs), for any page size, any cells and any starts.
* **VerdictHolds** (GateProofs), for any listing of any length and any limits.
  The rows of a listing are contiguous but where an ORG moves on, so ListInv can
  say what a reader has concluded of the rows it has passed: checkbanks,
  whether one that was not put there on purpose ends beyond the limit
  (BankRead); mktail, whether one starts below the limit and ends beyond it
  (TailRead).  The verdict is taken from that after the last row (Judgement).
  BeyondIsCrossed closes the gap between the two: code gets beyond the limit
  only through it, or by an instruction that starts exactly there, which is
  mktail's blind spot.
* **JudgeIsRight** (GateProofs), for any two dumps.  PlayInv says of the
  episodes built so far that the first begins at the first differing tick met
  and the last ends at the last, and that no differing tick met lies within GAP
  behind the end of the first.  The length of the first episode is therefore
  that of the repair, and the tail's agreement is that of the pair.
* **PatchStaysPut, AuditIsEnough, HonestIsAccepted** (BanksProofs), for any
  image, any table that tiles it, any listing, any run of lines replaced by
  bytes of the patch's own or by the old ones with one changed, of any length
  Replacements has, and any contiguous declaration.  BuildInv has little to say
  of the state (one run of lines is patched, the banks are the assembly of the
  patched lines, the audit's verdict is the audit of them), and the argument is
  about offsets.  A region's bucket is one stretch of the listing (BucketIsStretch), assembled it
  is the stretch's bytes end to end (Flattened), and the lines after a patch
  are off by what the patch is longer or shorter (Shift).  So a patch of equal
  length leaves every other byte where it was (RegionGets, StayPut).  A patch
  that is shorter leaves filler at the end of its region; one that is longer
  leaves another byte on the line behind it; the audit meets one or the other.

The proofs assume what the modules model, and the named assumptions on their
constants: TNK >= 1, TND in {1, 2}, TICKS one of the widths listed, finite
limits.  There is no bound on the length of a match in any of them; the bound
constants (LastTick, MaxRx, MaxOdd, Bound) are arbitrary.

### Model-checked only

BothFinish, GoneIsNoticed, CountReachesTheLobby, FreeNameIsFound, ShutdownEnds and
GateEnds are liveness under fairness and out of this prover's reach, as is
anything that needs ENABLED.  Every invariant, every action property and the
refinement that a passing run checks is also a theorem.

The library's induction theorems take an operator as a parameter and cannot be
used here.  Where a proof needs an induction over a number (the length of a
listing, the lines of a stretch, the ticks of a dump) it takes the least
counterexample instead: `Least` and `Greatest` in GateProofs come from the
well-foundedness of < on the naturals, and `Upto` in BanksProofs is the form
the lines are counted with.  No module that is proved about has a RECURSIVE
operator; the fold that assembles a bank is unfolded one line at a time
(Filed).

## 5. Where the code and what it says of itself part

Each is a run that TLC finds violated, and an entry under `findings`.

1. *Order does not matter* (`tnnet.inc:315`).  A batch is consumed newest
   first, the watermark goes up with the first record, and a boundary between
   two CONSUME steps can play a slot that is not stored yet.
2. *The hole never reaches the gate* (`tnnet.inc:360`).  A console with several
   of the peer's inputs in hand can enter four ticks between two WRITEs; the
   window holds three.  Both take captures four ticks ahead of what the peer has
   consumed, and cannot happen at three.
3. *A clean leave is instant* (`tnnet.inc:339`).  A tick that runs after
   PEER_LEFT clears the count it filled.
4. *Every frame during play is eight bytes* (`tennis_relay_server.py:45`).  A
   survivor is idle to the relay before it has read PEER_LEFT, and may be
   paired, and sent START, while it plays.
5. *The relay pairs and forwards* (`tennis_relay_server.py:7`).  on_hello renames
   a console until its name is free (272).  When every candidate is in use it
   never is, and the server's only thread spins: nobody is paired, and no match
   is forwarded, until the process is stopped.  Eleven clients with the name
   `build.sh:202` bakes in (PLAYER1, PLAYER10 to PLAYER19) are enough, from two
   addresses; consoles that were switched off count, as nothing sweeps a client
   with a name.

Smaller things of the same kind, which are no runs of their own:

* `tncap.inc:103`, `tncrc.inc:146`, `tnnet.inc:216` and `tndefs.inc:338` give a
  peer fifteen ticks.  The code gives it sixteen, 64 stalled frames: fifteen
  ticks fill the nibble of TNERR, and TNSTALLN leaves on the one after, which
  finds it full (`cmp #$F0` comes before the addition).  Patience and
  PatienceEnds state what the code does.
* `tndefs.inc:99-105` and the relay's docstring (38-41) take a console to be at
  most d ticks ahead and derive 2d + 1 slots for the remote ring.  A console
  also enters the tick it then stalls in, so the lead is d + 1 (LeadBound) and
  the peer's records reach 2d + 1 ticks past the current one (WatchdogIsFed):
  2d + 2 slots, six at d = 2.  Eight slots hold them all the same.
* log_crc's comment says an entry that has not paired is evicted; paired
  entries stay in the log of whoever reported second, and push out the others.
  NoSplitMissed holds all the same.
* `checkmap.py:19` says the image has no RTS-dispatch and that this is
  asserted; the code looks for JMP (ind) and BRK.  `tntail.asm:116` says the
  gate runs on every build; build.sh runs it for the original only (149).
* `check_patch.py:50` audits every copy of a BOTH region because a patch that
  landed in one copy would otherwise pass; one that is declared does pass.  It
  cannot happen, since mkbanks emits both copies from one bucket.
* `patches.py:270` says that a wrong landing address is a build error;
  check_landings, which would see it, is called by nothing.
* A patch a byte short at the end of a region moves nothing the audit can see
  (AuditedIsPlaced therefore asks for a line behind it); START is such a patch.
* mktail reports "0 spare" for a tail that runs on into the vectors with an
  instruction that starts exactly there (VerdictIsRight).
* playdiff bounds only the first episode, and passes two dumps with no tick in
  common in the normal mode.
* check_zp takes any compare against the symbol for the loop's own.
* `tnstart.inc:61` says that X = $FF "would clear exactly one byte"; that was
  so of the stock loop, not of one that ends at TNZPLO.
* An exception in post() that is no OSError ends the publisher's thread.

## 6. Not modelled, and the plan

Not modelled for good: the bank trampolines, the cold stub apart from what it
means for the clear, the text kernel and the display (straight-line hardware
sequences whose hazards are cycles and addresses, measured by the build's own
gates); the latency probe; the tools that translate one assembler's text into
another's (dasm2as, mkmirror) or report to a reader (recon, zpmap); the emulator
rigs, the simulated client and the tests, which drive the program and were read
for what they say of it; the 1981 game, which is not in the repository and of
which Lockstep takes one frame as an external function.

The limits of what is modelled are set by the same absence.  What the
cartridge's firmware does with a sequence number committed in the middle of
another transaction decides whether a late answer can be taken for the next
one, and the firmware is not here; the repair's success depends on what the
game sets up after a RESET.  With either at hand the next modules would be:

1. **Mailbox**: the transport's state machine with its acknowledgement polls,
   over SEQ and ACKSEQ (0 skipped, 255 wrapping to 1, a transaction abandoned
   by TNGONE).  Lockstep's Write and Fetch would be its two kinds.
2. **Session**: the boot bank (HELLO, wait for START, give up, hand over, come
   back) composed with Relay, so that the values Lockstep starts from are a
   property of it.
3. **Repair**: the rotate-and-add sum and what the synthetic RESET clears.
4. **Mix**: the bit layout of TNCAP and TNMIX.
