-------------------------------- MODULE Banks --------------------------------
(***************************************************************************)
(* The build of the banked image: the disassembly is patched line by line  *)
(* (src/tools/patches.py), its lines are filed into the regions of the two *)
(* banks and assembled there (mkbanks.py), each listing is asked whether   *)
(* it still fits (checkbanks.py, mktail.py), and the result is audited     *)
(* byte by byte against the cartridge (check_patch.py).                    *)
(*                                                                         *)
(* build.sh runs them in this order under set -e: what stops one stops the *)
(* build.  An address counts from the base of the window, and the byte the *)
(* cartridge has at address a is written a: every displacement shows.      *)
(***************************************************************************)
EXTENDS Integers, Sequences, FiniteSets, SequencesExt

CONSTANTS
  ImageSize,   \* bytes of the cartridge and of a bank: 2048 in the code
  Listings,    \* addresses of the source's lines, as the assembler put them
  Tables,      \* REGIONS: sequences of [lo, hi, bank]
  MaxGrowth,   \* bound: bytes a patched line has more than the cartridge
  NewByte,     \* a byte a patch brings
  Filler       \* a byte nobody emitted

Bank == {"GAME", "KERN"}
At == 0 .. ImageSize - 1
Region == [lo : Nat, hi : Nat, bank : Bank \cup {"BOTH"}]

\* REGIONS tile the image: none is empty and none overlaps.
Tiles(t, size) ==
  /\ t[1].lo = 0 /\ t[Len(t)].hi = size
  /\ \A i \in DOMAIN t : t[i].lo < t[i].hi
  /\ \A i \in 1 .. Len(t) - 1 : t[i].hi = t[i + 1].lo

ASSUME BanksAssumption ==
  /\ ImageSize \in Nat \ {0} /\ MaxGrowth \in Nat
  /\ NewByte \notin Int /\ Filler \notin Int /\ NewByte # Filler
  /\ \A t \in Tables : t \in Seq(Region) \ {<<>>} /\ Tiles(t, ImageSize)
  /\ \A l \in Listings :
       /\ l \in Seq(0 .. ImageSize) \ {<<>>} /\ l[1] = 0
       /\ \A i \in 1 .. Len(l) - 1 : l[i] <= l[i + 1]

-----------------------------------------------------------------------------
(* The table of this port, from $F000 *)

TennisRegions == <<
  [lo |-> 0, hi |-> 21, bank |-> "GAME"],
  [lo |-> 21, hi |-> 360, bank |-> "KERN"],
  [lo |-> 360, hi |-> 1175, bank |-> "GAME"],
  [lo |-> 1175, hi |-> 1339, bank |-> "KERN"],
  [lo |-> 1339, hi |-> 1560, bank |-> "GAME"],
  [lo |-> 1560, hi |-> 1609, bank |-> "KERN"],
  [lo |-> 1609, hi |-> 1792, bank |-> "KERN"],
  [lo |-> 1792, hi |-> 1837, bank |-> "BOTH"],
  [lo |-> 1837, hi |-> 1885, bank |-> "KERN"],
  [lo |-> 1885, hi |-> 1901, bank |-> "BOTH"],
  [lo |-> 1901, hi |-> 2046, bank |-> "KERN"],
  [lo |-> 2046, hi |-> 2048, bank |-> "GAME"]>>

TennisSpans == {
  [at |-> 43, n |-> 3], [at |-> 441, n |-> 9], [at |-> 76, n |-> 5],
  [at |-> 368, n |-> 11], [at |-> 380, n |-> 3], [at |-> 421, n |-> 4],
  [at |-> 505, n |-> 3], [at |-> 515, n |-> 3], [at |-> 886, n |-> 2]}

\* Addresses the netcode jumps to by number.
TennisLandings == {360, 81, 425, 430, 450}

\* The regions tile the image.  Every span is inside a region of one bank, and
\* ends before it does, as AuditedIsPlaced below asks; REWRITTEN, which is the
\* whole of the first region, does not.  No landing is on a patched byte.
ASSUME TennisTable ==
  /\ Tiles(TennisRegions, 2048)
  /\ \A s \in TennisSpans : \E i \in DOMAIN TennisRegions :
       /\ TennisRegions[i].bank # "BOTH"
       /\ TennisRegions[i].lo <= s.at /\ s.at + s.n < TennisRegions[i].hi
  /\ \A a \in TennisLandings : a >= TennisRegions[1].hi
  /\ \A s \in TennisSpans : TennisLandings \cap (s.at .. s.at + s.n - 1) = {}

VARIABLES
  step,      \* how far the build has come
  addr,      \* the address of each line in the unpatched listing
  REGIONS,   \* the table of this build
  lines,     \* the bytes each line of the patched source assembles to
  built,     \* what the two banks hold
  declared   \* SPANS and REWRITTEN: the addresses where a change is allowed

bankVars == <<step, addr, REGIONS, lines, built, declared>>

\* The bytes of a line in the cartridge.
NextAddr(i) == IF i = Len(addr) THEN ImageSize ELSE addr[i + 1]
Original(i) == [j \in 1 .. NextAddr(i) - addr[i] |-> addr[i] + j - 1]

BanksInit ==
  /\ addr \in Listings /\ REGIONS \in Tables
  /\ lines = [i \in DOMAIN addr |-> Original(i)]
  /\ built = [b \in Bank |-> [a \in At |-> Filler]]
  /\ declared = {}
  /\ step = "patch"

-----------------------------------------------------------------------------
(* patches.py *)

\* What n lines from i on are replaced by: bytes of its own, or the ones that
\* were there.
Replacements(i, n) ==
  LET old == FlattenSeq([k \in 1 .. n |-> Original(i + k - 1)])
  IN  UNION {[1 .. m -> {NewByte}] \cup
               {[j \in 1 .. m |-> IF j = k THEN NewByte ELSE old[j]] :
                  k \in 1 .. IF m <= Len(old) THEN m ELSE 0} :
             m \in 0 .. Len(old) + MaxGrowth}

PatchedMutant(i, n, new) ==
  SubSeq(lines, 1, i - 1) \o <<new>> \o SubSeq(lines, i + n, Len(lines))

\* The replacement goes into the first slot and the others are blanked, so
\* that lines keep their numbers, by which mkbanks finds their addresses.
Patched(i, n, new) ==
  [k \in DOMAIN lines |->
     IF k = i THEN new ELSE IF k \in i + 1 .. i + n - 1 THEN <<>> ELSE lines[k]]

\* The anchor matches and the patch is made; the list has no other.
Apply ==
  /\ step = "patch"
  /\ \E i \in DOMAIN lines : \E n \in 1 .. Len(lines) - i + 1 :
       \E new \in Replacements(i, n) : lines' = Patched(i, n, new)
  /\ step' = "edges"
  /\ UNCHANGED <<addr, REGIONS, built, declared>>

\* There is nothing to patch.
ApplyNone ==
  /\ step = "patch"
  /\ step' = "edges"
  /\ UNCHANGED <<addr, REGIONS, lines, built, declared>>

\* A line has moved and an anchor does not match.
AnchorFails ==
  /\ step = "patch"
  /\ step' = "stopped"
  /\ UNCHANGED <<addr, REGIONS, lines, built, declared>>

-----------------------------------------------------------------------------
(* mkbanks.py *)

EdgesOKMutant == TRUE

\* Every edge of a region is an edge of the image or the start of a line.
EdgesOK ==
  \A i \in DOMAIN REGIONS : \A edge \in {REGIONS[i].lo, REGIONS[i].hi} :
    edge \in {0, ImageSize} \cup Range(addr)

region_of(a) ==
  CHOOSE i \in DOMAIN REGIONS : a \in REGIONS[i].lo .. REGIONS[i].hi - 1

\* A line goes to the region its unpatched address is in; one past the
\* image to none.
Bucket(i) ==
  FlattenSeq([k \in DOMAIN lines |->
    IF addr[k] \in At /\ region_of(addr[k]) = i THEN lines[k] ELSE <<>>])

\* A region goes into its bank, one that is BOTH into both.
Copies(i) == IF REGIONS[i].bank = "BOTH" THEN Bank ELSE {REGIONS[i].bank}

\* Where a region's lines end up: they start at its ORG and run on.
Extent(i) == REGIONS[i].lo .. REGIONS[i].lo + Len(Bucket(i)) - 1

\* The assembler's image of a bank: where regions run into one another the
\* later one is what is left.
Assembled(b) ==
  [a \in At |->
     LET owners == {i \in DOMAIN REGIONS : b \in Copies(i) /\ a \in Extent(i)}
         last == CHOOSE i \in owners : \A k \in owners : k <= i
     IN  IF owners = {} THEN Filler ELSE Bucket(last)[a - REGIONS[last].lo + 1]]

Split ==
  /\ step = "edges"
  /\ IF EdgesOK
     THEN built' = [b \in Bank |-> Assembled(b)] /\ step' = "fits"
     ELSE step' = "stopped" /\ UNCHANGED built
  /\ UNCHANGED <<addr, REGIONS, lines, declared>>

-----------------------------------------------------------------------------
(* checkbanks.py *)

\* The listing of a bank has no byte at or above the window's end.
Fits ==
  /\ step = "fits"
  /\ step' = IF \A i \in DOMAIN REGIONS : Extent(i) \subseteq At
             THEN "audit" ELSE "stopped"
  /\ UNCHANGED <<addr, REGIONS, lines, built, declared>>

-----------------------------------------------------------------------------
(* check_patch.py *)

changedMutant == {a \in At :
  \E i \in DOMAIN REGIONS : \E b \in Copies(i) :
    a \in REGIONS[i].lo .. REGIONS[i].hi - 2 /\ built[b][a] # a}

\* The addresses some copy differs at.
changed == {a \in At :
  \E i \in DOMAIN REGIONS : \E b \in Copies(i) :
    a \in REGIONS[i].lo .. REGIONS[i].hi - 1 /\ built[b][a] # a}

\* A difference is declared, and a declaration that makes none is a problem
\* as well.
Audit ==
  /\ step = "audit"
  /\ \E lo \in 0 .. ImageSize : \E hi \in lo .. ImageSize :
       /\ declared' = lo .. hi - 1
       /\ step' = IF /\ changed \subseteq declared'
                     /\ lo < hi => changed \cap declared' # {}
                  THEN "done" ELSE "rejected"
  /\ UNCHANGED <<addr, REGIONS, lines, built>>

BanksNext == Apply \/ ApplyNone \/ AnchorFails \/ Split \/ Fits \/ Audit
BanksSpec == BanksInit /\ [][BanksNext]_bankVars

-----------------------------------------------------------------------------
(* Properties *)

\* The lines that no longer say what they said, and the addresses they had.
patched == {i \in DOMAIN lines : lines[i] # Original(i)}
aimed == UNION {addr[i] .. NextAddr(i) - 1 : i \in patched}

InOneRegion(as) ==
  \E i \in DOMAIN REGIONS : as \subseteq REGIONS[i].lo .. REGIONS[i].hi - 1

\* What the patched source is, end to end.
source == FlattenSeq(lines)

\* Every bank has at each address it owns the byte the source has there.
Placed == \A i \in DOMAIN REGIONS : \A b \in Copies(i) :
  \A a \in REGIONS[i].lo .. REGIONS[i].hi - 1 : built[b][a] = source[a + 1]

\* A patch that keeps its size and stays in one region moves nothing: once the
\* edges are found to be line starts, filing whole lines by the addresses of
\* the unpatched listing puts every byte where the cartridge has it.
BytesStayPut ==
  step = "fits" /\ Len(source) = ImageSize
    /\ InOneRegion({addr[i] : i \in patched} \cup aimed) => Placed

\* The audit makes up for a patch author who miscounts: a build that ends well
\* has every byte in its place, whatever the size of the patch, if only what
\* was aimed at is declared and more lines of the region follow.  At the end
\* of a region there is nothing behind the patch to be displaced.
AuditedIsPlaced ==
  /\ step = "done" /\ declared \subseteq aimed /\ aimed # {}
  /\ \E i \in DOMAIN lines :
       /\ \A a \in aimed : a < addr[i]
       /\ lines[i] # <<>> /\ InOneRegion(aimed \cup {addr[i]})
  => Placed

\* The audit turns no honest patch away: one that keeps its size, stays in one
\* region and declares the bytes that it changes.
HonestPatchPasses ==
  step = "rejected" /\ Len(source) = ImageSize
    /\ InOneRegion({addr[i] : i \in patched} \cup aimed)
  => declared # {a \in At : source[a + 1] # a}
=============================================================================
