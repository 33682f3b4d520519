------------------------------- MODULE ZpGuard -------------------------------
(***************************************************************************)
(* Tennis clears its RAM with one loop that has three ways in, and the     *)
(* netcode's cells are in the same page.  The loop of the port is bounded  *)
(* (TNCLR, src/src/tnstart.inc), and a gate of the build reads the bank's  *)
(* listing to see that it is (src/tools/check_zp.py).  Here the gate       *)
(* judges a listing, and a console runs the bank if it passes.             *)
(***************************************************************************)
EXTENDS Naturals

CONSTANTS
  PageSize,  \* bytes in page zero: 256 on the machine
  NETCODE,   \* names of the netcode's cells, TNWARM among them
  SEEDS,     \* where RESET and SELECT start the loop: $85 and $88
  Missing,   \* a name the listing does not have
  Idle       \* the loop is not running

Page == 0 .. PageSize - 1

ASSUME ZpAssumption ==
  /\ PageSize \in Nat \ {0} /\ SEEDS \subseteq Page /\ SEEDS # {}
  /\ "TNWARM" \in NETCODE /\ Missing \notin Nat /\ Idle \notin Nat

CPX == [value : Page, symbol : BOOLEAN]

VARIABLES
  cell,      \* the address of every netcode cell in the listing
  TNZPLO,    \* the first cell the clear may not touch
  TNSTKLO,   \* the lowest cell the stack comes down to
  loop,      \* the CPX # the clear loop ends on: against TNZPLO by name or not
  other,     \* the other CPX # of the bank
  gate,      \* "build", then the verdict
  warm,      \* bit 7 of TNWARM: the game bank's cold path has run
  X,         \* the loop's index
  wiped      \* the cells it has written since it was entered

zpVars == <<cell, TNZPLO, TNSTKLO, loop, other, gate, warm, X, wiped>>
listing == <<cell, TNZPLO, TNSTKLO, loop, other>>

ZpInit ==
  /\ cell \in [NETCODE -> Page \cup {Missing}]
  /\ TNZPLO \in Page /\ TNSTKLO \in {0, PageSize - 1}
  /\ loop \in CPX /\ \E q \in CPX : other \in {{}, {q}}
  /\ gate = "build"
  /\ warm = FALSE /\ X = Idle /\ wiped = {}

\* check_zp.py
Bounded == \E q \in other \cup {loop} : q.value = TNZPLO /\ q.symbol

GateMutant ==
  /\ gate = "build"
  /\ gate' = IF /\ \A n \in NETCODE : cell[n] # Missing /\ cell[n] >= TNZPLO
                /\ Bounded
                /\ TNSTKLO >= TNZPLO
             THEN "pass" ELSE "fail"
  /\ UNCHANGED <<listing, warm, X, wiped>>

Gate ==
  /\ gate = "build"
  /\ gate' = IF /\ \A n \in NETCODE : cell[n] # Missing /\ cell[n] >= TNZPLO
                /\ Bounded
                /\ \A v \in SEEDS : v < TNZPLO
                /\ TNSTKLO >= TNZPLO
             THEN "pass" ELSE "fail"
  /\ UNCHANGED <<listing, warm, X, wiped>>

\* TNCLR, entered cold out of the bank switch, whose X = $FF is not used, or
\* by a RESET or a SELECT, warm.
Enter ==
  /\ gate = "pass" /\ X = Idle
  /\ X' \in IF warm THEN SEEDS ELSE {0}
  /\ wiped' = {}
  /\ UNCHANGED <<listing, gate, warm>>

\* TNCLR1: STY $00,X; INX; CPX; BNE.  At the end the mark is set.
Clear ==
  /\ X # Idle
  /\ wiped' = wiped \cup {X}
  /\ LET next == (X + 1) % PageSize
     IN  IF next = loop.value THEN X' = Idle /\ warm' = TRUE
         ELSE X' = next /\ warm' = (warm /\ X # cell["TNWARM"])
  /\ UNCHANGED <<listing, gate>>

\* TNCOLD: the console is reset in whatever it does, and TNWARM zeroed.
Cold ==
  /\ gate = "pass"
  /\ warm' = FALSE /\ X' = Idle /\ wiped' = {}
  /\ UNCHANGED <<listing, gate>>

ZpNext == Gate \/ Enter \/ Clear \/ Cold
ZpSpec == ZpInit /\ [][ZpNext]_zpVars

\* A listing that passes is one whose clear writes no cell of the netcode and
\* never runs away, by any of its entries, at whatever moment the console is
\* reset.  That is, as long as the compare the gate has found is the loop's:
\* it cannot tell it from another one against the same symbol.
ClearKeepsOut ==
  gate = "pass" /\ (\A q \in other : q.value = TNZPLO => ~q.symbol) =>
    /\ \A n \in NETCODE : cell[n] \notin wiped
    /\ X # Idle => X < TNZPLO
=============================================================================
