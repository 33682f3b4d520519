------------------------------- MODULE CodeMap -------------------------------
(***************************************************************************)
(* The code/data gate of the build (src/tools/checkmap.py): the cartridge  *)
(* is walked from its reset vector, every way an instruction may go on is  *)
(* followed, and the build stops unless the bytes reached are exactly the  *)
(* ones declared to be code.                                               *)
(*                                                                         *)
(* After a pass the console runs the image, as far as the gate speaks for  *)
(* it: what the gate is for is that the processor never takes a byte that  *)
(* was declared data for an instruction.                                   *)
(***************************************************************************)
EXTENDS Integers, Sequences, FiniteSets

CONSTANTS
  Size,       \* bytes in the image: 2048 in the code
  Byte,       \* what a byte may be
  Class,      \* Class[b]: what byte b does when it is executed
  Operand,    \* Operand[b]: the address or branch distance byte b stands for
  NoPc        \* no instruction is being followed

\* How long an instruction is; 0 is an undefined opcode.  The plain ones only
\* differ in their length.
LEN == [undefined |-> 0, brk |-> 1, ret |-> 1, plain |-> 1, plain2 |-> 2,
        plain3 |-> 3, branch |-> 2, jsr |-> 3, jmp |-> 3, jmpind |-> 3]

ASSUME CodeMapAssumption ==
  /\ Size \in Nat \ {0}
  /\ Class \in [Byte -> DOMAIN LEN]
  /\ Operand \in [Byte -> Int]
  /\ NoPc \notin Int

Address == 0 .. Size - 1

VARIABLES
  rom,        \* the image
  reset,      \* its reset vector
  work,       \* addresses still to be followed, the last one next
  pc,         \* the address being followed
  starts,     \* where instructions were found to start
  undefined,  \* undefined opcodes that were reached
  decl,       \* the addresses tennis.cfg declares to be data
  result,     \* "walking", then how the gate ended
  cpu,        \* the address the console executes
  stack       \* the addresses a return may go to

walk == <<work, pc, starts, undefined>>
image == <<rom, reset>>
mapVars == <<image, walk, decl, result, cpu, stack>>

Op(a) == Class[rom[a]]
Ends(a) == a + LEN[Op(a)]

\* The image is whatever the dump holds.  Its reset vector is inside, or
\* checkmap stops before it starts.
MapInit ==
  /\ rom \in [Address -> Byte]
  /\ reset \in Address
  /\ work = <<reset>> /\ cpu = reset
  /\ pc = NoPc
  /\ starts = {} /\ undefined = {}
  /\ decl = {}
  /\ result = "walking"
  /\ stack = {}

-----------------------------------------------------------------------------
(* The walk *)

\* Where a branch, a call or a jump goes; a branch counts from its end.
Target(a) ==
  IF Op(a) = "branch" THEN Ends(a) + Operand[rom[a + 1]]
  ELSE Operand[rom[a + 1]]

PushedMutant(a) ==
  IF Op(a) \in {"jsr", "jmp"} /\ Target(a) \in Address
  THEN <<Target(a)>> ELSE <<>>

\* What is put on the list: the target of a branch wherever it is, the target
\* of a call or a jump if it is in the image.
Pushed(a) ==
  IF Op(a) = "branch" \/ (Op(a) \in {"jsr", "jmp"} /\ Target(a) \in Address)
  THEN <<Target(a)>> ELSE <<>>

FallsThrough(a) == Op(a) \notin {"brk", "ret", "jmp", "jmpind"}

\* The instruction's operand is read, and there may be no such byte.
ReadsPastEnd(a) ==
  Op(a) \in {"branch", "plain3", "jsr", "jmp"} /\ Ends(a) > Size

Whole(a) == Op(a) # "undefined" /\ ~ReadsPastEnd(a)

\* work.pop()
Pop ==
  /\ result = "walking" /\ pc = NoPc /\ work # <<>>
  /\ pc' = work[Len(work)]
  /\ work' = SubSeq(work, 1, Len(work) - 1)
  /\ UNCHANGED <<image, starts, undefined, decl, result, cpu, stack>>

\* Out of the image, or been there.
Leave ==
  /\ result = "walking" /\ pc # NoPc /\ pc \notin Address \ starts
  /\ pc' = NoPc
  /\ UNCHANGED <<image, work, starts, undefined, decl, result, cpu, stack>>

Undefined ==
  /\ result = "walking" /\ pc \in Address \ starts /\ Op(pc) = "undefined"
  /\ undefined' = undefined \cup {pc}
  /\ pc' = NoPc
  /\ UNCHANGED <<image, work, starts, decl, result, cpu, stack>>

\* An IndexError: the gate ends without a verdict, and so does the build.
Crash ==
  /\ result = "walking" /\ pc \in Address \ starts /\ ReadsPastEnd(pc)
  /\ result' = "crash"
  /\ UNCHANGED <<image, walk, decl, cpu, stack>>

VisitMutant ==
  /\ result = "walking" /\ pc \in Address \ starts
  /\ Whole(pc)
  /\ work' = work \o Pushed(pc)
  /\ pc' = IF FallsThrough(pc) THEN Ends(pc) ELSE NoPc
  /\ UNCHANGED <<image, starts, undefined, decl, result, cpu, stack>>

Visit ==
  /\ result = "walking" /\ pc \in Address \ starts
  /\ Whole(pc)
  /\ starts' = starts \cup {pc}
  /\ work' = work \o Pushed(pc)
  /\ pc' = IF FallsThrough(pc) THEN Ends(pc) ELSE NoPc
  /\ UNCHANGED <<image, undefined, decl, result, cpu, stack>>

-----------------------------------------------------------------------------
(* The verdict *)

\* The bytes of the instructions found; the last may end beyond the image.
reached == UNION {a .. Ends(a) - 1 : a \in starts}

ProblemMutant(data) ==
  \/ undefined # {}
  \/ \E a \in starts : Op(a) \in {"jmpind", "brk"}
  \/ (Address \ data) \ reached # {}
  \/ data \cap starts # {}

\* What checkmap calls a problem: undefined opcodes, jumps it cannot follow,
\* code that is never reached and data that is.
Problem(data) ==
  \/ undefined # {}
  \/ \E a \in starts : Op(a) \in {"jmpind", "brk"}
  \/ (Address \ data) \ reached # {}
  \/ data \cap reached # {}

\* The cfg may declare any of the addresses data: regions(), by its DATA, GFX
\* and PGFX lines, which may overlap.
Declarations == SUBSET Address

Judge ==
  /\ result = "walking" /\ pc = NoPc /\ work = <<>>
  /\ \E data \in Declarations :
       /\ decl' = data
       /\ result' = IF Problem(data) THEN "fail" ELSE "pass"
  /\ UNCHANGED <<image, walk, cpu, stack>>

-----------------------------------------------------------------------------
(* The console: a 6507, without interrupts, as long as it stays in the     *)
(* image.  What it finds elsewhere, the mirror included, is not followed,  *)
(* and its returns go back to calls it has made.                           *)

\* Where the program may be after the instruction at a, the return apart; a
\* call goes on at its own end when it is returned to.
Flow(a) ==
  (IF FallsThrough(a) THEN {Ends(a)} ELSE {})
    \cup (IF Op(a) \in {"branch", "jsr", "jmp"} THEN {Target(a)} ELSE {})

Run ==
  /\ result = "pass" /\ cpu \in Address
  /\ cpu' \in CASE Op(cpu) = "jsr" -> {Target(cpu)}
               [] Op(cpu) = "ret" -> stack
               [] OTHER -> Flow(cpu)
  /\ stack' = IF Op(cpu) = "jsr" THEN stack \cup {Ends(cpu)} ELSE stack
  /\ UNCHANGED <<image, walk, decl, result>>

-----------------------------------------------------------------------------
Walk == Pop \/ Leave \/ Undefined \/ Crash \/ Visit \/ Judge
MapNext == Walk \/ Run
MapSpec == MapInit /\ [][MapNext]_mapVars /\ WF_mapVars(Walk)

-----------------------------------------------------------------------------
(* Properties *)

MapTypeOK ==
  /\ rom \in [Address -> Byte] /\ reset \in Address
  /\ work \in Seq(Int) /\ pc \in Int \cup {NoPc}
  /\ starts \subseteq Address /\ undefined \subseteq Address
  /\ decl \subseteq Address
  /\ result \in {"walking", "pass", "fail", "crash"}
  /\ cpu \in Int /\ stack \subseteq Int

\* What the gate means by "reached": the least set that holds the reset vector
\* and is closed under everything a whole instruction may go on to.
Closed(C) ==
  reset \in C /\ \A a \in C : Whole(a) => Flow(a) \cap Address \subseteq C
Reach == {a \in Address : \A C \in SUBSET Address : Closed(C) => a \in C}

\* The split a data declaration makes is the one of the least closed set, and
\* nothing in it defeats the descent.
RightSplit(data) ==
  /\ \A a \in Reach : Whole(a) /\ Op(a) \notin {"jmpind", "brk"}
  /\ Address \ data = Address \cap UNION {a .. Ends(a) - 1 : a \in Reach}

\* When the gate comes to a verdict, it is the right one, for every image and
\* every declaration: in particular the list and the "been there" test lose no
\* way into the code, however the instructions overlap, loop or fall off the
\* end.
DescentExact ==
  result \in {"pass", "fail"} => (result = "pass" <=> RightSplit(decl))

\* A console that runs an image that passed never executes a byte that was
\* declared data, as long as it stays in the image and returns where it was
\* called.
NeverRunsData ==
  result = "pass" /\ cpu \in Address => (cpu .. Ends(cpu) - 1) \cap decl = {}

\* The walk ends: loops in the program do not make a loop of it.
GateEnds == <>(result # "walking")
=============================================================================
