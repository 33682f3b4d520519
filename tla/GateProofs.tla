----------------------------- MODULE GateProofs -----------------------------
(***************************************************************************)
(* The descent of CodeMap finds exactly what can be reached, and the       *)
(* console that runs an image that passed stays out of its data.  The      *)
(* clear loop of a listing that ZpGuard passes stays out of the netcode.   *)
(* A listing of any length is judged right by Listing's two readers, and a *)
(* match of any length by PlayDiff.  The build of the banks, the longest   *)
(* of the gates, is in BanksProofs.                                        *)
(***************************************************************************)
EXTENDS CodeMap, ZpGuard, Listing, PlayDiff,
        SequenceTheorems, FiniteSetTheorems, WellFoundedInduction, TLAPS

-----------------------------------------------------------------------------
(* Numbers *)

\* A set of numbers has a least element.
LEMMA Least ==
  ASSUME NEW T, T \subseteq Nat, T # {}
  PROVE  \E m \in T : \A k \in T : m <= k
  <1> DEFINE R == OpToRel(<, Nat)
  <1>1. IsWellFoundedOn(R, Nat)
    BY NatLessThanWellFounded
  <1> HIDE DEF R
  <1>2. PICK m \in T : \A k \in T : ~(<<k, m>> \in R)
    BY <1>1, WFMin
  <1>3. ASSUME NEW k \in T PROVE ~(k < m)
    BY <1>2 DEF R, OpToRel
  <1> QED BY <1>3

\* A bounded set has a greatest element: the least of the distances to the bound.
LEMMA Greatest ==
  ASSUME NEW B \in Nat, NEW T, T \subseteq 0 .. B, T # {}
  PROVE  \E m \in T : \A k \in T : k <= m
  <1> DEFINE D == {B - k : k \in T}
  <1>1. D \subseteq Nat /\ D # {}
    <2>1. \A k \in T : B - k \in Nat
      OBVIOUS
    <2> QED BY <2>1
  <1> HIDE DEF D
  <1>2. PICK d \in D : \A e \in D : d <= e
    BY <1>1, Least
  <1>3. PICK m \in T : d = B - m
    BY DEF D
  <1>4. ASSUME NEW k \in T PROVE k <= m
    <2>1. B - k \in D
      BY DEF D
    <2>2. B - m <= B - k
      BY <1>2, <1>3, <2>1
    <2> QED BY <2>2
  <1> QED BY <1>4

-----------------------------------------------------------------------------
(* Instructions *)

\* How long an instruction is, and what an operand needs.
LEMMA LenFacts ==
  ASSUME MapTypeOK, NEW a \in Address
  PROVE  /\ Op(a) \in DOMAIN LEN
         /\ LEN[Op(a)] \in 0 .. 3
         /\ Op(a) # "undefined" => LEN[Op(a)] \in 1 .. 3
         /\ Op(a) \in {"branch", "jsr", "jmp"} => LEN[Op(a)] \in 2 .. 3
         /\ Ends(a) = a + LEN[Op(a)]
         /\ Ends(a) \in Int
  <1>1. a \in Int
    BY CodeMapAssumption DEF Address
  <1>2. Op(a) \in DOMAIN LEN
    BY CodeMapAssumption DEF Op, MapTypeOK
  <1>3. Op(a) \in {"undefined", "brk", "ret", "plain", "plain2", "plain3",
                   "branch", "jsr", "jmp", "jmpind"}
    BY <1>2 DEF LEN
  <1>4. /\ LEN[Op(a)] \in 0 .. 3
        /\ Op(a) # "undefined" => LEN[Op(a)] \in 1 .. 3
        /\ Op(a) \in {"branch", "jsr", "jmp"} => LEN[Op(a)] \in 2 .. 3
    BY <1>3 DEF LEN
  <1> QED BY <1>1, <1>2, <1>4 DEF Ends

\* A whole instruction goes on to addresses.
LEMMA FlowFacts ==
  ASSUME MapTypeOK, NEW a \in Address, Whole(a)
  PROVE  /\ Flow(a) \subseteq Int
         /\ Op(a) \in {"branch", "jsr", "jmp"} => Target(a) \in Int
  <1>1. ASSUME Op(a) \in {"branch", "jsr", "jmp"} PROVE Target(a) \in Int
    <2>1. a + 1 \in Address
      BY <1>1, LenFacts, CodeMapAssumption DEF Whole, ReadsPastEnd, Address
    <2>2. Operand[rom[a + 1]] \in Int
      BY <2>1, CodeMapAssumption DEF MapTypeOK
    <2> QED BY <2>2, LenFacts DEF Target
  <1> QED BY <1>1, LenFacts DEF Flow

\* What is put on the list and where the walk goes on from a, taken together,
\* is where the program may go on to, as far as it is in the image.
LEMMA PushedFacts ==
  ASSUME MapTypeOK, NEW a \in Address, Whole(a)
  PROVE  /\ Pushed(a) \in Seq(Int)
         /\ \A i \in 1 .. Len(Pushed(a)) : Pushed(a)[i] \in Flow(a)
         /\ \A s \in Flow(a) \cap Address :
              \/ FallsThrough(a) /\ s = Ends(a)
              \/ \E i \in 1 .. Len(Pushed(a)) : Pushed(a)[i] = s
  <1>1. CASE Op(a) = "branch" \/ (Op(a) \in {"jsr", "jmp"} /\ Target(a) \in Address)
    <2>1. Pushed(a) = <<Target(a)>>
      BY <1>1 DEF Pushed
    <2>2. Target(a) \in Int /\ Target(a) \in Flow(a)
      BY <1>1, FlowFacts DEF Flow
    <2>3. Len(<<Target(a)>>) = 1 /\ <<Target(a)>>[1] = Target(a)
      OBVIOUS
    <2>4. \A s \in Flow(a) : (FallsThrough(a) /\ s = Ends(a)) \/ s = Target(a)
      BY DEF Flow
    <2> QED BY <2>1, <2>2, <2>3, <2>4
  <1>2. CASE ~(Op(a) = "branch" \/ (Op(a) \in {"jsr", "jmp"} /\ Target(a) \in Address))
    <2>1. Pushed(a) = <<>>
      BY <1>2 DEF Pushed
    <2>2. \A s \in Flow(a) \cap Address : FallsThrough(a) /\ s = Ends(a)
      BY <1>2 DEF Flow
    <2> QED BY <2>1, <2>2
  <1> QED BY <1>1, <1>2

-----------------------------------------------------------------------------
(* The invariant of the walk *)

\* What is still to be followed.
Pending == {work[i] : i \in 1 .. Len(work)} \cup {pc}

Known == starts \cup undefined \cup Pending

\* Nothing is visited that a closed set can do without.
Sound ==
  \A C \in SUBSET Address :
    Closed(C) => starts \cup undefined \cup (Pending \cap Address) \subseteq C

\* Nothing that was visited leads to something that is forgotten.
Covered ==
  reset \in Known /\ \A a \in starts : Flow(a) \cap Address \subseteq Known

Sorted ==
  /\ \A a \in starts : Whole(a)
  /\ \A a \in undefined : Op(a) = "undefined"

Judged ==
  result \in {"pass", "fail"} =>
    work = <<>> /\ pc = NoPc /\ (result = "pass" <=> ~Problem(decl))

\* The console is where the walk has been.
InStarts ==
  /\ result # "pass" => cpu = reset /\ stack = {}
  /\ result = "pass" => ({cpu} \cup stack) \cap Address \subseteq starts

MInv == MapTypeOK /\ Sound /\ Covered /\ Sorted /\ Judged /\ InStarts

-----------------------------------------------------------------------------
LEMMA MapInitInv == MapInit => MInv
  <1> SUFFICES ASSUME MapInit PROVE MInv
    OBVIOUS
  <1> USE DEF MapInit
  <1>1. Pending = {reset, NoPc} /\ NoPc \notin Address
    BY CodeMapAssumption DEF Pending, Address
  <1>2. MapTypeOK
    BY CodeMapAssumption DEF MapTypeOK, Address
  <1>3. Sound
    BY <1>1 DEF Sound, Closed
  <1>4. Covered /\ Sorted /\ Judged /\ InStarts
    BY <1>1 DEF Covered, Known, Sorted, Judged, InStarts
  <1> QED BY <1>2, <1>3, <1>4 DEF MInv

\* A step that leaves the image alone leaves the instructions alone.
LEMMA SameImage ==
  ASSUME UNCHANGED image
  PROVE  /\ \A a : Op(a)' = Op(a) /\ Ends(a)' = Ends(a) /\ Flow(a)' = Flow(a)
         /\ \A a : Whole(a)' <=> Whole(a)
         /\ \A C : Closed(C)' <=> Closed(C)
  <1> USE DEF image
  <1>1. \A a : Op(a)' = Op(a)
    BY DEF Op
  <1>2. \A a : Ends(a)' = Ends(a)
    BY <1>1 DEF Ends
  <1>3. \A a : Target(a)' = Target(a)
    BY <1>1, <1>2 DEF Target
  <1>4. \A a : Flow(a)' = Flow(a)
    BY <1>1, <1>2, <1>3 DEF Flow, FallsThrough
  <1>5. \A a : Whole(a)' <=> Whole(a)
    BY <1>1, <1>2 DEF Whole, ReadsPastEnd
  <1>6. \A C : Closed(C)' <=> Closed(C)
    BY <1>4, <1>5 DEF Closed
  <1> QED BY <1>1, <1>2, <1>4, <1>5, <1>6

\* A step that leaves the walk alone, too, keeps what is known of it.
LEMMA SameWalk ==
  ASSUME MInv, UNCHANGED <<image, walk>>
  PROVE  Sound' /\ Covered' /\ Sorted'
  <1>1. UNCHANGED image /\ work' = work /\ pc' = pc /\ starts' = starts
          /\ undefined' = undefined /\ reset' = reset
    BY DEF walk, image
  <1>2. Pending' = Pending
    BY <1>1 DEF Pending
  <1>3. Sound'
    BY <1>1, <1>2, SameImage DEF MInv, Sound
  <1>4. Covered'
    BY <1>1, <1>2, SameImage DEF MInv, Covered, Known
  <1>5. Sorted'
    BY <1>1, SameImage DEF MInv, Sorted
  <1> QED BY <1>3, <1>4, <1>5

LEMMA PopInv == MInv /\ Pop => MInv'
  <1> SUFFICES ASSUME MInv, Pop PROVE MInv'
    OBVIOUS
  <1> USE DEF MInv, Pop
  <1>1. UNCHANGED image /\ reset' = reset
    BY DEF image
  <1>2. work \in Seq(Int) /\ Len(work) \in Nat \ {0}
    BY DEF MapTypeOK
  <1>3. work' \in Seq(Int) /\ work[Len(work)] \in Int
        /\ Len(work') = Len(work) - 1
        /\ \A i \in 1 .. Len(work') : work'[i] = work[i]
    <2> DEFINE n == Len(work) - 1
    <2>1. work' = SubSeq(work, 1, n) /\ n \in 0 .. Len(work)
      BY <1>2
    <2>2. n \in Int /\ \A i \in 1 .. n : work[i] \in Int
      BY <1>2
    <2>3. /\ SubSeq(work, 1, n) \in Seq(Int)
          /\ Len(SubSeq(work, 1, n)) = IF 1 <= n THEN n - 1 + 1 ELSE 0
          /\ \A i \in 1 .. n - 1 + 1 : SubSeq(work, 1, n)[i] = work[1 + i - 1]
      BY <2>2, SubSeqProperties
    <2>4. Len(SubSeq(work, 1, n)) = n
            /\ \A i \in 1 .. n : SubSeq(work, 1, n)[i] = work[i]
      <3> HIDE DEF Pop, MInv
      <3>1. n \in Nat
        BY <1>2
      <3> HIDE DEF n
      <3>2. n - 1 + 1 = n /\ (~(1 <= n) => n = 0)
        BY <3>1
      <3>3. \A i \in 1 .. n : 1 + i - 1 = i
        BY <3>1
      <3> QED BY <2>3, <3>2, <3>3
    <2>5. work[Len(work)] \in Int
      BY <1>2
    <2> QED BY <2>1, <2>3, <2>4, <2>5
  <1>4. MapTypeOK'
    BY <1>1, <1>3 DEF MapTypeOK, image
  <1>5. Pending' = Pending \ {NoPc}
    <2>1. NoPc \notin {work[i] : i \in 1 .. Len(work)}
      BY <1>2, CodeMapAssumption
    <2>2. {work'[i] : i \in 1 .. Len(work')} \cup {work[Len(work)]}
            = {work[i] : i \in 1 .. Len(work)}
      <3> DEFINE n == Len(work)
      <3>1. n \in Nat \ {0} /\ Len(work') = n - 1
        BY <1>2, <1>3
      <3>2. \A i \in 1 .. n : i = n \/ i \in 1 .. n - 1
        BY <3>1
      <3>3. n \in 1 .. n /\ \A i \in 1 .. n - 1 : i \in 1 .. n
        BY <3>1
      <3>4. \A i \in 1 .. n - 1 : work'[i] = work[i]
        BY <1>3, <3>1
      <3> HIDE DEF n, Pop, MInv
      <3>5. {work'[i] : i \in 1 .. n - 1} \cup {work[n]} = {work[i] : i \in 1 .. n}
        BY <3>2, <3>3, <3>4
      <3> QED BY <3>1, <3>5 DEF n
    <2> QED BY <2>1, <2>2 DEF Pending
  <1>6. NoPc \notin Address
    BY CodeMapAssumption DEF Address
  <1>7. Sound'
    BY <1>1, <1>5, SameImage DEF Sound
  <1>8. Covered'
    BY <1>1, <1>5, <1>6, SameImage DEF Covered, Known, MapTypeOK
  <1>9. Sorted'
    BY <1>1, SameImage DEF Sorted
  <1>10. Judged' /\ InStarts'
    BY <1>1 DEF Judged, InStarts
  <1> QED BY <1>4, <1>7, <1>8, <1>9, <1>10

LEMMA LeaveInv == MInv /\ Leave => MInv'
  <1> SUFFICES ASSUME MInv, Leave PROVE MInv'
    OBVIOUS
  <1> USE DEF MInv, Leave
  <1>1. UNCHANGED image /\ reset' = reset
    BY DEF image
  <1>2. MapTypeOK'
    BY <1>1 DEF MapTypeOK, image
  <1>3. Pending \cap Address \subseteq Known' /\ Pending' \cap Address \subseteq Pending
    BY CodeMapAssumption DEF Pending, Known, Address
  <1>4. Sound'
    BY <1>1, <1>3, SameImage DEF Sound
  <1>5. Covered'
    BY <1>1, <1>3, SameImage DEF Covered, Known, MapTypeOK
  <1>6. Sorted'
    BY <1>1, SameImage DEF Sorted
  <1>7. Judged' /\ InStarts'
    BY <1>1 DEF Judged, InStarts
  <1> QED BY <1>2, <1>4, <1>5, <1>6, <1>7

LEMMA UndefinedInv == MInv /\ Undefined => MInv'
  <1> SUFFICES ASSUME MInv, Undefined PROVE MInv'
    OBVIOUS
  <1> USE DEF MInv, Undefined
  <1>1. UNCHANGED image /\ reset' = reset
    BY DEF image
  <1>2. MapTypeOK'
    BY <1>1 DEF MapTypeOK, image
  <1>3. Known \cap Address \subseteq Known' /\ pc \in Pending
        /\ Pending' \cap Address \subseteq Pending
    BY CodeMapAssumption DEF Pending, Known, Address
  <1>4. Sound'
    BY <1>1, <1>3, SameImage DEF Sound
  <1>5. Covered'
    BY <1>1, <1>3, SameImage DEF Covered, MapTypeOK
  <1>6. Sorted'
    BY <1>1, SameImage DEF Sorted
  <1>7. Judged' /\ InStarts'
    BY <1>1 DEF Judged, InStarts
  <1> QED BY <1>2, <1>4, <1>5, <1>6, <1>7

LEMMA CrashInv == MInv /\ Crash => MInv'
  <1> SUFFICES ASSUME MInv, Crash PROVE MInv'
    OBVIOUS
  <1>1. UNCHANGED <<image, walk>> /\ Sound' /\ Covered' /\ Sorted'
    BY SameWalk DEF Crash
  <1>2. MapTypeOK'
    BY DEF MInv, Crash, MapTypeOK, image, walk
  <1>3. Judged' /\ InStarts'
    BY DEF MInv, Crash, Judged, InStarts, image, walk
  <1> QED BY <1>1, <1>2, <1>3 DEF MInv

\* The step that does the work: what is visited goes from the list to the
\* starts, and where it leads goes to the list.
LEMMA VisitInv == MInv /\ Visit => MInv'
  <1> SUFFICES ASSUME MInv, Visit PROVE MInv'
    OBVIOUS
  <1> USE DEF MInv, Visit
  <1>1. UNCHANGED image /\ reset' = reset /\ pc \in Address /\ Whole(pc)
    BY DEF image
  <1>2. /\ Pushed(pc) \in Seq(Int)
        /\ \A i \in 1 .. Len(Pushed(pc)) : Pushed(pc)[i] \in Flow(pc)
        /\ \A s \in Flow(pc) \cap Address :
             \/ FallsThrough(pc) /\ s = Ends(pc)
             \/ \E i \in 1 .. Len(Pushed(pc)) : Pushed(pc)[i] = s
    BY <1>1, PushedFacts
  <1>3. /\ work \in Seq(Int) /\ work' \in Seq(Int)
        /\ Len(work') = Len(work) + Len(Pushed(pc))
        /\ \A i \in 1 .. Len(work) : work'[i] = work[i]
        /\ \A i \in 1 .. Len(Pushed(pc)) : work'[Len(work) + i] = Pushed(pc)[i]
    BY <1>2 DEF MapTypeOK
  <1>4. {work'[i] : i \in 1 .. Len(work')}
          = {work[i] : i \in 1 .. Len(work)}
              \cup {Pushed(pc)[i] : i \in 1 .. Len(Pushed(pc))}
    <2>1. Len(work) \in Nat /\ Len(Pushed(pc)) \in Nat
      BY <1>2, <1>3
    <2>2. \A i \in 1 .. Len(work') :
            \/ i \in 1 .. Len(work)
            \/ \E k \in 1 .. Len(Pushed(pc)) : i = Len(work) + k
      <3> SUFFICES ASSUME NEW i \in 1 .. Len(work'), i \notin 1 .. Len(work)
                   PROVE  \E k \in 1 .. Len(Pushed(pc)) : i = Len(work) + k
        OBVIOUS
      <3>1. i - Len(work) \in 1 .. Len(Pushed(pc)) /\ i = Len(work) + (i - Len(work))
        BY <1>3, <2>1
      <3> QED BY <3>1
    <2>3. 1 .. Len(work) \subseteq 1 .. Len(work')
      BY <1>3, <2>1
    <2>4. \A k \in 1 .. Len(Pushed(pc)) : Len(work) + k \in 1 .. Len(work')
      BY <1>3, <2>1
    <2>5. ASSUME NEW i \in 1 .. Len(work')
          PROVE  work'[i] \in {work[k] : k \in 1 .. Len(work)}
                   \cup {Pushed(pc)[k] : k \in 1 .. Len(Pushed(pc))}
      BY <1>3, <2>2, SMTT(30)
    <2>6. ASSUME NEW i \in 1 .. Len(work)
          PROVE  work[i] \in {work'[k] : k \in 1 .. Len(work')}
      <3>1. i \in 1 .. Len(work') /\ work[i] = work'[i]
        BY <1>3, <2>3
      <3> QED BY <3>1
    <2>7. ASSUME NEW i \in 1 .. Len(Pushed(pc))
          PROVE  Pushed(pc)[i] \in {work'[k] : k \in 1 .. Len(work')}
      <3>1. /\ Len(work) + i \in 1 .. Len(work')
            /\ Pushed(pc)[i] = work'[Len(work) + i]
        BY <1>3, <2>4
      <3> QED BY <3>1
    <2> HIDE DEF Visit, MInv
    <2> QED BY <2>5, <2>6, <2>7, Zenon
  <1>5. Ends(pc) \in Int /\ (FallsThrough(pc) => Ends(pc) \in Flow(pc))
    BY <1>1, LenFacts DEF Flow
  <1>6. NoPc \notin Address
    BY CodeMapAssumption DEF Address
  <1>7. MapTypeOK'
    BY <1>1, <1>3, <1>5 DEF MapTypeOK, image
  <1>8. /\ Pending' \cap Address \subseteq Pending \cup Flow(pc)
        /\ Pending \subseteq Pending' \cup {pc}
        /\ Flow(pc) \cap Address \subseteq Pending'
    <2> DEFINE W == {work[i] : i \in 1 .. Len(work)}
               P == {Pushed(pc)[i] : i \in 1 .. Len(Pushed(pc))}
    <2>1. Pending = W \cup {pc} /\ Pending' = W \cup P \cup {pc'}
      BY <1>4 DEF Pending
    <2>2. P \subseteq Flow(pc)
      BY <1>2
    <2>3. \A s \in Flow(pc) \cap Address :
            (FallsThrough(pc) /\ s = Ends(pc)) \/ s \in P
      BY <1>2
    <2>4. pc' = IF FallsThrough(pc) THEN Ends(pc) ELSE NoPc
      OBVIOUS
    <2> HIDE DEF W, P, Visit, MInv
    <2> QED BY <1>5, <1>6, <2>1, <2>2, <2>3, <2>4
  <1>9. Known \subseteq Known'
    BY <1>8 DEF Known
  <1>10. Sound'
    <2> SUFFICES ASSUME NEW C \in SUBSET Address, Closed(C)
                 PROVE  starts' \cup undefined' \cup (Pending' \cap Address)
                          \subseteq C
      BY <1>1, SameImage DEF Sound
    <2>1. starts \cup undefined \cup (Pending \cap Address) \subseteq C
      BY DEF Sound
    <2>2. pc \in C
      BY <1>1, <2>1 DEF Pending
    <2>3. Flow(pc) \cap Address \subseteq C
      BY <1>1, <2>2 DEF Closed
    <2> QED BY <1>8, <2>1, <2>2, <2>3
  <1>11. Covered'
    <2>1. reset' \in Known'
      BY <1>1, <1>9 DEF Covered
    <2>2. ASSUME NEW a \in starts' PROVE Flow(a) \cap Address \subseteq Known'
      <3>1. CASE a \in starts
        BY <1>9, <3>1 DEF Covered
      <3>2. CASE a = pc
        BY <1>8, <3>2 DEF Known
      <3> QED BY <3>1, <3>2
    <2> QED BY <1>1, <2>1, <2>2, SameImage DEF Covered
  <1>12. Sorted'
    BY <1>1, SameImage DEF Sorted
  <1>13. Judged' /\ InStarts'
    BY <1>1 DEF Judged, InStarts
  <1> QED BY <1>7, <1>10, <1>11, <1>12, <1>13

LEMMA JudgeInv == MInv /\ Judge => MInv'
  <1> SUFFICES ASSUME MInv, Judge PROVE MInv'
    OBVIOUS
  <1>1. PICK data \in SUBSET Address :
          decl' = data /\ result' = IF Problem(data) THEN "fail" ELSE "pass"
    BY DEF Judge, Declarations
  <1>2. UNCHANGED <<image, walk>> /\ Sound' /\ Covered' /\ Sorted'
    BY SameWalk DEF Judge
  <1>3. UNCHANGED <<cpu, stack>> /\ work = <<>> /\ pc = NoPc /\ result = "walking"
    BY DEF Judge
  <1>4. UNCHANGED image /\ work' = work /\ pc' = pc /\ starts' = starts
          /\ undefined' = undefined /\ reset' = reset
    BY <1>2 DEF walk, image
  <1>5. MapTypeOK'
    BY <1>1, <1>3, <1>4 DEF MInv, MapTypeOK, image
  <1>6. \A d : Problem(d)' <=> Problem(d)
    BY <1>4, SameImage DEF Problem, reached
  <1>7. Judged'
    BY <1>1, <1>3, <1>4, <1>6 DEF Judged
  <1>8. InStarts'
    <2>1. SUFFICES ASSUME result' = "pass" PROVE reset \in Address => reset \in starts
      BY <1>3, <1>4 DEF MInv, InStarts
    <2>2. undefined = {}
      BY <1>1, <2>1 DEF Problem
    <2>3. Pending = {NoPc}
      BY <1>3 DEF Pending
    <2>4. NoPc \notin Address
      BY CodeMapAssumption DEF Address
    <2> QED BY <2>2, <2>3, <2>4 DEF MInv, Covered, Known
  <1> QED BY <1>2, <1>5, <1>7, <1>8 DEF MInv

\* After a pass everything the program goes on to is an instruction.
LEMMA PassedFlow ==
  ASSUME MInv, result = "pass", NEW a \in starts
  PROVE  a \in Address /\ Whole(a) /\ Flow(a) \cap Address \subseteq starts
  <1>1. work = <<>> /\ pc = NoPc /\ undefined = {}
    BY DEF MInv, Judged, Problem
  <1>2. Pending = {NoPc} /\ NoPc \notin Address
    BY <1>1, CodeMapAssumption DEF Pending, Address
  <1> QED BY <1>1, <1>2 DEF MInv, MapTypeOK, Sorted, Covered, Known

LEMMA RunInv == MInv /\ Run => MInv'
  <1> SUFFICES ASSUME MInv, Run PROVE MInv'
    OBVIOUS
  <1>1. UNCHANGED <<image, walk, decl, result>> /\ result = "pass" /\ cpu \in Address
    BY DEF Run
  <1>2. Sound' /\ Covered' /\ Sorted'
    BY <1>1, SameWalk
  <1>3. UNCHANGED image /\ work' = work /\ pc' = pc /\ starts' = starts
          /\ undefined' = undefined /\ reset' = reset
    BY <1>1 DEF walk, image
  <1>4. cpu \in starts
    BY <1>1 DEF MInv, InStarts
  <1>5. Whole(cpu) /\ Flow(cpu) \cap Address \subseteq starts
    BY <1>1, <1>4, PassedFlow
  <1>6. Flow(cpu) \subseteq Int
    BY <1>1, <1>5, FlowFacts DEF MInv
  <1>7. Op(cpu) = "jsr" => Target(cpu) \in Flow(cpu) /\ Ends(cpu) \in Flow(cpu)
    BY DEF Flow, FallsThrough
  <1>8. cpu' \in Flow(cpu) \cup stack /\ stack' \subseteq stack \cup Flow(cpu)
    <2>1. CASE Op(cpu) = "jsr"
      BY <1>7, <2>1 DEF Run
    <2>2. CASE Op(cpu) = "ret"
      BY <2>2 DEF Run
    <2>3. CASE Op(cpu) # "jsr" /\ Op(cpu) # "ret"
      BY <2>3 DEF Run
    <2> QED BY <2>1, <2>2, <2>3
  <1>9. MapTypeOK'
    BY <1>1, <1>3, <1>6, <1>8 DEF MInv, MapTypeOK, image
  <1>10. \A d : Problem(d)' <=> Problem(d)
    BY <1>3, SameImage DEF Problem, reached
  <1>11. Judged'
    BY <1>1, <1>3, <1>10 DEF MInv, Judged
  <1>12. InStarts'
    BY <1>1, <1>3, <1>5, <1>8 DEF MInv, InStarts
  <1> QED BY <1>2, <1>9, <1>11, <1>12 DEF MInv

LEMMA StutterInv == MInv /\ UNCHANGED mapVars => MInv'
  <1> SUFFICES ASSUME MInv, UNCHANGED mapVars PROVE MInv'
    OBVIOUS
  <1>1. UNCHANGED <<image, walk>> /\ UNCHANGED <<decl, result, cpu, stack>>
    BY DEF mapVars
  <1>2. UNCHANGED image /\ work' = work /\ pc' = pc /\ starts' = starts
          /\ undefined' = undefined /\ reset' = reset
    BY <1>1 DEF walk, image
  <1>3. Sound' /\ Covered' /\ Sorted'
    BY <1>1, SameWalk
  <1>4. \A d : Problem(d)' <=> Problem(d)
    BY <1>2, SameImage DEF Problem, reached
  <1>5. MapTypeOK' /\ Judged' /\ InStarts'
    BY <1>1, <1>2, <1>4 DEF MInv, MapTypeOK, Judged, InStarts, image
  <1> QED BY <1>3, <1>5 DEF MInv

-----------------------------------------------------------------------------
LEMMA MapInvariant == MapSpec => []MInv
  <1>1. MInv /\ [MapNext]_mapVars => MInv'
    BY PopInv, LeaveInv, UndefinedInv, CrashInv, VisitInv, JudgeInv, RunInv,
       StutterInv DEF MapNext, Walk
  <1> QED BY <1>1, MapInitInv, PTL DEF MapSpec

\* Once the list is empty, what has been found is the least closed set.
LEMMA FoundIsReach ==
  ASSUME MInv, work = <<>>, pc = NoPc
  PROVE  starts \cup undefined = Reach
  <1>1. Pending \cap Address = {}
    BY CodeMapAssumption DEF Pending, Address
  <1>2. starts \cup undefined \in SUBSET Address
    BY DEF MInv, MapTypeOK
  <1>3. Closed(starts \cup undefined)
    <2>1. reset \in starts \cup undefined
      BY <1>1 DEF MInv, MapTypeOK, Covered, Known
    <2>2. ASSUME NEW a \in starts \cup undefined, Whole(a)
          PROVE  Flow(a) \cap Address \subseteq starts \cup undefined
      <3>1. a \in starts
        BY <2>2 DEF MInv, Sorted, Whole
      <3> QED BY <1>1, <3>1 DEF MInv, Covered, Known
    <2> QED BY <2>1, <2>2 DEF Closed
  <1>4. Reach \subseteq starts \cup undefined
    BY <1>2, <1>3 DEF Reach
  <1>5. starts \cup undefined \subseteq Reach
    BY <1>2 DEF MInv, Sound, Reach
  <1> QED BY <1>4, <1>5

\* The verdict of the gate on an image is the right one, whatever the image
\* and the declaration: checkmap's list and its "been there" test find the
\* least set of instructions closed under everything they may go on to.
THEOREM DescentIsExact == MapSpec => []DescentExact
  <1>1. MInv => DescentExact
    <2> SUFFICES ASSUME MInv, result \in {"pass", "fail"}
                 PROVE  ~Problem(decl) <=> RightSplit(decl)
      BY DEF DescentExact, MInv, Judged
    <2>1. starts \cup undefined = Reach
      BY FoundIsReach DEF MInv, Judged
    <2>2. /\ \A a \in starts : Whole(a)
          /\ \A a \in undefined : ~Whole(a)
      BY DEF MInv, Sorted, Whole
    <2>3. decl \subseteq Address
      BY DEF MInv, MapTypeOK
    <2>4. CASE undefined # {}
      BY <2>1, <2>2, <2>4 DEF Problem, RightSplit
    <2>5. CASE undefined = {}
      <3>1. Reach = starts
        BY <2>1, <2>5
      <3>2. (\A a \in Reach : Whole(a) /\ Op(a) \notin {"jmpind", "brk"})
              <=> ~ \E a \in starts : Op(a) \in {"jmpind", "brk"}
        BY <2>2, <3>1
      <3>3. Address \cap UNION {a .. Ends(a) - 1 : a \in Reach}
              = Address \cap reached
        BY <3>1 DEF reached
      <3>4. Address \ decl = Address \cap reached
              <=> (Address \ decl) \ reached = {} /\ decl \cap reached = {}
        BY <2>3
      <3> QED BY <2>5, <3>2, <3>3, <3>4 DEF Problem, RightSplit
    <2> QED BY <2>4, <2>5
  <1> QED BY <1>1, MapInvariant, PTL

\* A console that runs an image checkmap has passed never takes a byte that
\* was declared data for an instruction, nor for the operand of one.
THEOREM DataIsNeverRun == MapSpec => []NeverRunsData
  <1>1. MInv => NeverRunsData
    <2> SUFFICES ASSUME MInv, result = "pass", cpu \in Address
                 PROVE  (cpu .. Ends(cpu) - 1) \cap decl = {}
      BY DEF NeverRunsData
    <2>1. cpu \in starts
      BY DEF MInv, InStarts
    <2>2. decl \cap reached = {}
      BY DEF MInv, Judged, Problem
    <2>3. cpu .. Ends(cpu) - 1 \subseteq reached
      BY <2>1 DEF reached
    <2> QED BY <2>2, <2>3
  <1> QED BY <1>1, MapInvariant, PTL

-----------------------------------------------------------------------------
(* The clear *)

ZpTypeOK ==
  /\ cell \in [NETCODE -> Page \cup {Missing}]
  /\ TNZPLO \in Page /\ loop \in CPX
  /\ X \in Page \cup {Idle} /\ wiped \subseteq Page

\* The gate has found the loop's own compare.
LoopFound == \A q \in other : q.value = TNZPLO => ~q.symbol

\* What a pass says of the listing, and what the loop makes of it.
ZInv ==
  /\ ZpTypeOK
  /\ gate # "pass" => X = Idle /\ wiped = {}
  /\ gate = "pass" =>
       /\ \A n \in NETCODE : cell[n] # Missing /\ cell[n] >= TNZPLO
       /\ \A v \in SEEDS : v < TNZPLO
       /\ Bounded
       /\ LoopFound => /\ X # Idle => X < TNZPLO
                       /\ \A w \in wiped : w < TNZPLO

LEMMA ZpInitInv == ZpInit => ZInv
  BY DEF ZpInit, ZInv, ZpTypeOK

\* The loop is the one that ends on the bound.
LEMMA LoopBound ==
  ASSUME ZInv, gate = "pass", LoopFound
  PROVE  loop.value = TNZPLO
  BY DEF ZInv, Bounded, LoopFound

LEMMA GateInv == ZInv /\ Gate => ZInv'
  <1> SUFFICES ASSUME ZInv, Gate PROVE ZInv'
    OBVIOUS
  <1>1. UNCHANGED <<cell, TNZPLO, TNSTKLO, loop, other, X, wiped>>
    BY DEF Gate, listing
  <1>2. X = Idle /\ wiped = {}
    BY DEF ZInv, Gate
  <1>3. gate' = "pass" =>
          /\ \A n \in NETCODE : cell[n] # Missing /\ cell[n] >= TNZPLO
          /\ \A v \in SEEDS : v < TNZPLO
          /\ Bounded
    BY DEF Gate
  <1> QED BY <1>1, <1>2, <1>3 DEF ZInv, ZpTypeOK, Bounded, LoopFound

LEMMA EnterInv == ZInv /\ Enter => ZInv'
  <1> SUFFICES ASSUME ZInv, Enter PROVE ZInv'
    OBVIOUS
  <1>1. UNCHANGED <<cell, TNZPLO, TNSTKLO, loop, other, gate>> /\ wiped' = {}
          /\ gate = "pass"
    BY DEF Enter, listing
  <1>2. X' \in SEEDS \cup {0}
    BY DEF Enter
  <1>3. 0 < TNZPLO /\ \A v \in SEEDS : v < TNZPLO
    <2>1. PICK v \in SEEDS : v < TNZPLO
      BY <1>1, ZpAssumption DEF ZInv
    <2> QED BY <1>1, <2>1, ZpAssumption DEF ZInv, ZpTypeOK, Page
  <1>4. X' \in Page /\ X' < TNZPLO
    BY <1>2, <1>3, ZpAssumption DEF Page
  <1> QED BY <1>1, <1>4 DEF ZInv, ZpTypeOK, Bounded, LoopFound

LEMMA ClearInv == ZInv /\ Clear => ZInv'
  <1> SUFFICES ASSUME ZInv, Clear PROVE ZInv'
    OBVIOUS
  <1>1. UNCHANGED <<cell, TNZPLO, TNSTKLO, loop, other, gate>>
          /\ wiped' = wiped \cup {X} /\ X # Idle /\ gate = "pass"
    BY DEF Clear, listing, ZInv
  <1>2. X \in Page /\ X' \in Page \cup {Idle}
    <2>1. X \in Page
      BY <1>1 DEF ZInv, ZpTypeOK
    <2>2. (X + 1) % PageSize \in Page
      BY <2>1, ZpAssumption DEF Page
    <2> QED BY <2>1, <2>2 DEF Clear
  <1>3. LoopFound => X < TNZPLO /\ (X' # Idle => X' < TNZPLO)
    <2> SUFFICES ASSUME LoopFound
                 PROVE  X < TNZPLO /\ (X' # Idle => X' < TNZPLO)
      OBVIOUS
    <2>1. X < TNZPLO /\ loop.value = TNZPLO
      BY <1>1, LoopBound DEF ZInv
    <2>2. (X + 1) % PageSize = X + 1
      BY <1>2, <2>1, ZpAssumption DEF Page, ZInv, ZpTypeOK
    <2>3. X' # Idle => X' = X + 1 /\ X + 1 # TNZPLO
      BY <2>1, <2>2 DEF Clear
    <2> QED BY <1>2, <2>1, <2>3 DEF Page, ZInv, ZpTypeOK
  <1> QED BY <1>1, <1>2, <1>3 DEF ZInv, ZpTypeOK, Bounded, LoopFound

LEMMA ColdInv == ZInv /\ Cold => ZInv'
  BY DEF ZInv, Cold, ZpTypeOK, Bounded, LoopFound, listing

\* TNCLR stays below the netcode's cells by each of its entries, whatever the
\* listing, if the compare that check_zp has found is the loop's.
THEOREM ClearIsBounded == ZpSpec => []ClearKeepsOut
  <1>1. ZInv /\ [ZpNext]_zpVars => ZInv'
    <2> SUFFICES ASSUME ZInv, [ZpNext]_zpVars PROVE ZInv'
      OBVIOUS
    <2>1. CASE UNCHANGED zpVars
      BY <2>1 DEF ZInv, ZpTypeOK, Bounded, LoopFound, zpVars
    <2> QED BY <2>1, GateInv, EnterInv, ClearInv, ColdInv DEF ZpNext
  <1>2. ZInv => ClearKeepsOut
    <2> SUFFICES ASSUME ZInv, gate = "pass", LoopFound
                 PROVE  /\ \A n \in NETCODE : cell[n] \notin wiped
                        /\ X # Idle => X < TNZPLO
      BY DEF ClearKeepsOut, LoopFound
    <2>1. ASSUME NEW n \in NETCODE, cell[n] \in wiped PROVE FALSE
      <3>1. cell[n] \in Page /\ cell[n] >= TNZPLO /\ cell[n] < TNZPLO
        BY <2>1 DEF ZInv, ZpTypeOK
      <3> QED BY <3>1 DEF Page, ZInv, ZpTypeOK
    <2> QED BY <2>1 DEF ZInv
  <1> QED BY <1>1, <1>2, ZpInitInv, PTL DEF ZpSpec

-----------------------------------------------------------------------------
(* Does it fit *)


\* The variables of the readers have the types their steps give them.
ListTypeOK ==
  /\ rows \in Seq([org : BOOLEAN, at : Nat, n : Nat])
  /\ here \in Nat /\ tool \in {"asl", "checkbanks", "mktail"}
  /\ cursor \in 1 .. Len(rows) + 1
  /\ end \in Nat /\ deliberate \in BOOLEAN
  /\ fit \in {"unknown", "over", "fits"}

\* An ORG goes no further than the limit and emits nothing; any other row
\* starts where the one before it stopped.
Contiguous ==
  /\ here = IF rows = <<>> THEN 0 ELSE Stop(rows[Len(rows)])
  /\ \A i \in 1 .. Len(rows) :
       IF rows[i].org THEN rows[i].n = 0 /\ rows[i].at <= LIMIT
       ELSE rows[i].at = IF i = 1 THEN 0 ELSE Stop(rows[i - 1])

\* What an ORG has put at the limit is there or beyond.
PurposeIsAbove == \A i \in 1 .. Len(rows) : OnPurpose(i) => rows[i].at >= LIMIT

\* Code does not get beyond the limit but through it.
Crosses(i) == rows[i].at < LIMIT /\ Stop(rows[i]) > LIMIT
BeyondIsCrossed ==
  \A i \in code : rows[i].at > LIMIT =>
    \E j \in code : rows[j].at = LIMIT \/ Crosses(j)

\* What a reader knows of the rows it has passed.
Unread ==
  tool = "asl" => cursor = 1 /\ over = {} /\ end = 0 /\ ~deliberate
BankRead ==
  tool = "checkbanks" =>
    /\ deliberate <=> OnPurpose(cursor - 1)
    /\ over # {} <=> \E i \in code : i < cursor /\ Stop(rows[i]) > LIMIT
TailRead ==
  tool = "mktail" =>
    /\ over = {}
    /\ end > LIMIT <=> \E i \in 1 .. cursor - 1 : ~rows[i].org /\ Crosses(i)
Judgement ==
  fit # "unknown" =>
    /\ cursor = Len(rows) + 1 /\ tool # "asl"
    /\ fit = IF over # {} \/ (tool = "mktail" /\ end > LIMIT)
             THEN "over" ELSE "fits"

ListInv == /\ ListTypeOK /\ Contiguous /\ PurposeIsAbove /\ BeyondIsCrossed
        /\ Unread /\ BankRead /\ TailRead /\ Judgement

LEMMA MaxOfTwo ==
  ASSUME NEW x \in Nat, NEW y \in Nat
  PROVE  Max({x, y}) = IF x >= y THEN x ELSE y
  BY DEF Max

\* A row is there on purpose if it is an ORG to the limit, or follows one that is.
PurposeIn(rs, i) == \E k \in 1 .. i : /\ rs[k].org /\ rs[k].at >= LIMIT
                                      /\ \A j \in k + 1 .. i : ~rs[j].org

LEMMA PurposeStep ==
  ASSUME NEW rs \in Seq([org : BOOLEAN, at : Nat, n : Nat]),
         NEW i \in 1 .. Len(rs)
  PROVE  PurposeIn(rs, i) <=>
           IF rs[i].org THEN rs[i].at >= LIMIT ELSE PurposeIn(rs, i - 1)
  <1>1. CASE rs[i].org
    <2>1. ASSUME PurposeIn(rs, i) PROVE rs[i].at >= LIMIT
      <3>1. PICK k \in 1 .. i : /\ rs[k].org /\ rs[k].at >= LIMIT
                                /\ \A j \in k + 1 .. i : ~rs[j].org
        BY <2>1 DEF PurposeIn
      <3>2. i \in Int /\ k \in Int /\ k <= i
        OBVIOUS
      <3>3. ~(i \in k + 1 .. i)
        BY <1>1, <3>1
      <3>4. k = i
        BY <3>2, <3>3
      <3> QED BY <3>1, <3>4
    <2>2. ASSUME rs[i].at >= LIMIT PROVE PurposeIn(rs, i)
      BY <1>1, <2>2 DEF PurposeIn
    <2> QED BY <1>1, <2>1, <2>2
  <1>2. CASE ~rs[i].org
    <2>1. ASSUME PurposeIn(rs, i) PROVE PurposeIn(rs, i - 1)
      <3>1. PICK k \in 1 .. i : /\ rs[k].org /\ rs[k].at >= LIMIT
                                /\ \A j \in k + 1 .. i : ~rs[j].org
        BY <2>1 DEF PurposeIn
      <3>2. k # i
        BY <1>2, <3>1
      <3>3. k \in 1 .. i - 1 /\ \A j \in k + 1 .. i - 1 : j \in k + 1 .. i
        BY <3>2
      <3> QED BY <3>1, <3>3 DEF PurposeIn
    <2>2. ASSUME PurposeIn(rs, i - 1) PROVE PurposeIn(rs, i)
      <3>1. PICK k \in 1 .. i - 1 : /\ rs[k].org /\ rs[k].at >= LIMIT
                                    /\ \A j \in k + 1 .. i - 1 : ~rs[j].org
        BY <2>2 DEF PurposeIn
      <3>2. \A j \in k + 1 .. i : ~rs[j].org
        <4> TAKE j \in k + 1 .. i
        <4>1. j = i \/ j \in k + 1 .. i - 1
          OBVIOUS
        <4> QED BY <4>1, <3>1, <1>2
      <3> QED BY <3>1, <3>2 DEF PurposeIn
    <2> QED BY <1>2, <2>1, <2>2
  <1> QED BY <1>1, <1>2

\* A row more changes nothing about the rows that are there.
LEMMA PurposeStays ==
  ASSUME rows \in Seq([org : BOOLEAN, at : Nat, n : Nat]),
         NEW r \in [org : BOOLEAN, at : Nat, n : Nat], rows' = Append(rows, r),
         NEW i \in 0 .. Len(rows)
  PROVE  OnPurpose(i)' <=> OnPurpose(i)
  <1>1. \A j \in 1 .. i : rows'[j] = rows[j]
    OBVIOUS
  <1>2. \A k \in 1 .. i : \A j \in k + 1 .. i : j \in 1 .. i
    OBVIOUS
  <1>3. \A k \in 1 .. i :
          (\A j \in k + 1 .. i : ~rows'[j].org) <=>
            \A j \in k + 1 .. i : ~rows[j].org
    BY <1>1, <1>2
  <1> QED BY <1>1, <1>3 DEF OnPurpose

LEMMA ListInitInv == ListInit => ListInv
  <1> SUFFICES ASSUME ListInit PROVE ListInv
    OBVIOUS
  <1> USE DEF ListInit
  <1>1. rows \in Seq([org : BOOLEAN, at : Nat, n : Nat]) /\ Len(rows) = 0
    OBVIOUS
  <1>2. ListTypeOK
    <2>1. cursor \in 1 .. Len(rows) + 1
      BY <1>1
    <2> QED BY <1>1, <2>1 DEF ListTypeOK
  <1>3. Contiguous /\ PurposeIsAbove /\ BeyondIsCrossed
    BY <1>1 DEF Contiguous, PurposeIsAbove, BeyondIsCrossed, code
  <1> QED BY <1>2, <1>3 DEF ListInv, Unread, BankRead, TailRead, Judgement

\* A row that is written: an ORG no further than the limit, or one that starts
\* where the last one stopped.
LEMMA WriteInv ==
  ASSUME ListInv, tool = "asl",
         NEW r \in [org : BOOLEAN, at : Nat, n : Nat],
         IF r.org THEN r.n = 0 /\ r.at <= LIMIT ELSE r.at = here,
         rows' = Append(rows, r), here' = Stop(r),
         UNCHANGED <<tool, cursor, end, over, deliberate, fit>>
  PROVE  ListInv'
  <1> USE DEF ListInv
  <1>0. PICK n \in Nat : n = Len(rows)
    BY DEF ListTypeOK
  <1>1. /\ rows \in Seq([org : BOOLEAN, at : Nat, n : Nat])
        /\ rows' \in Seq([org : BOOLEAN, at : Nat, n : Nat])
        /\ n \in Nat /\ Len(rows') = n + 1
        /\ \A i \in 1 .. n : rows'[i] = rows[i]
        /\ rows'[n + 1] = r
    BY <1>0 DEF ListTypeOK
  <1>2. r.at \in Nat /\ r.n \in Nat /\ r.org \in BOOLEAN /\ Stop(r) \in Nat
    BY DEF Stop
  <1>3. ListTypeOK'
    <2>1. cursor' \in 1 .. Len(rows') + 1
      BY <1>1 DEF ListTypeOK
    <2> QED BY <1>1, <1>2, <2>1 DEF ListTypeOK
  <1>4. Contiguous'
    <2>1. \A i \in 1 .. n + 1 :
            IF rows'[i].org THEN rows'[i].n = 0 /\ rows'[i].at <= LIMIT
            ELSE rows'[i].at = IF i = 1 THEN 0 ELSE Stop(rows'[i - 1])
      <3> TAKE i \in 1 .. n + 1
      <3>1. CASE i \in 1 .. n
        <4>1. i # 1 => i - 1 \in 1 .. n
          BY <1>1, <3>1
        <4>2. i # 1 => rows'[i - 1] = rows[i - 1]
          BY <1>1, <4>1
        <4>3. IF rows[i].org THEN rows[i].n = 0 /\ rows[i].at <= LIMIT
              ELSE rows[i].at = IF i = 1 THEN 0 ELSE Stop(rows[i - 1])
          BY <1>0, <3>1 DEF Contiguous
        <4>4. rows'[i] = rows[i]
          BY <1>1, <3>1
        <4> QED BY <4>2, <4>3, <4>4
      <3>2. CASE i = n + 1
        <4>1. n # 0 => rows # <<>> /\ i # 1 /\ rows'[i - 1] = rows[n]
          BY <1>1, <3>2
        <4>2. n = 0 => rows = <<>> /\ i = 1
          BY <1>1, <3>2
        <4> QED BY <1>1, <3>2, <4>1, <4>2 DEF Contiguous, Stop
      <3> QED BY <1>1, <3>1, <3>2
    <2>2. rows' # <<>> /\ rows'[Len(rows')] = r
      BY <1>1
    <2>3. (Stop(rows[Len(rows)]))' = Stop(r)
      BY <2>2 DEF Stop
    <2> QED BY <1>1, <2>1, <2>2, <2>3 DEF Contiguous, Stop
  <1>5. \A i \in 0 .. n : OnPurpose(i)' <=> OnPurpose(i)
    BY <1>1, PurposeStays
  <1>6. OnPurpose(n + 1)' <=> IF r.org THEN r.at >= LIMIT ELSE OnPurpose(n)
    <2>1. PICK m \in 1 .. Len(rows') : m = n + 1 /\ m - 1 = n /\ n \in 0 .. n
      BY <1>1
    <2>2. PurposeIn(rows', m) <=>
            IF rows'[m].org THEN rows'[m].at >= LIMIT
            ELSE PurposeIn(rows', m - 1)
      BY <1>1, PurposeStep
    <2>3. OnPurpose(n)' <=> OnPurpose(n)
      BY <1>5, <2>1
    <2>4. \A i : OnPurpose(i)' <=> PurposeIn(rows', i)
      BY DEF OnPurpose, PurposeIn
    <2>5. PurposeIn(rows', m) <=> OnPurpose(n + 1)'
      BY <2>1, <2>4
    <2>6. PurposeIn(rows', m - 1) <=> OnPurpose(n)
      BY <2>1, <2>3, <2>4
    <2>7. rows'[m] = r
      BY <1>1, <2>1
    <2> QED BY <2>2, <2>5, <2>6, <2>7
  <1>7. ASSUME ~r.org, n # 0
        PROVE  r.at = Stop(rows[n]) /\ rows[n] \in [org : BOOLEAN, at : Nat, n : Nat]
    <2>1. rows # <<>>
      BY <1>0, <1>7
    <2>2. r.at = here /\ here = Stop(rows[n])
      BY <1>0, <1>7, <2>1 DEF Contiguous
    <2>3. rows[n] \in [org : BOOLEAN, at : Nat, n : Nat]
      <3>1. n \in 1 .. Len(rows)
        BY <1>0, <1>7
      <3>2. rows \in Seq([org : BOOLEAN, at : Nat, n : Nat])
        BY <1>1
      <3> HIDE DEF ListInv
      <3> QED BY <3>1, <3>2, ElementOfSeq
    <2> QED BY <2>2, <2>3
  <1>8. PurposeIsAbove'
    <2>1. ASSUME ~r.org, OnPurpose(n) PROVE r.at >= LIMIT
      <3>1. n # 0
        BY <1>1, <2>1 DEF OnPurpose
      <3>2. rows[n].at >= LIMIT
        BY <1>1, <2>1, <3>1 DEF PurposeIsAbove
      <3> QED BY <1>7, <2>1, <3>1, <3>2, ListingAssumption DEF Stop
    <2>2. ASSUME NEW i \in 1 .. n + 1, OnPurpose(i)' PROVE rows'[i].at >= LIMIT
      <3>1. CASE i = n + 1
        <4>1. OnPurpose(n + 1)'
          BY <2>2, <3>1
        <4>2. IF r.org THEN r.at >= LIMIT ELSE OnPurpose(n)
          BY <1>6, <4>1
        <4> QED BY <1>1, <2>1, <3>1, <4>2
      <3>2. CASE i \in 1 .. n
        <4>1. OnPurpose(i)
          BY <1>1, <1>5, <2>2, <3>2
        <4> QED BY <1>1, <3>2, <4>1 DEF PurposeIsAbove
      <3> QED BY <1>1, <3>1, <3>2
    <2> QED BY <1>1, <2>2 DEF PurposeIsAbove
  <1>9. /\ \A i \in 1 .. n : i \in code' <=> i \in code
        /\ n + 1 \in code' <=> ~r.org /\ ~OnPurpose(n)
        /\ code' \subseteq 1 .. n + 1 /\ code \subseteq 1 .. n
    <2>1. \A i \in 1 .. n : OnPurpose(i)' <=> OnPurpose(i)
      BY <1>1, <1>5
    <2>2. n + 1 \in DOMAIN rows' /\ DOMAIN rows' = 1 .. n + 1
          /\ DOMAIN rows = 1 .. n
      BY <1>1
    <2>3. \A i \in 1 .. n : i \in code' <=> i \in code
      BY <1>1, <2>1, <2>2 DEF code
    <2>4. n + 1 \in code' <=> ~r.org /\ ~OnPurpose(n)
      <3>1. n + 1 \in code' <=> ~rows'[n + 1].org /\ ~OnPurpose(n + 1)'
        BY <2>2 DEF code
      <3> QED BY <1>1, <1>6, <3>1
    <2> QED BY <2>2, <2>3, <2>4 DEF code
  <1>10. BeyondIsCrossed'
    <2>1. \A i \in code : rows'[i] = rows[i]
      BY <1>1, <1>9
    <2>2. \A i \in code : i \in code' /\ (Crosses(i)' <=> Crosses(i))
      BY <1>9, <2>1 DEF Crosses, Stop
    <2>3. ASSUME NEW i \in code', rows'[i].at > LIMIT
          PROVE  \E j \in code' : rows'[j].at = LIMIT \/ Crosses(j)'
      <3>1. CASE i \in 1 .. n
        BY <1>9, <2>1, <2>2, <2>3, <3>1 DEF BeyondIsCrossed
      <3>2. CASE i = n + 1
        <4>1. ~r.org /\ ~OnPurpose(n) /\ r.at > LIMIT
          BY <1>1, <1>9, <2>3, <3>2
        <4>2. n # 0
          BY <1>1, <4>1, ListingAssumption DEF Contiguous
        <4>3. r.at = rows[n].at + rows[n].n /\ rows[n].at \in Nat
              /\ rows[n].n \in Nat
          BY <1>7, <4>1, <4>2 DEF Stop
        <4>4. ~rows[n].org
          BY <1>1, <4>1, <4>2, <4>3, ListingAssumption DEF Contiguous
        <4>5. n \in code
          BY <1>1, <4>1, <4>2, <4>4 DEF code
        <4>6. CASE rows[n].at > LIMIT
          BY <2>1, <2>2, <4>5, <4>6 DEF BeyondIsCrossed
        <4>7. CASE rows[n].at = LIMIT
          BY <2>1, <2>2, <4>5, <4>7
        <4>8. CASE rows[n].at < LIMIT
          <5>1. Crosses(n)
            BY <4>1, <4>3, <4>8 DEF Crosses, Stop
          <5> QED BY <2>2, <4>5, <5>1
        <4>9. rows[n].at \in Nat /\ LIMIT \in Nat
          BY <4>3, ListingAssumption
        <4>10. rows[n].at < LIMIT \/ rows[n].at = LIMIT \/ rows[n].at > LIMIT
          BY <4>9
        <4> QED BY <4>6, <4>7, <4>8, <4>10
      <3>3. i \in 1 .. n \/ i = n + 1
        BY <1>0, <1>9, <2>3
      <3> QED BY <3>1, <3>2, <3>3
    <2> QED BY <2>3 DEF BeyondIsCrossed
  <1>11. Unread' /\ BankRead' /\ TailRead' /\ Judgement'
    BY DEF Unread, BankRead, TailRead, Judgement
  <1> QED BY <1>3, <1>4, <1>8, <1>10, <1>11

LEMMA AssembleInv ==
  ListInv /\ (\E n \in 1 .. 3 : Assemble(n)) => ListInv'
  <1> SUFFICES ASSUME ListInv, NEW n \in 1 .. 3, Assemble(n) PROVE ListInv'
    OBVIOUS
  <1>1. here \in Nat
    BY DEF ListInv, ListTypeOK
  <1> DEFINE r == Row(FALSE, here, n)
  <1>2. r \in [org : BOOLEAN, at : Nat, n : Nat]
    BY <1>1 DEF Row
  <1>3. r.org = FALSE /\ r.at = here /\ Stop(r) = here + n
    BY DEF Row, Stop
  <1> HIDE DEF r
  <1> QED BY <1>2, <1>3, WriteInv DEF Assemble, r

LEMMA OrgInv == ListInv /\ (\E at \in 0 .. LIMIT : Org(at)) => ListInv'
  <1> SUFFICES ASSUME ListInv, NEW at \in 0 .. LIMIT, Org(at) PROVE ListInv'
    OBVIOUS
  <1>1. at \in Nat /\ at <= LIMIT
    BY ListingAssumption
  <1> DEFINE r == Row(TRUE, at, 0)
  <1>2. r \in [org : BOOLEAN, at : Nat, n : Nat]
    BY <1>1 DEF Row
  <1>3. r.org = TRUE /\ r.at = at /\ r.n = 0 /\ Stop(r) = at
    BY <1>1 DEF Row, Stop
  <1> HIDE DEF r
  <1> QED BY <1>1, <1>2, <1>3, WriteInv DEF Org, r

LEMMA OpenInv ==
  ListInv /\ (\E reader \in {"checkbanks", "mktail"} : Open(reader)) => ListInv'
  <1> SUFFICES ASSUME ListInv, NEW reader \in {"checkbanks", "mktail"}, Open(reader)
               PROVE  ListInv'
    OBVIOUS
  <1> USE DEF ListInv, Open
  <1>1. UNCHANGED <<rows, here, cursor, end, over, deliberate, fit>>
        /\ tool' = reader /\ tool = "asl"
    OBVIOUS
  <1>2. code' = code /\ (\A i : OnPurpose(i)' <=> OnPurpose(i))
    BY <1>1 DEF code, OnPurpose
  <1>3. ListTypeOK'
    BY <1>1 DEF ListTypeOK
  <1>4. Contiguous' /\ PurposeIsAbove' /\ BeyondIsCrossed'
    BY <1>1, <1>2
       DEF Contiguous, PurposeIsAbove, BeyondIsCrossed, Crosses, Stop
  <1>5. cursor = 1 /\ over = {} /\ end = 0 /\ ~deliberate
    BY <1>1 DEF Unread
  <1>6. ~OnPurpose(cursor - 1)
    BY <1>5 DEF OnPurpose
  <1>7. code \subseteq Nat \ {0}
    BY DEF code, ListTypeOK
  <1>8. BankRead'
    <2>1. ~OnPurpose(cursor - 1)'
      <3>1. cursor' = 1
        BY <1>1, <1>5
      <3> QED BY <3>1 DEF OnPurpose
    <2>2. ~\E i \in code' : i < cursor' /\ Stop(rows'[i]) > LIMIT
      BY <1>1, <1>2, <1>5, <1>7
    <2> QED BY <1>1, <1>5, <2>1, <2>2 DEF BankRead
  <1>9. TailRead'
    BY <1>1, <1>5, ListingAssumption DEF TailRead
  <1>10. Unread' /\ Judgement'
    BY <1>1 DEF Unread, Judgement
  <1> QED BY <1>3, <1>4, <1>8, <1>9, <1>10

\* A step of a reader leaves what is said of the listing alone.
LEMMA SameRows ==
  ASSUME ListInv, UNCHANGED <<rows, here>>
  PROVE  /\ Contiguous' /\ PurposeIsAbove' /\ BeyondIsCrossed'
         /\ code' = code
         /\ \A i : (OnPurpose(i)' <=> OnPurpose(i)) /\ (Crosses(i)' <=> Crosses(i))
  <1>1. code' = code
        /\ \A i : (OnPurpose(i)' <=> OnPurpose(i)) /\ (Crosses(i)' <=> Crosses(i))
    BY DEF code, OnPurpose, Crosses, Stop
  <1> QED BY <1>1
          DEF ListInv, Contiguous, PurposeIsAbove, BeyondIsCrossed, Stop

\* The row at the cursor, and the rows before the cursor once it has passed.
LEMMA CursorRow ==
  ASSUME ListInv, cursor <= Len(rows), cursor' = cursor + 1
  PROVE  /\ cursor \in 1 .. Len(rows)
         /\ rows[cursor].at \in Nat /\ rows[cursor].n \in Nat
         /\ rows[cursor].org \in BOOLEAN /\ Stop(rows[cursor]) \in Nat
         /\ \A i \in Int : i < cursor' <=> i < cursor \/ i = cursor
         /\ cursor' - 1 = cursor
  <1>1. cursor \in 1 .. Len(rows)
        /\ rows \in Seq([org : BOOLEAN, at : Nat, n : Nat])
    BY DEF ListInv, ListTypeOK
  <1>2. rows[cursor] \in [org : BOOLEAN, at : Nat, n : Nat]
    BY <1>1, ElementOfSeq
  <1> QED BY <1>1, <1>2 DEF Stop

LEMMA BankRowInv == ListInv /\ BankRow => ListInv'
  <1> SUFFICES ASSUME ListInv, BankRow PROVE ListInv'
    OBVIOUS
  <1> DEFINE r == rows[cursor]
  <1> USE DEF ListInv
  <1>1. /\ tool = "checkbanks" /\ tool' = tool /\ cursor <= Len(rows)
        /\ cursor' = cursor + 1
        /\ UNCHANGED <<rows, here, fit>>
        /\ deliberate' = IF r.org THEN r.at >= LIMIT ELSE deliberate
        /\ IF r.org \/ deliberate THEN UNCHANGED <<end, over>>
           ELSE /\ end' = Max({end, Stop(r)})
                /\ over' = IF Stop(r) > LIMIT THEN over \cup {r} ELSE over
    BY DEF BankRow, Reading, Seen
  <1>2. /\ cursor \in 1 .. Len(rows)
        /\ r.at \in Nat /\ r.n \in Nat /\ r.org \in BOOLEAN /\ Stop(r) \in Nat
        /\ \A i \in Int : i < cursor' <=> i < cursor \/ i = cursor
        /\ cursor' - 1 = cursor
    BY <1>1, CursorRow
  <1> HIDE DEF r
  <1>3. end' \in Nat
    <2>1. end \in Nat
      BY DEF ListTypeOK
    <2> QED BY <1>1, <1>2, <2>1, MaxOfTwo
  <1>4. ListTypeOK'
    <2>1. cursor' \in 1 .. Len(rows') + 1
      BY <1>1, <1>2
    <2>2. deliberate' \in BOOLEAN
      <3>1. (r.at >= LIMIT) \in BOOLEAN
        BY <1>2, ListingAssumption
      <3> QED BY <1>1, <3>1 DEF ListTypeOK
    <2> QED BY <1>1, <1>3, <2>1, <2>2 DEF ListTypeOK
  <1>5. /\ Contiguous' /\ PurposeIsAbove' /\ BeyondIsCrossed' /\ code' = code
        /\ \A i : (OnPurpose(i)' <=> OnPurpose(i)) /\ (Crosses(i)' <=> Crosses(i))
    BY <1>1, SameRows
  <1>6. OnPurpose(cursor) <=> IF r.org THEN r.at >= LIMIT ELSE deliberate
    <2>1. PurposeIn(rows, cursor) <=>
            IF r.org THEN r.at >= LIMIT ELSE PurposeIn(rows, cursor - 1)
      BY <1>2, PurposeStep DEF r, ListTypeOK
    <2>2. \A i : PurposeIn(rows, i) <=> OnPurpose(i)
      BY DEF PurposeIn, OnPurpose
    <2>3. deliberate <=> OnPurpose(cursor - 1)
      BY <1>1 DEF BankRead
    <2> QED BY <2>1, <2>2, <2>3
  <1>7. cursor \in code <=> ~r.org /\ ~OnPurpose(cursor)
    BY <1>2 DEF code, r
  <1>8. over # {} <=> \E i \in code : i < cursor /\ Stop(rows[i]) > LIMIT
    BY <1>1 DEF BankRead
  <1>9. over' # {} <=> over # {} \/ (cursor \in code /\ Stop(r) > LIMIT)
    BY <1>1, <1>2, <1>6, <1>7
  <1>10. code \subseteq Int
    BY DEF code, ListTypeOK
  <1>11. over' # {} <=> \E i \in code : i < cursor' /\ Stop(rows[i]) > LIMIT
    BY <1>2, <1>8, <1>9, <1>10 DEF r
  <1>12. deliberate' <=> OnPurpose(cursor)
    BY <1>1, <1>6
  <1>13. BankRead'
    <2>1. \A i : Stop(rows'[i]) = Stop(rows[i])
      BY <1>1
    <2>2. deliberate' <=> OnPurpose(cursor - 1)'
      <3>1. PICK c : c = cursor
        OBVIOUS
      <3>2. cursor' - 1 = c
        BY <1>2, <3>1
      <3>3. OnPurpose(c)' <=> OnPurpose(c)
        BY <1>5
      <3>4. OnPurpose(c)' <=> OnPurpose(cursor - 1)'
        BY <3>2 DEF OnPurpose
      <3> QED BY <1>12, <3>1, <3>3, <3>4
    <2>3. over' # {} <=> \E i \in code' : i < cursor' /\ Stop(rows'[i]) > LIMIT
      BY <1>5, <1>11, <2>1
    <2> QED BY <2>2, <2>3 DEF BankRead
  <1>14. fit = "unknown"
    BY <1>1, <1>2 DEF Judgement, ListTypeOK
  <1> QED BY <1>1, <1>4, <1>5, <1>13, <1>14 DEF Unread, TailRead, Judgement

LEMMA TailRowInv == ListInv /\ TailRow => ListInv'
  <1> SUFFICES ASSUME ListInv, TailRow PROVE ListInv'
    OBVIOUS
  <1> DEFINE r == rows[cursor]
  <1> USE DEF ListInv
  <1>1. /\ tool = "mktail" /\ tool' = tool /\ cursor <= Len(rows)
        /\ cursor' = cursor + 1
        /\ UNCHANGED <<rows, here, over, deliberate, fit>>
        /\ end' = IF r.org \/ r.at >= LIMIT THEN end ELSE Max({end, Stop(r)})
    BY DEF TailRow, Reading, Seen
  <1>2. /\ cursor \in 1 .. Len(rows)
        /\ r.at \in Nat /\ r.n \in Nat /\ r.org \in BOOLEAN /\ Stop(r) \in Nat
        /\ \A i \in Int : i < cursor' <=> i < cursor \/ i = cursor
        /\ cursor' - 1 = cursor
    BY <1>1, CursorRow
  <1> HIDE DEF r
  <1>3. end \in Nat /\ LIMIT \in Nat
    BY ListingAssumption DEF ListTypeOK
  <1>4. end' = IF r.org \/ r.at >= LIMIT \/ end >= Stop(r) THEN end ELSE Stop(r)
    BY <1>1, <1>2, <1>3, MaxOfTwo
  <1>5. ListTypeOK'
    <2>1. cursor' \in 1 .. Len(rows') + 1
      BY <1>1, <1>2
    <2>2. end' \in Nat
      BY <1>2, <1>3, <1>4
    <2> QED BY <1>1, <2>1, <2>2 DEF ListTypeOK
  <1>6. /\ Contiguous' /\ PurposeIsAbove' /\ BeyondIsCrossed'
        /\ \A i : Crosses(i)' <=> Crosses(i)
    BY <1>1, SameRows
  <1>7. Crosses(cursor) <=> r.at < LIMIT /\ Stop(r) > LIMIT
    BY DEF Crosses, r
  <1>8. end' > LIMIT <=> end > LIMIT \/ (~r.org /\ Crosses(cursor))
    BY <1>2, <1>3, <1>4, <1>7
  <1>9. over = {}
        /\ (end > LIMIT <=> \E i \in 1 .. cursor - 1 : ~rows[i].org /\ Crosses(i))
    BY <1>1 DEF TailRead
  <1>10. \A i : i \in 1 .. cursor' - 1 <=> i \in 1 .. cursor - 1 \/ i = cursor
    BY <1>2
  <1>11. end' > LIMIT <=> \E i \in 1 .. cursor' - 1 : ~rows[i].org /\ Crosses(i)
    BY <1>8, <1>9, <1>10 DEF r
  <1>12. TailRead'
    BY <1>1, <1>6, <1>9, <1>11 DEF TailRead
  <1>13. fit = "unknown"
    BY <1>1, <1>2 DEF Judgement, ListTypeOK
  <1> QED BY <1>1, <1>5, <1>6, <1>12, <1>13 DEF Unread, BankRead, Judgement

LEMMA VerdictInv == ListInv /\ Verdict => ListInv'
  <1> SUFFICES ASSUME ListInv, Verdict PROVE ListInv'
    OBVIOUS
  <1> USE DEF ListInv
  <1>1. /\ UNCHANGED <<rows, here, tool, cursor, end, over, deliberate>>
        /\ tool # "asl" /\ cursor > Len(rows)
        /\ fit' = IF over # {} \/ (tool = "mktail" /\ end > LIMIT)
                  THEN "over" ELSE "fits"
    BY DEF Verdict
  <1>2. ListTypeOK'
    BY <1>1 DEF ListTypeOK
  <1>3. cursor = Len(rows) + 1
    BY <1>1 DEF ListTypeOK
  <1>4. /\ Contiguous' /\ PurposeIsAbove' /\ BeyondIsCrossed' /\ code' = code
        /\ \A i : (OnPurpose(i)' <=> OnPurpose(i)) /\ (Crosses(i)' <=> Crosses(i))
    BY <1>1, SameRows
  <1>5. Unread' /\ BankRead' /\ TailRead'
    <2>1. Unread' /\ TailRead'
      BY <1>1, <1>4 DEF Unread, TailRead
    <2>2. OnPurpose(cursor - 1)' <=> OnPurpose(cursor - 1)
      BY <1>1 DEF OnPurpose
    <2>3. \A i : Stop(rows[i])' = Stop(rows[i])
      BY <1>1
    <2> QED BY <1>1, <1>4, <2>1, <2>2, <2>3 DEF BankRead
  <1>6. Judgement'
    BY <1>1, <1>3 DEF Judgement
  <1> QED BY <1>2, <1>4, <1>5, <1>6

LEMMA ListStutterInv == ListInv /\ UNCHANGED listVars => ListInv'
  <1> SUFFICES ASSUME ListInv, UNCHANGED listVars PROVE ListInv'
    OBVIOUS
  <1> USE DEF ListInv, listVars
  <1>1. /\ Contiguous' /\ PurposeIsAbove' /\ BeyondIsCrossed' /\ code' = code
        /\ \A i : (OnPurpose(i)' <=> OnPurpose(i)) /\ (Crosses(i)' <=> Crosses(i))
    BY SameRows
  <1>2. Unread' /\ BankRead' /\ TailRead' /\ Judgement'
    <2>1. Unread' /\ TailRead' /\ Judgement'
      BY <1>1 DEF Unread, TailRead, Judgement
    <2>2. OnPurpose(cursor - 1)' <=> OnPurpose(cursor - 1)
      BY DEF OnPurpose
    <2>3. \A i : Stop(rows[i])' = Stop(rows[i])
      OBVIOUS
    <2> QED BY <1>1, <2>1, <2>2, <2>3 DEF BankRead
  <1>3. ListTypeOK'
    BY DEF ListTypeOK
  <1> QED BY <1>1, <1>2, <1>3

\* What the invariant says once the verdict is there.
LEMMA VerdictFollows == ListInv => VerdictIsRight
  <1> SUFFICES ASSUME ListInv, fit # "unknown" PROVE
        \/ (fit = "over") = Overruns
        \/ tool = "mktail" /\ fit = "fits" /\ \E i \in code : rows[i].at = LIMIT
    BY DEF VerdictIsRight
  <1> USE DEF ListInv
  <1>1. /\ rows \in Seq([org : BOOLEAN, at : Nat, n : Nat])
        /\ cursor = Len(rows) + 1 /\ tool \in {"checkbanks", "mktail"}
        /\ fit = IF over # {} \/ (tool = "mktail" /\ end > LIMIT)
                 THEN "over" ELSE "fits"
    BY DEF Judgement, ListTypeOK
  <1>2. \A i \in code : i \in 1 .. Len(rows) /\ i < cursor /\ ~rows[i].org
    BY <1>1 DEF code
  <1>3. \A i \in 1 .. Len(rows) : rows[i].at \in Nat /\ rows[i].n \in Nat
    <2> TAKE i \in 1 .. Len(rows)
    <2>1. rows[i] \in [org : BOOLEAN, at : Nat, n : Nat]
      BY <1>1, ElementOfSeq
    <2> QED BY <2>1
  <1>4. CASE tool = "checkbanks"
    <2>1. over # {} <=> Overruns
      BY <1>2, <1>4 DEF BankRead, Overruns
    <2> QED BY <1>1, <1>4, <2>1
  <1>5. CASE tool = "mktail"
    <2>1. fit = "over" <=> \E i \in 1 .. Len(rows) : ~rows[i].org /\ Crosses(i)
      BY <1>1, <1>5 DEF TailRead
    <2>2. ASSUME NEW i \in 1 .. Len(rows), ~rows[i].org, Crosses(i) PROVE Overruns
      <3>1. ~OnPurpose(i)
        BY <1>3, <2>2, ListingAssumption DEF PurposeIsAbove, Crosses
      <3>2. i \in code
        BY <1>1, <2>2, <3>1 DEF code
      <3> QED BY <2>2, <3>2 DEF Overruns, Crosses
    <2>3. ASSUME Overruns
          PROVE  \E i \in code : rows[i].at = LIMIT \/ Crosses(i)
      <3>1. PICK i \in code : Stop(rows[i]) > LIMIT
        BY <2>3 DEF Overruns
      <3>2. rows[i].at \in Nat /\ LIMIT \in Nat
        BY <1>2, <1>3, ListingAssumption
      <3>3. rows[i].at < LIMIT \/ rows[i].at = LIMIT \/ rows[i].at > LIMIT
        BY <3>2
      <3> QED BY <3>1, <3>3 DEF BeyondIsCrossed, Crosses
    <2>4. CASE fit = "over"
      BY <2>1, <2>2, <2>4
    <2>5. CASE fit # "over"
      <3>1. fit = "fits"
        BY <1>1, <2>5
      <3>2. ~\E i \in code : Crosses(i)
        BY <1>2, <2>1, <2>5
      <3>3. Overruns => \E i \in code : rows[i].at = LIMIT
        BY <2>3, <3>2
      <3> QED BY <1>5, <3>1, <3>3 DEF Overruns
    <2> QED BY <2>4, <2>5
  <1> QED BY <1>1, <1>4, <1>5

\* Whatever the listing and the limit: checkbanks is right, and mktail as well
\* unless an instruction starts exactly at the vectors.
THEOREM VerdictHolds == ListSpec => []VerdictIsRight
  <1>1. ListInv /\ [ListNext]_listVars => ListInv'
    BY AssembleInv, OrgInv, OpenInv, BankRowInv, TailRowInv, VerdictInv,
       ListStutterInv DEF ListNext
  <1>2. ListSpec => []ListInv
    BY ListInitInv, <1>1, PTL DEF ListSpec
  <1> QED BY <1>2, VerdictFollows, PTL

-----------------------------------------------------------------------------
(* The judge of a match *)

\* One run of differing ticks.

Episode == [lo : 1 .. LastTick, hi : 1 .. LastTick]

PlayTypeOK ==
  /\ common \subseteq 1 .. LastTick
  /\ differs \subseteq common
  /\ repair \in BOOLEAN /\ tick \in 0 .. LastTick
  /\ eps \in Seq(Episode)
  /\ exit \in {"running", "pass", "fail"}

\* The differing ticks that have been looked at.
met == {u \in differs : u <= tick}

\* The first episode starts with the first difference and ends with one after
\* which there is none for GAP ticks; the last ends with the last difference
\* met, and if it is another one, beyond that gap.
EpisodesOK ==
  /\ eps = <<>> <=> met = {}
  /\ eps # <<>> =>
       /\ eps[1].lo \in met /\ eps[1].hi \in met /\ LastOf.hi \in met
       /\ \A u \in met : /\ eps[1].lo <= u /\ u <= LastOf.hi
                         /\ u <= eps[1].hi \/ u > eps[1].hi + GAP
       /\ Len(eps) > 1 => LastOf.hi > eps[1].hi + GAP

\* A verdict is spoken when there is nothing to compare or all is compared.
SentenceOK ==
  exit # "running" =>
    \/ differs = {} /\ exit = "fail"
    \/ /\ \A u \in common : u <= tick
       /\ exit = IF Passes THEN "pass" ELSE "fail"

PlayInv == PlayTypeOK /\ EpisodesOK /\ SentenceOK

LEMMA PlayInitInv == PlayInit => PlayInv
  <1> SUFFICES ASSUME PlayInit PROVE PlayInv
    OBVIOUS
  <1> USE DEF PlayInit
  <1>1. common \subseteq 1 .. LastTick
    BY DEF common
  <1>2. eps \in Seq(Episode) /\ tick \in 0 .. LastTick
    BY PlayDiffAssumption
  <1>3. met = {}
    <2>1. \A u \in differs : u \in 1 .. LastTick
      BY <1>1
    <2>2. \A u \in 1 .. LastTick : ~(u <= 0)
      OBVIOUS
    <2> QED BY <2>1, <2>2 DEF met
  <1> QED BY <1>1, <1>2, <1>3
          DEF PlayInv, PlayTypeOK, EpisodesOK, SentenceOK

LEMMA NothingInv == PlayInv /\ Nothing => PlayInv'
  <1> SUFFICES ASSUME PlayInv, Nothing PROVE PlayInv'
    OBVIOUS
  <1> USE DEF PlayInv, Nothing
  <1>1. common' = common /\ met' = met /\ LastOf' = LastOf
    BY DEF common, met, LastOf
  <1>2. differs = {}
    BY DEF common, PlayTypeOK
  <1>3. PlayTypeOK' /\ EpisodesOK'
    BY <1>1 DEF PlayTypeOK, EpisodesOK
  <1>4. SentenceOK'
    BY <1>2 DEF SentenceOK
  <1> QED BY <1>3, <1>4

\* Ticks are numbers.
LEMMA TickFacts ==
  ASSUME PlayInv
  PROVE  /\ \A u \in common : u \in 1 .. LastTick /\ u \in Nat
         /\ \A u \in differs : u \in common /\ u \in 1 .. LastTick /\ u \in Nat
         /\ \A u \in met : u \in Nat
         /\ LastTick \in Nat /\ GAP \in Nat
         /\ RECOVER_TAIL \in Nat \ {0} /\ REPAIR_BOUND \in Nat \ {0}
  <1>1. common \subseteq 1 .. LastTick /\ differs \subseteq common
    BY DEF PlayInv, PlayTypeOK
  <1>2. \A u \in 1 .. LastTick : u \in Nat
    OBVIOUS
  <1> QED BY <1>1, <1>2, PlayDiffAssumption DEF met

\* The first tick, the last and the length of the episodes.
LEMMA EpisodeFacts ==
  ASSUME PlayInv, eps # <<>>
  PROVE  /\ Len(eps) \in Nat /\ Len(eps) >= 1
         /\ \A i \in 1 .. Len(eps) :
              /\ eps[i] = [lo |-> eps[i].lo, hi |-> eps[i].hi]
              /\ eps[i].lo \in 1 .. LastTick /\ eps[i].hi \in 1 .. LastTick
              /\ eps[i].lo \in Nat /\ eps[i].hi \in Nat
  <1>1. eps \in Seq(Episode)
    BY DEF PlayInv, PlayTypeOK
  <1>2. \A i \in 1 .. Len(eps) : eps[i] \in Episode
    BY <1>1, ElementOfSeq
  <1>3. Len(eps) \in Nat /\ Len(eps) >= 1
    BY <1>1
  <1>4. \A u \in 1 .. LastTick : u \in Nat
    OBVIOUS
  <1> QED BY <1>2, <1>3, <1>4 DEF Episode

LEMMA CompareInv == PlayInv /\ Compare => PlayInv'
  <1> SUFFICES ASSUME PlayInv, Compare PROVE PlayInv'
    OBVIOUS
  <1>1. PICK t \in common :
          /\ t > tick /\ \A u \in common : u > tick => t <= u
          /\ tick' = t
          /\ eps' = IF t \notin differs THEN eps
                    ELSE IF InEpisode(t) THEN [eps EXCEPT ![Len(eps)].hi = t]
                    ELSE Append(eps, [lo |-> t, hi |-> t])
          /\ UNCHANGED <<dumped, differs, repair, exit>> /\ exit = "running"
    BY DEF Compare
  <1>2. /\ t \in 1 .. LastTick /\ tick \in 0 .. LastTick
        /\ common \subseteq 1 .. LastTick /\ differs \subseteq common
        /\ eps \in Seq(Episode) /\ Len(eps) \in Nat
        /\ LastTick \in Nat /\ GAP \in Nat
    BY PlayDiffAssumption DEF PlayInv, PlayTypeOK
  <1>3. common' = common
    BY <1>1 DEF common
  <1>4. met' = IF t \in differs THEN met \cup {t} ELSE met
    BY <1>1, <1>2 DEF met
  <1>5. met \subseteq 1 .. LastTick /\ \A u \in met : u < t
    BY <1>1, <1>2 DEF met
  <1>6. SentenceOK'
    BY <1>1 DEF SentenceOK
  <1>7. ASSUME eps' \in Seq(Episode) PROVE PlayTypeOK'
    BY <1>1, <1>2, <1>3, <1>7 DEF PlayTypeOK, PlayInv
  <1>8. CASE t \notin differs
    <2>1. eps' = eps /\ met' = met /\ LastOf' = LastOf
      BY <1>1, <1>4, <1>8 DEF LastOf
    <2>2. EpisodesOK'
      BY <2>1 DEF PlayInv, EpisodesOK
    <2> QED BY <1>2, <1>6, <1>7, <2>1, <2>2 DEF PlayInv
  <1>9. CASE t \in differs /\ InEpisode(t)
    <2> DEFINE n == Len(eps)
               e == [eps[n] EXCEPT !.hi = t]
    <2>1. eps # <<>> /\ t - LastOf.hi <= GAP
      BY <1>9 DEF InEpisode
    <2>2. n \in Nat /\ n >= 1 /\ n \in 1 .. n
          /\ \A i \in 1 .. n :
               /\ eps[i] = [lo |-> eps[i].lo, hi |-> eps[i].hi]
               /\ eps[i].lo \in 1 .. LastTick /\ eps[i].hi \in 1 .. LastTick
               /\ eps[i].lo \in Nat /\ eps[i].hi \in Nat
      <3>1. n \in Nat /\ n >= 1
        BY <2>1, EpisodeFacts
      <3> QED BY <2>1, <3>1, EpisodeFacts
    <2>20. 1 \in 1 .. n /\ (n # 1 => n > 1)
      <3> HIDE DEF n
      <3> QED BY <2>2
    <2>3. eps' = [eps EXCEPT ![n] = e]
      BY <1>1, <1>9
    <2>4. e = [lo |-> eps[n].lo, hi |-> t] /\ e \in Episode
      <3>1. eps[n] = [lo |-> eps[n].lo, hi |-> eps[n].hi]
            /\ eps[n].lo \in 1 .. LastTick
        BY <2>2
      <3>2. e = [lo |-> eps[n].lo, hi |-> t]
        BY <3>1
      <3> HIDE DEF e
      <3> QED BY <1>2, <3>1, <3>2 DEF Episode
    <2> HIDE DEF e
    <2>5. eps' \in Seq(Episode) /\ Len(eps') = n
      <3>1. n \in 1 .. Len(eps)
        BY <2>2
      <3> HIDE DEF n
      <3>2. eps' \in Seq(Episode)
        BY <1>2, <2>3, <2>4, <3>1, ExceptSeq
      <3>3. Len(eps') = Len(eps)
        BY <1>2, <2>3, <2>4, <3>1, ExceptSeq
      <3> QED BY <3>2, <3>3 DEF n
    <2>6. eps'[n] = e /\ \A i \in 1 .. n : i # n => eps'[i] = eps[i]
      BY <1>2, <2>2, <2>3
    <2>7. LastOf' = e /\ eps' # <<>>
      BY <2>2, <2>5, <2>6 DEF LastOf
    <2>8. met' = met \cup {t} /\ met # {}
      BY <1>4, <1>9, <2>1 DEF PlayInv, EpisodesOK
    <2>9. eps'[1].lo = eps[1].lo
      <3>1. n = 1 \/ (1 \in 1 .. n /\ 1 # n)
        BY <2>2
      <3> QED BY <2>4, <2>6, <3>1
    <2>10. /\ eps[1].lo \in met /\ eps[1].hi \in met /\ LastOf.hi \in met
           /\ \A u \in met : /\ eps[1].lo <= u /\ u <= LastOf.hi
                             /\ u <= eps[1].hi \/ u > eps[1].hi + GAP
           /\ n > 1 => LastOf.hi > eps[1].hi + GAP
      BY <2>1 DEF PlayInv, EpisodesOK
    <2>11. \A u \in met' : eps'[1].lo <= u /\ u <= t
      <3>1. eps[1].lo < t
        BY <1>5, <2>10
      <3>2. eps[1].lo \in Nat /\ t \in Nat
        <4>1. eps[1].lo \in Nat
          BY <2>2, <2>20
        <4> QED BY <1>2, <4>1
      <3>3. \A u \in met : u \in Nat /\ u <= t
        BY <1>5, <3>2, TickFacts
      <3> QED BY <2>8, <2>9, <2>10, <3>1, <3>2, <3>3
    <2>12. CASE n = 1
      <3>1. eps'[1].hi = t
        BY <2>4, <2>6, <2>12
      <3> QED BY <1>6, <1>7, <2>4, <2>5, <2>7, <2>8, <2>9, <2>10, <2>11, <2>12,
                 <3>1 DEF PlayInv, EpisodesOK
    <2>13. CASE n # 1
      <3>1. n > 1 /\ 1 \in 1 .. n /\ 1 # n
        BY <2>13, <2>20
      <3>2. eps'[1].hi = eps[1].hi
        BY <2>6, <3>1
      <3>3. t > eps[1].hi + GAP
        <4>1. LastOf.hi < t /\ LastOf.hi > eps[1].hi + GAP
          BY <1>5, <2>10, <3>1
        <4>2. LastOf.hi \in Nat /\ t \in Nat /\ eps[1].hi \in Nat
          <5>1. eps[n].hi \in Nat /\ eps[1].hi \in Nat
            BY <2>2, <2>20
          <5> QED BY <1>2, <5>1 DEF LastOf
        <4> QED BY <1>2, <4>1, <4>2
      <3> QED BY <1>6, <1>7, <2>4, <2>5, <2>7, <2>8, <2>9, <2>10, <2>11, <3>1,
                 <3>2, <3>3 DEF PlayInv, EpisodesOK
    <2> QED BY <2>12, <2>13
  <1>10. CASE t \in differs /\ ~InEpisode(t)
    <2> DEFINE n == Len(eps)
               e == [lo |-> t, hi |-> t]
    <2>1. eps' = Append(eps, e)
      BY <1>1, <1>10
    <2>2. e \in Episode /\ e.lo = t /\ e.hi = t
      BY <1>2 DEF Episode
    <2> HIDE DEF e
    <2>3. eps' \in Seq(Episode) /\ Len(eps') = n + 1 /\ eps'[n + 1] = e
          /\ \A i \in 1 .. n : eps'[i] = eps[i]
      BY <1>2, <2>1, <2>2
    <2>4. LastOf' = e /\ eps' # <<>>
      BY <1>2, <2>3 DEF LastOf
    <2>5. met' = met \cup {t}
      BY <1>4, <1>10
    <2>6. CASE eps = <<>>
      <3>1. eps'[1] = e /\ Len(eps') = 1
        BY <2>3, <2>6
      <3>2. met' = {t}
        BY <2>5, <2>6 DEF PlayInv, EpisodesOK
      <3> QED BY <1>2, <1>6, <1>7, <2>2, <2>3, <2>4, <3>1, <3>2
              DEF PlayInv, EpisodesOK
    <2>7. CASE eps # <<>>
      <3>1. n >= 1 /\ 1 \in 1 .. n /\ n \in 1 .. n
            /\ \A i \in 1 .. n :
                 eps[i].lo \in Nat /\ eps[i].hi \in Nat
        <4>1. n \in Nat /\ n >= 1
          BY <2>7, EpisodeFacts
        <4>2. \A i \in 1 .. n : eps[i].lo \in Nat /\ eps[i].hi \in Nat
          BY <2>7, EpisodeFacts
        <4> QED BY <4>1, <4>2
      <3>2. eps'[1] = eps[1]
        BY <2>3, <3>1
      <3>3. t - LastOf.hi > GAP
        BY <1>2, <1>10, <2>7, <3>1 DEF InEpisode, LastOf
      <3>4. /\ eps[1].lo \in met /\ eps[1].hi \in met /\ LastOf.hi \in met
            /\ \A u \in met : /\ eps[1].lo <= u /\ u <= LastOf.hi
                              /\ u <= eps[1].hi \/ u > eps[1].hi + GAP
            /\ n > 1 => LastOf.hi > eps[1].hi + GAP
        BY <2>7 DEF PlayInv, EpisodesOK
      <3>5. n = 1 => LastOf.hi = eps[1].hi
        BY DEF LastOf
      <3>6. n = 1 \/ n > 1
        <4> HIDE DEF n
        <4> QED BY <3>1
      <3>7. t > eps[1].hi + GAP
        <4>1. LastOf.hi \in Nat /\ t \in Nat /\ eps[1].hi \in Nat
          BY <1>2, <3>1 DEF LastOf
        <4>2. LastOf.hi < t /\ (n > 1 => LastOf.hi > eps[1].hi + GAP)
          BY <1>5, <3>4
        <4> QED BY <1>2, <3>3, <3>5, <3>6, <4>1, <4>2
      <3>8. \A u \in met' : /\ eps[1].lo <= u /\ u <= t
                            /\ u <= eps[1].hi \/ u > eps[1].hi + GAP
        <4>1. eps[1].lo < t
          BY <1>5, <3>4
        <4>2. eps[1].lo \in Nat /\ t \in Nat /\ \A u \in met : u \in Nat
          BY <1>2, <3>1, TickFacts
        <4>3. \A u \in met : u <= t
          BY <1>5, <4>2
        <4> QED BY <2>5, <3>4, <3>7, <4>1, <4>2, <4>3
      <3> QED BY <1>6, <1>7, <2>2, <2>3, <2>4, <2>5, <3>2, <3>4, <3>7, <3>8
              DEF PlayInv, EpisodesOK
    <2> QED BY <2>6, <2>7
  <1> QED BY <1>8, <1>9, <1>10

LEMMA SentenceInv == PlayInv /\ Sentence => PlayInv'
  <1> SUFFICES ASSUME PlayInv, Sentence PROVE PlayInv'
    OBVIOUS
  <1> USE DEF PlayInv, Sentence
  <1>1. /\ common' = common /\ met' = met /\ LastOf' = LastOf
        /\ Passes' = Passes
    BY DEF common, met, LastOf, Passes, healed, tail, firstLen
  <1>2. PlayTypeOK' /\ EpisodesOK'
    BY <1>1 DEF PlayTypeOK, EpisodesOK
  <1>3. SentenceOK'
    BY <1>1 DEF SentenceOK
  <1> QED BY <1>2, <1>3

LEMMA PlayStutterInv == PlayInv /\ UNCHANGED playVars => PlayInv'
  <1> SUFFICES ASSUME PlayInv, UNCHANGED playVars PROVE PlayInv'
    OBVIOUS
  <1> USE DEF PlayInv, playVars
  <1>1. /\ common' = common /\ met' = met /\ LastOf' = LastOf
        /\ Passes' = Passes
    BY DEF common, met, LastOf, Passes, healed, tail, firstLen
  <1> QED BY <1>1 DEF PlayTypeOK, EpisodesOK, SentenceOK

\* Ticks are few: their sets can be counted.
LEMMA CommonIsFinite ==
  ASSUME PlayInv, NEW S, S \subseteq common
  PROVE  IsFiniteSet(S) /\ Cardinality(S) \in Nat
  <1>1. IsFiniteSet(1 .. LastTick)
    BY FS_Interval, PlayDiffAssumption
  <1>2. S \subseteq 1 .. LastTick
    BY DEF PlayInv, PlayTypeOK
  <1>3. IsFiniteSet(S)
    BY <1>1, <1>2, FS_Subset
  <1> QED BY <1>3, FS_CardinalityType

\* A pair that passes the repair test was broken and repaired and is whole.
LEMMA PassMeans ==
  ASSUME PlayInv, repair, exit = "pass"
  PROVE  /\ \E t \in common : Agree(t, RECOVER_TAIL)
         /\ \E t \in differs :
              /\ \A u \in differs : t <= u
              /\ \E e \in t .. t + REPAIR_BOUND - 1 :
                   (e + 1 .. e + GAP) \cap differs = {}
  <1>1. /\ \A u \in common : u <= tick
        /\ eps # <<>> /\ healed /\ firstLen <= REPAIR_BOUND
    BY DEF PlayInv, SentenceOK, Passes
  <1>2. /\ common \subseteq 1 .. LastTick /\ differs \subseteq common
        /\ LastTick \in Nat /\ GAP \in Nat
        /\ RECOVER_TAIL \in Nat \ {0} /\ REPAIR_BOUND \in Nat \ {0}
    BY PlayDiffAssumption DEF PlayInv, PlayTypeOK
  <1>20. /\ \A u \in common : u \in 1 .. LastTick /\ u \in Nat
         /\ \A u \in differs : u \in common /\ u \in 1 .. LastTick /\ u \in Nat
    BY TickFacts
  <1>3. met = differs
    BY <1>1, <1>2 DEF met
  <1>4. /\ eps[1].lo \in differs /\ eps[1].hi \in differs
        /\ \A u \in differs : /\ eps[1].lo <= u
                              /\ u <= eps[1].hi \/ u > eps[1].hi + GAP
    BY <1>1, <1>3 DEF PlayInv, EpisodesOK
  <1>5. \E t \in differs :
          /\ \A u \in differs : t <= u
          /\ \E e \in t .. t + REPAIR_BOUND - 1 :
               (e + 1 .. e + GAP) \cap differs = {}
    <2> DEFINE lo == eps[1].lo
               hi == eps[1].hi
    <2>1. lo \in 1 .. LastTick /\ hi \in 1 .. LastTick
      BY <1>2, <1>4
    <2>2. hi - lo + 1 <= REPAIR_BOUND /\ lo <= hi
      BY <1>1, <1>4 DEF firstLen
    <2>3. \A u \in differs : u \in Int /\ lo <= u /\ (u <= hi \/ u > hi + GAP)
      BY <1>2, <1>4
    <2>4. lo \in differs
      BY <1>4
    <2> HIDE DEF lo, hi
    <2>5. hi \in lo .. lo + REPAIR_BOUND - 1
      BY <1>2, <2>1, <2>2
    <2>6. (hi + 1 .. hi + GAP) \cap differs = {}
      BY <1>2, <2>1, <2>3
    <2> QED BY <2>3, <2>4, <2>5, <2>6
  <1> DEFINE After(s) == {u \in common : u > s}
  <1>6. PICK s \in common \ tail : \A k \in common \ tail : k <= s
    <2>1. common \ tail # {}
      BY <1>1, <1>2, <1>4 DEF healed
    <2>2. common \ tail \subseteq 0 .. LastTick
      <3>1. \A u \in 1 .. LastTick : u \in 0 .. LastTick
        OBVIOUS
      <3> QED BY <1>20, <3>1
    <2> QED BY <1>2, <2>1, <2>2, Greatest
  <1>7. Cardinality(After(s)) \in Nat /\ Cardinality(After(s)) >= RECOVER_TAIL
    <2>1. Cardinality(After(s)) \in Nat
      BY CommonIsFinite
    <2>2. ~(Cardinality(After(s)) < RECOVER_TAIL)
      BY <1>6 DEF tail
    <2> QED BY <1>2, <2>1, <2>2
  <1>8. After(s) # {}
    BY <1>2, <1>7, FS_EmptySet
  <1>9. PICK t \in After(s) : \A k \in After(s) : t <= k
    <2>1. After(s) \subseteq Nat
      BY <1>20
    <2> HIDE DEF After
    <2> QED BY <1>8, <2>1, Least
  <1>10. {u \in common : u >= t} = After(s)
    <2>1. s \in Nat /\ t \in Nat /\ t > s
      BY <1>6, <1>9, <1>20
    <2>2. \A u \in common : u \in Nat /\ (u > s => t <= u)
      BY <1>9, <1>20
    <2>3. \A u \in common : u >= t <=> u > s
      BY <2>1, <2>2
    <2> QED BY <2>3
  <1>11. \A u \in common : u >= t => u \notin differs
    <2>1. After(s) \subseteq tail
      <3>1. \A u \in common : u \in Nat /\ s \in Nat
        BY <1>6, <1>20
      <3>2. \A u \in common : u > s => ~(u <= s)
        BY <3>1
      <3> QED BY <1>6, <3>2
    <2> QED BY <1>1, <1>10, <2>1 DEF healed
  <1>12. Agree(t, RECOVER_TAIL)
    BY <1>7, <1>10, <1>11 DEF Agree
  <1> QED BY <1>5, <1>9, <1>12

\* One that is turned away was not repaired in time or did not stay whole.
LEMMA FailMeans ==
  ASSUME PlayInv, repair, exit = "fail"
  PROVE  ~ \E t \in differs :
             /\ \A u \in differs : t <= u /\ u < t + REPAIR_BOUND
             /\ \E v \in common : Agree(v, RECOVER_TAIL)
  <1> SUFFICES ASSUME NEW t \in differs,
                      \A u \in differs : t <= u /\ u < t + REPAIR_BOUND,
                      NEW v \in common, Agree(v, RECOVER_TAIL)
               PROVE  FALSE
    OBVIOUS
  <1>1. /\ \A u \in common : u <= tick
        /\ ~(eps # <<>> /\ healed /\ firstLen <= REPAIR_BOUND)
    BY DEF PlayInv, SentenceOK, Passes
  <1>2. /\ common \subseteq 1 .. LastTick /\ differs \subseteq common
        /\ RECOVER_TAIL \in Nat \ {0} /\ REPAIR_BOUND \in Nat \ {0}
    BY PlayDiffAssumption DEF PlayInv, PlayTypeOK
  <1>20. /\ \A u \in common : u \in 1 .. LastTick /\ u \in Nat
         /\ \A u \in differs : u \in common /\ u \in 1 .. LastTick /\ u \in Nat
    BY TickFacts
  <1>3. met = differs
    BY <1>1, <1>2 DEF met
  <1>4. eps # <<>>
    BY <1>3 DEF PlayInv, EpisodesOK
  <1>5. eps[1].lo \in differs /\ eps[1].hi \in differs
        /\ \A u \in differs : eps[1].lo <= u
    BY <1>3, <1>4 DEF PlayInv, EpisodesOK
  <1>6. firstLen <= REPAIR_BOUND
    <2>1. eps[1].lo \in Nat /\ eps[1].hi \in Nat /\ t \in Nat
      BY <1>5, <1>20
    <2>2. /\ eps[1].lo <= t /\ t <= eps[1].lo
          /\ eps[1].hi < t + REPAIR_BOUND
      BY <1>5
    <2> QED BY <1>2, <2>1, <2>2 DEF firstLen
  <1>7. healed
    <2> SUFFICES ASSUME NEW d \in differs, d \in tail PROVE FALSE
      BY DEF healed
    <2> DEFINE After == {u \in common : u > d}
               From == {u \in common : u >= v}
    <2>1. d < v
      BY <1>20 DEF Agree
    <2>2. From \subseteq After
      <3>1. d \in Nat /\ v \in Nat /\ \A u \in common : u \in Nat
        BY <1>20
      <3>2. \A u \in common : u >= v => u > d
        BY <2>1, <3>1
      <3> QED BY <3>2
    <2>3. IsFiniteSet(After) /\ Cardinality(After) \in Nat
          /\ Cardinality(From) \in Nat
      BY CommonIsFinite
    <2>4. Cardinality(From) <= Cardinality(After)
      BY <2>2, <2>3, FS_Subset
    <2>5. Cardinality(From) >= RECOVER_TAIL
      BY DEF Agree
    <2>6. Cardinality(After) < RECOVER_TAIL
      BY DEF tail
    <2> QED BY <1>2, <2>3, <2>4, <2>5, <2>6
  <1> QED BY <1>1, <1>4, <1>6, <1>7

\* Whatever the ticks, the gap and the bounds.
THEOREM JudgeIsRight == PlaySpec => []RepairIsJudged
  <1>1. PlayInv /\ [PlayNext]_playVars => PlayInv'
    BY NothingInv, CompareInv, SentenceInv, PlayStutterInv DEF PlayNext
  <1>2. PlaySpec => []PlayInv
    BY PlayInitInv, <1>1, PTL DEF PlaySpec
  <1>3. PlayInv => RepairIsJudged
    <2>1. PlayInv => exit \in {"running", "pass", "fail"}
      BY DEF PlayInv, PlayTypeOK
    <2> QED BY <2>1, PassMeans, FailMeans DEF RepairIsJudged
  <1> QED BY <1>2, <1>3, PTL
=============================================================================
