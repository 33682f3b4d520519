---------------------------- MODULE BanksProofs ----------------------------
(***************************************************************************)
(* The build of the banked image, for any size of the cartridge, any       *)
(* listing, table of regions and patch: what is patched in one region      *)
(* moves nothing outside it, and nothing at all if it keeps its size; the  *)
(* audit finds out when it did not, and lets an honest patch pass.         *)
(*                                                                         *)
(* The argument is about offsets.  The source is the bytes of its lines    *)
(* end to end (Filed), and a region is a stretch of it (BucketIsStretch).  *)
(* Lines that are as they were keep their distance from the cartridge      *)
(* (Shift), so the stretch of every region but the patched one starts and  *)
(* ends where it did, or as much later as the source has grown             *)
(* (RegionGets).                                                           *)
(***************************************************************************)
EXTENDS Banks, GateProofs

-----------------------------------------------------------------------------
(* Sequences end to end *)

\* Induction, for a set: what holds m and with every number the next one, up to
\* n, holds them all.
LEMMA Upto ==
  ASSUME NEW m \in Int, NEW n \in Int, NEW T, m \in T,
         \A k \in m .. n - 1 : k \in T => k + 1 \in T
  PROVE  \A k \in m .. n : k \in T
  <1> SUFFICES ASSUME NEW k \in m .. n, k \notin T PROVE FALSE
    OBVIOUS
  <1> DEFINE D == {d \in Nat : m + d <= n /\ m + d \notin T}
  <1>1. k - m \in D
    BY DEF D
  <1>2. PICK d \in D : \A e \in D : d <= e
    <2>1. D \subseteq Nat /\ D # {}
      BY <1>1
    <2> HIDE DEF D
    <2> QED BY <2>1, Least
  <1>3. d \in Nat /\ m + d <= n /\ m + d \notin T
    BY <1>2
  <1>4. d # 0
    BY <1>3
  <1>5. d - 1 \in Nat /\ d - 1 \notin D
    BY <1>2, <1>3, <1>4
  <1>6. m + (d - 1) \in T /\ m + (d - 1) \in m .. n - 1
    BY <1>3, <1>4, <1>5
  <1>7. (m + (d - 1)) + 1 \in T
    BY <1>6
  <1> QED BY <1>3, <1>7

-----------------------------------------------------------------------------
(* A sequence of sequences, end to end *)

\* Where each of them ends.
Offsets(ss, n, p) ==
  /\ p \in [0 .. n -> Nat] /\ p[0] = 0
  /\ \A k \in 1 .. n : p[k] = p[k - 1] + Len(ss[k])

\* What FlattenSeq builds up: the first k of them, end to end.
Joined(ss, f, n) ==
  f = [k \in 1 .. n |-> IF k = 1 THEN ss[k] ELSE f[k - 1] \o ss[k]]

\* One more can be added.
LEMMA JoinedStep ==
  ASSUME NEW ss, NEW n \in Nat, NEW f, Joined(ss, f, n)
  PROVE  \E g : Joined(ss, g, n + 1)
  <1> DEFINE last == IF n = 0 THEN ss[n + 1] ELSE f[n] \o ss[n + 1]
             g == [k \in 1 .. n + 1 |-> IF k = n + 1 THEN last ELSE f[k]]
             h == [k \in 1 .. n + 1 |-> IF k = 1 THEN ss[k] ELSE g[k - 1] \o ss[k]]
  <1>1. \A k \in 1 .. n : f[k] = IF k = 1 THEN ss[k] ELSE f[k - 1] \o ss[k]
    BY DEF Joined
  <1>2. /\ g[n + 1] = last /\ \A k \in 1 .. n : g[k] = f[k]
        /\ DOMAIN g = 1 .. n + 1
    <2> HIDE DEF last
    <2>1. n + 1 \in 1 .. n + 1 /\ \A k \in 1 .. n : k \in 1 .. n + 1 /\ k # n + 1
      OBVIOUS
    <2> QED BY <2>1
  <1> HIDE DEF g
  <1>3. ASSUME NEW k \in 1 .. n + 1 PROVE g[k] = h[k]
    <2>1. CASE k = n + 1
      <3>1. CASE n = 0
        BY <1>2, <2>1, <3>1
      <3>2. CASE n # 0
        <4>1. n \in 1 .. n /\ k # 1 /\ k - 1 = n
          BY <2>1, <3>2
        <4>2. g[k - 1] = f[n]
          BY <1>2, <4>1
        <4> QED BY <1>2, <2>1, <3>2, <4>1, <4>2
      <3> QED BY <3>1, <3>2
    <2>2. CASE k \in 1 .. n
      <3>1. g[k] = IF k = 1 THEN ss[k] ELSE f[k - 1] \o ss[k]
        BY <1>1, <1>2, <2>2
      <3>2. k # 1 => k - 1 \in 1 .. n
        BY <2>2
      <3>3. k # 1 => g[k - 1] = f[k - 1]
        BY <1>2, <3>2
      <3> QED BY <3>1, <3>3
    <2> QED BY <2>1, <2>2
  <1>4. g = h
    <2>1. g = [k \in 1 .. n + 1 |-> g[k]]
      BY DEF g
    <2> HIDE DEF h
    <2>2. DOMAIN h = 1 .. n + 1 /\ h = [k \in 1 .. n + 1 |-> h[k]]
      BY DEF h
    <2> QED BY <1>3, <2>1, <2>2
  <1>5. Joined(ss, g, n + 1)
    BY <1>4 DEF Joined
  <1> QED BY <1>5

\* So there is such a function for any number of them.
LEMMA JoinedExists ==
  ASSUME NEW ss, NEW n \in Nat
  PROVE  \E f : Joined(ss, f, n)
  <1> DEFINE T == {k \in Nat : \E f : Joined(ss, f, k)}
  <1>1. 0 \in T
    <2>1. Joined(ss, [k \in 1 .. 0 |-> ss[k]], 0)
      BY DEF Joined
    <2> QED BY <2>1
  <1>2. \A k \in 0 .. n - 1 : k \in T => k + 1 \in T
    <2> HIDE DEF Joined
    <2> QED BY JoinedStep
  <1> HIDE DEF T
  <1>3. n \in T
    BY <1>1, <1>2, Upto
  <1> QED BY <1>3 DEF T

\* The definition unfolded.
LEMMA FlattenIsJoined ==
  ASSUME NEW S, NEW n \in Nat \ {0}, NEW ss \in [1 .. n -> S]
  PROVE  \E f : Joined(ss, f, n) /\ FlattenSeq(ss) = f[n]
  <1> DEFINE f == CHOOSE g : Joined(ss, g, n)
  <1>0. Len(ss) = n
    OBVIOUS
  <1>1. Joined(ss, f, n)
    <2>1. n \in Nat
      OBVIOUS
    <2> HIDE DEF Joined
    <2> QED BY <2>1, JoinedExists
  <1>2. FlattenSeq(ss) = f[n]
    BY <1>0 DEF FlattenSeq, Joined
  <1> QED BY <1>1, <1>2

\* What each step adds.
Growing(S, ss, f, n) ==
  /\ \A k \in 1 .. n : f[k] \in Seq(S)
  /\ n # 0 => f[1] = ss[1]
  /\ \A k \in 2 .. n : f[k] = f[k - 1] \o ss[k]

\* Each step adds one sequence at the end.
LEMMA JoinedGrows ==
  ASSUME NEW S, NEW n \in Nat, NEW ss \in [1 .. n -> Seq(S)], NEW f, Joined(ss, f, n)
  PROVE  Growing(S, ss, f, n)
  <1>1. \A k \in 1 .. n :
          f[k] = IF k = 1 THEN ss[k] ELSE f[k - 1] \o ss[k]
    BY DEF Joined
  <1>2. \A k \in 1 .. n : ss[k] \in Seq(S)
    OBVIOUS
  <1>3. n \in Nat
    OBVIOUS
  <1>4. n # 0 => f[1] = ss[1]
    BY <1>1, <1>3
  <1>5. \A k \in 2 .. n : f[k] = f[k - 1] \o ss[k]
    <2>1. \A k \in 2 .. n : k \in 1 .. n /\ k # 1
      OBVIOUS
    <2> QED BY <1>1, <2>1
  <1> DEFINE T == {k \in Nat : f[k] \in Seq(S)}
  <1>6. ASSUME n # 0 PROVE \A k \in 1 .. n : k \in T
    <2>1. 1 \in T
      BY <1>2, <1>3, <1>4, <1>6
    <2>2. ASSUME NEW k \in 1 .. n - 1, k \in T PROVE k + 1 \in T
      <3>1. k + 1 \in 2 .. n /\ (k + 1) - 1 = k /\ k + 1 \in 1 .. n
        BY <1>3
      <3>2. f[k + 1] = f[k] \o ss[k + 1]
        BY <1>5, <3>1
      <3>3. f[k] \in Seq(S) /\ ss[k + 1] \in Seq(S)
        BY <1>2, <2>2, <3>1
      <3>4. f[k] \o ss[k + 1] \in Seq(S)
        BY <3>3, ConcatProperties
      <3>5. f[k + 1] \in Seq(S) /\ k + 1 \in Nat
        BY <3>1, <3>2, <3>4
      <3> QED BY <3>5
    <2> HIDE DEF T
    <2>3. \A k \in 1 .. n - 1 : k \in T => k + 1 \in T
      BY <2>2
    <2>4. 1 \in Int /\ n \in Int
      BY <1>3
    <2>5. \A k \in 1 .. n : k \in T
      BY ONLY <2>1, <2>3, <2>4, Upto
    <2> QED BY <2>5
  <1>7. \A k \in 1 .. n : f[k] \in Seq(S)
    <2>1. CASE n = 0
      BY <2>1
    <2>2. CASE n # 0
      BY <1>6, <2>2
    <2> QED BY <2>1, <2>2
  <1> QED BY <1>4, <1>5, <1>7 DEF Growing

\* Later ones end later.
LEMMA OffsetsGrow ==
  ASSUME NEW S, NEW n \in Nat, NEW ss \in [1 .. n -> Seq(S)], NEW p, Offsets(ss, n, p),
         NEW i \in 0 .. n
  PROVE  \A k \in i .. n : p[i] <= p[k]
  <1> DEFINE T == {k \in 0 .. n : p[i] <= p[k]}
  <1>1. n \in Nat /\ p \in [0 .. n -> Nat]
        /\ \A k \in 1 .. n : p[k] = p[k - 1] + Len(ss[k])
    BY DEF Offsets
  <1>2. i \in T
    BY <1>1
  <1>3. ASSUME NEW k \in i .. n - 1, k \in T PROVE k + 1 \in T
    <2>1. k + 1 \in 1 .. n /\ (k + 1) - 1 = k /\ k \in 0 .. n
          /\ k + 1 \in 0 .. n
      BY <1>1
    <2>2. p[k + 1] = p[k] + Len(ss[k + 1]) /\ p[k] \in Nat /\ p[i] \in Nat
      BY <1>1, <2>1
    <2>3. ss[k + 1] \in Seq(S)
      BY <2>1
    <2>4. Len(ss[k + 1]) \in Nat
      BY <2>3
    <2>5. p[i] <= p[k]
      BY <1>3
    <2>6. p[i] <= p[k + 1]
      BY <2>2, <2>4, <2>5
    <2> QED BY <2>1, <2>6
  <1> HIDE DEF T
  <1>4. \A k \in i .. n : k \in T
    <2>1. i \in Int /\ n \in Int
      OBVIOUS
    <2>2. \A k \in i .. n - 1 : k \in T => k + 1 \in T
      BY <1>3
    <2> QED BY ONLY <1>2, <2>1, <2>2, Upto
  <1> QED BY <1>4 DEF T

\* Every byte belongs to one of them.
\* The x-th of all is one of the k-th sequence.
Within(ss, p, k, x) == \E j \in 1 .. Len(ss[k]) : x = p[k - 1] + j

\* Each of all is in one of them.
LEMMA Locate ==
  ASSUME NEW S, NEW n \in Nat, NEW ss \in [1 .. n -> Seq(S)], NEW p, Offsets(ss, n, p),
         NEW x \in 1 .. p[n]
  PROVE  \E k \in 1 .. n : Within(ss, p, k, x)
  <1>1. n \in Nat /\ p \in [0 .. n -> Nat] /\ p[0] = 0
        /\ \A k \in 1 .. n : p[k] = p[k - 1] + Len(ss[k])
    BY DEF Offsets
  <1> DEFINE T == {k \in 0 .. n : x <= p[k]}
  <1>2. PICK k \in T : \A i \in T : k <= i
    <2>1. n \in 0 .. n /\ p[n] \in Nat
      BY <1>1
    <2>2. T \subseteq Nat /\ T # {}
      BY <2>1
    <2> HIDE DEF T
    <2> QED BY <2>2, Least
  <1>3. k \in 0 .. n /\ x <= p[k]
    OBVIOUS
  <1>4. k # 0
    BY <1>1, <1>3
  <1>5. k \in 1 .. n /\ k - 1 \in 0 .. n /\ ~(k <= k - 1)
    BY <1>1, <1>3, <1>4
  <1>6. ~(x <= p[k - 1])
    BY <1>2, <1>5
  <1>7. p[k] = p[k - 1] + Len(ss[k]) /\ p[k - 1] \in Nat /\ p[k] \in Nat
    BY <1>1, <1>5
  <1>8. ss[k] \in Seq(S)
    BY <1>5
  <1>9. Len(ss[k]) \in Nat
    BY <1>8
  <1>10. x - p[k - 1] \in 1 .. Len(ss[k]) /\ x = p[k - 1] + (x - p[k - 1])
    BY <1>3, <1>6, <1>7, <1>9
  <1> QED BY <1>5, <1>10 DEF Within

\* FlattenSeq puts each of them where the ones before it end.
\* The result has the sequences at their offsets, and nothing else.
Filed(S, ss, n, p) ==
  /\ Offsets(ss, n, p)
  /\ FlattenSeq(ss) \in Seq(S) /\ Len(FlattenSeq(ss)) = p[n]
  /\ \A k \in 1 .. n : \A j \in 1 .. Len(ss[k]) :
       FlattenSeq(ss)[p[k - 1] + j] = ss[k][j]

\* FlattenSeq puts its sequences end to end.
LEMMA Flattened ==
  ASSUME NEW S, NEW n \in Nat, NEW ss \in [1 .. n -> Seq(S)]
  PROVE  \E p : Filed(S, ss, n, p)
  <1>1. n \in Nat
    OBVIOUS
  <1>2. CASE n = 0
    <2> DEFINE p == [k \in 0 .. 0 |-> 0]
    <2>1. FlattenSeq(ss) = <<>>
      <3>1. Len(ss) = 0 /\ ss = <<>>
        BY <1>2
      <3> QED BY <3>1 DEF FlattenSeq
    <2>2. Offsets(ss, n, p) /\ p[0] = 0
      BY <1>2 DEF Offsets
    <2> HIDE DEF p
    <2> QED BY <1>2, <2>1, <2>2 DEF Filed
  <1>3. CASE n # 0
    <2>1. PICK f : Joined(ss, f, n) /\ FlattenSeq(ss) = f[n]
      BY <1>3, FlattenIsJoined
    <2>2. /\ \A k \in 1 .. n : f[k] \in Seq(S)
          /\ f[1] = ss[1]
          /\ \A k \in 2 .. n : f[k] = f[k - 1] \o ss[k]
      <3>1. Growing(S, ss, f, n)
        BY <2>1, JoinedGrows
      <3> QED BY <1>3, <3>1 DEF Growing
    <2>3. \A k \in 1 .. n : ss[k] \in Seq(S)
      OBVIOUS
    <2> DEFINE p == [k \in 0 .. n |-> IF k = 0 THEN 0 ELSE Len(f[k])]
    <2>4. /\ p \in [0 .. n -> Nat] /\ p[0] = 0
          /\ \A k \in 1 .. n : p[k] = Len(f[k])
      <3>1. \A k \in 0 .. n : k # 0 => k \in 1 .. n
        BY <1>1
      <3>2. \A k \in 1 .. n : Len(f[k]) \in Nat
        BY <2>2
      <3>3. \A k \in 0 .. n : (IF k = 0 THEN 0 ELSE Len(f[k])) \in Nat
        BY <3>1, <3>2
      <3>4. 0 \in 0 .. n /\ \A k \in 1 .. n : k \in 0 .. n /\ k # 0
        BY <1>1
      <3> QED BY <3>3, <3>4
    <2> HIDE DEF p
    <2>5. ASSUME NEW k \in 1 .. n PROVE p[k] = p[k - 1] + Len(ss[k])
      <3>1. CASE k = 1
        <4>1. Len(ss[1]) \in Nat
          BY <2>3, <3>1
        <4> QED BY <2>2, <2>4, <3>1, <4>1
      <3>2. CASE k # 1
        <4>1. k \in 2 .. n /\ k - 1 \in 1 .. n
          BY <3>2
        <4>2. f[k] = f[k - 1] \o ss[k] /\ f[k - 1] \in Seq(S) /\ ss[k] \in Seq(S)
          BY <2>2, <2>3, <4>1
        <4>3. Len(f[k]) = Len(f[k - 1]) + Len(ss[k])
          BY <4>2, ConcatProperties
        <4> QED BY <2>4, <4>1, <4>3
      <3> QED BY <3>1, <3>2
    <2>6. Offsets(ss, n, p)
      BY <2>4, <2>5 DEF Offsets
    <2> DEFINE T == {m \in 1 .. n : \A k \in 1 .. m : \A j \in 1 .. Len(ss[k]) :
                       f[m][p[k - 1] + j] = ss[k][j]}
    <2>7. 1 \in T
      <3>1. 1 \in 1 .. n /\ \A k \in 1 .. 1 : k = 1 /\ k - 1 = 0
        BY <1>1, <1>3
      <3>2. \A j \in 1 .. Len(ss[1]) : f[1][p[0] + j] = ss[1][j]
        BY <2>2, <2>4
      <3> QED BY <3>1, <3>2
    <2>8. ASSUME NEW m \in 1 .. n - 1, m \in T PROVE m + 1 \in T
      <3>1. m + 1 \in 2 .. n /\ (m + 1) - 1 = m /\ m \in 1 .. n /\ m + 1 \in 1 .. n
        BY <1>1
      <3>2. f[m + 1] = f[m] \o ss[m + 1] /\ f[m] \in Seq(S) /\ ss[m + 1] \in Seq(S)
        BY <2>2, <2>3, <3>1
      <3>3. p[m] = Len(f[m])
        BY <2>4, <3>1
      <3>4. ASSUME NEW k \in 1 .. m + 1, NEW j \in 1 .. Len(ss[k])
            PROVE  f[m + 1][p[k - 1] + j] = ss[k][j]
        <4>1. CASE k = m + 1
          <5>1. k - 1 = m /\ j \in 1 .. Len(ss[m + 1])
            BY <3>1, <4>1
          <5>2. (f[m] \o ss[m + 1])[Len(f[m]) + j] = ss[m + 1][j]
            <6>1. Len(f[m]) \in Nat /\ Len(ss[m + 1]) \in Nat
              BY <3>2
            <6> DEFINE x == Len(f[m])
                       y == Len(ss[m + 1])
            <6>2. x \in Nat /\ y \in Nat /\ j \in 1 .. y
              BY <5>1, <6>1
            <6> HIDE DEF x, y
            <6>3. x + j \in 1 .. x + y /\ ~(x + j <= x) /\ (x + j) - x = j
              BY <6>2
            <6> QED BY ONLY <3>2, <6>3, ConcatProperties DEF x, y
          <5> QED BY <3>2, <3>3, <4>1, <5>1, <5>2
        <4>2. CASE k \in 1 .. m
          <5>1. f[m][p[k - 1] + j] = ss[k][j]
            BY <2>8, <4>2
          <5>2. k \in 1 .. n /\ k \in 0 .. n /\ k - 1 \in 0 .. n /\ m \in k .. n
            BY <3>1, <4>2
          <5>3. p[k - 1] + Len(ss[k]) <= p[m]
            BY <2>5, <2>6, <5>2, OffsetsGrow
          <5>4. p[k - 1] \in Nat /\ p[m] \in Nat /\ Len(ss[k]) \in Nat
            BY <2>3, <2>4, <5>2, <3>1
          <5>5. p[k - 1] + j \in 1 .. Len(f[m])
            BY <3>3, <5>3, <5>4
          <5>6. (f[m] \o ss[m + 1])[p[k - 1] + j] = f[m][p[k - 1] + j]
            <6> DEFINE x == p[k - 1] + j
            <6>1. x \in 1 .. Len(f[m]) /\ Len(f[m]) \in Nat
                  /\ Len(ss[m + 1]) \in Nat
              BY <3>2, <5>5
            <6> HIDE DEF x
            <6> DEFINE a == Len(f[m])
                       b == Len(ss[m + 1])
            <6> HIDE DEF a, b
            <6>4. a \in Nat /\ b \in Nat /\ x \in 1 .. a
              BY <6>1 DEF a, b
            <6>5. x \in 1 .. a + b /\ x <= a
              BY ONLY <6>4
            <6>2. x \in 1 .. Len(f[m]) + Len(ss[m + 1]) /\ x <= Len(f[m])
              BY <6>5 DEF a, b
            <6>3. (f[m] \o ss[m + 1])[x] = f[m][x]
              BY ONLY <3>2, <6>2, ConcatProperties
            <6> QED BY <6>3 DEF x
          <5> QED BY <3>2, <5>1, <5>6
        <4>3. k = m + 1 \/ k \in 1 .. m
          BY <3>1
        <4> QED BY <4>1, <4>2, <4>3
      <3> QED BY <3>1, <3>4
    <2>9. n \in T
      <3> HIDE DEF T
      <3>1. 1 \in Int /\ n \in Int
        BY <1>1
      <3>3. \A k \in 1 .. n - 1 : k \in T => k + 1 \in T
        BY <2>8
      <3>4. \A k \in 1 .. n : k \in T
        BY ONLY <2>7, <3>1, <3>3, Upto
      <3>2. n \in 1 .. n
        BY <1>1, <1>3
      <3> QED BY <3>2, <3>4
    <2>10. \A k \in 1 .. n : \A j \in 1 .. Len(ss[k]) :
             FlattenSeq(ss)[p[k - 1] + j] = ss[k][j]
      BY <2>1, <2>9
    <2>11. n \in 1 .. n
      BY <1>1, <1>3
    <2>12. FlattenSeq(ss) \in Seq(S) /\ Len(FlattenSeq(ss)) = p[n]
      BY <2>1, <2>2, <2>4, <2>11
    <2> QED BY <2>6, <2>10, <2>12 DEF Filed
  <1> QED BY <1>2, <1>3

\* All but the f-th to the one before the g-th are emptied.
Masked(ss, n, f, g) == [k \in 1 .. n |-> IF k \in f .. g - 1 THEN ss[k] ELSE <<>>]

\* What is left then is the stretch from where the f-th starts.
Cut(ss, ts, p, f, g) ==
  /\ Len(FlattenSeq(ts)) = p[g - 1] - p[f - 1]
  /\ \A x \in 1 .. Len(FlattenSeq(ts)) :
       FlattenSeq(ts)[x] = FlattenSeq(ss)[p[f - 1] + x]

LEMMA FlattenStretch ==
  ASSUME NEW S, NEW n \in Nat, NEW ss \in [1 .. n -> Seq(S)], NEW p, Filed(S, ss, n, p),
         NEW f \in 1 .. n + 1, NEW g \in f .. n + 1,
         NEW ts, ts = Masked(ss, n, f, g)
  PROVE  Cut(ss, ts, p, f, g)
  <1>1. n \in Nat /\ \A k \in 1 .. n : ss[k] \in Seq(S)
    OBVIOUS
  <1>2. ts \in [1 .. n -> Seq(S)]
    <2>1. \A k \in 1 .. n :
            (IF k \in f .. g - 1 THEN ss[k] ELSE <<>>) \in Seq(S)
      BY <1>1
    <2> QED BY <2>1 DEF Masked
  <1>3. \A k \in 1 .. n : ts[k] = IF k \in f .. g - 1 THEN ss[k] ELSE <<>>
    BY DEF Masked
  <1>20. PICK q : Filed(S, ts, n, q)
    BY <1>2, Flattened
  <1>4. /\ Offsets(ts, n, q)
        /\ FlattenSeq(ts) \in Seq(S) /\ Len(FlattenSeq(ts)) = q[n]
        /\ \A k \in 1 .. n : \A j \in 1 .. Len(ts[k]) :
             FlattenSeq(ts)[q[k - 1] + j] = ts[k][j]
    BY <1>20 DEF Filed
  <1>5. /\ q \in [0 .. n -> Nat] /\ q[0] = 0
        /\ \A k \in 1 .. n : q[k] = q[k - 1] + Len(ts[k])
    BY <1>2, <1>4 DEF Offsets
  <1>6. /\ p \in [0 .. n -> Nat] /\ p[0] = 0
        /\ \A k \in 1 .. n : p[k] = p[k - 1] + Len(ss[k])
    BY DEF Filed, Offsets
  <1>7. \A k \in 1 .. n : Len(ss[k]) \in Nat /\ Len(<<>>) = 0
    BY <1>1
  <1> DEFINE A == {k \in 0 .. n : q[k] = 0}
             B == {k \in 0 .. n : q[k] = p[k] - p[f - 1]}
             C == {k \in 0 .. n : q[k] = p[g - 1] - p[f - 1]}
  <1>8. f - 1 \in A
    <2>1. 0 \in A
      BY <1>1, <1>5
    <2>2. ASSUME NEW k \in 0 .. (f - 1) - 1, k \in A PROVE k + 1 \in A
      <3>1. k + 1 \in 1 .. n /\ k + 1 \in 0 .. n /\ (k + 1) - 1 = k
            /\ ~(k + 1 \in f .. g - 1)
        BY <1>1
      <3>2. q[k + 1] = q[k] + Len(ts[k + 1])
        BY <1>5, <3>1
      <3>3. ts[k + 1] = <<>>
        BY <1>3, <3>1
      <3>4. q[k] = 0
        BY <2>2
      <3>5. q[k + 1] = 0
        BY <3>2, <3>3, <3>4
      <3> QED BY <3>1, <3>5
    <2> HIDE DEF A
    <2>3. f - 1 \in 0 .. f - 1 /\ f - 1 \in Int /\ 0 \in Int
      BY <1>1
    <2>4. \A k \in 0 .. (f - 1) - 1 : k \in A => k + 1 \in A
      BY <2>2
    <2> QED BY ONLY <2>1, <2>3, <2>4, Upto
  <1>9. \A k \in f - 1 .. g - 1 : k \in B
    <2>1. f - 1 \in B
      <3>1. f - 1 \in 0 .. n
        BY <1>1
      <3>2. p[f - 1] \in Nat
        BY <1>6, <3>1
      <3> QED BY <1>8, <3>1, <3>2
    <2>2. ASSUME NEW k \in f - 1 .. (g - 1) - 1, k \in B PROVE k + 1 \in B
      <3>1. k + 1 \in 1 .. n /\ k + 1 \in 0 .. n /\ (k + 1) - 1 = k
            /\ k + 1 \in f .. g - 1 /\ k \in 0 .. n /\ f - 1 \in 0 .. n
        BY <1>1
      <3>2. q[k + 1] = q[k] + Len(ts[k + 1]) /\ p[k + 1] = p[k] + Len(ss[k + 1])
        BY <1>5, <1>6, <3>1
      <3>3. ts[k + 1] = ss[k + 1]
        BY <1>3, <3>1
      <3>4. q[k] = p[k] - p[f - 1]
        BY <2>2
      <3>5. p[k] \in Nat /\ p[f - 1] \in Nat /\ Len(ss[k + 1]) \in Nat
        BY <1>6, <1>7, <3>1
      <3>6. q[k + 1] = p[k + 1] - p[f - 1]
        BY <3>2, <3>3, <3>4, <3>5
      <3> QED BY <3>1, <3>6
    <2> HIDE DEF B
    <2>3. f - 1 \in Int /\ g - 1 \in Int
      BY <1>1
    <2>4. \A k \in f - 1 .. (g - 1) - 1 : k \in B => k + 1 \in B
      BY <2>2
    <2> QED BY ONLY <2>1, <2>3, <2>4, Upto
  <1>10. n \in C
    <2>1. g - 1 \in C
      <3>1. g - 1 \in f - 1 .. g - 1
        BY <1>1
      <3> QED BY <1>9, <3>1
    <2>2. ASSUME NEW k \in g - 1 .. n - 1, k \in C PROVE k + 1 \in C
      <3>1. k + 1 \in 1 .. n /\ k + 1 \in 0 .. n /\ (k + 1) - 1 = k
            /\ ~(k + 1 \in f .. g - 1) /\ k \in 0 .. n
        BY <1>1
      <3>2. q[k + 1] = q[k] + Len(ts[k + 1]) /\ q[k] \in Nat
        BY <1>5, <3>1
      <3>3. ts[k + 1] = <<>>
        BY <1>3, <3>1
      <3>4. q[k + 1] = q[k]
        BY <3>2, <3>3
      <3>5. q[k] = p[g - 1] - p[f - 1]
        BY <2>2
      <3> QED BY <3>1, <3>4, <3>5
    <2> HIDE DEF C
    <2>3. n \in g - 1 .. n /\ g - 1 \in Int /\ n \in Int
      BY <1>1
    <2>4. \A k \in g - 1 .. n - 1 : k \in C => k + 1 \in C
      BY <2>2
    <2> QED BY ONLY <2>1, <2>3, <2>4, Upto
  <1>11. Len(FlattenSeq(ts)) = p[g - 1] - p[f - 1]
    BY <1>4, <1>10
  <1>12. ASSUME NEW x \in 1 .. Len(FlattenSeq(ts))
         PROVE  FlattenSeq(ts)[x] = FlattenSeq(ss)[p[f - 1] + x]
    <2>0. PICK k \in 1 .. n : Within(ts, q, k, x)
      <3>1. x \in 1 .. q[n]
        BY <1>4
      <3>2. Offsets(ts, n, q)
        BY <1>4
      <3> QED BY ONLY n \in Nat, <1>2, <3>1, <3>2, Locate
    <2>1. PICK j \in 1 .. Len(ts[k]) : x = q[k - 1] + j
      BY <2>0 DEF Within
    <2>2. k \in f .. g - 1
      <3>1. ASSUME k \notin f .. g - 1 PROVE FALSE
        <4>1. ts[k] = <<>>
          BY <1>3, <3>1
        <4>2. Len(ts[k]) = 0
          BY <4>1
        <4> QED BY <4>2
      <3> QED BY <3>1
    <2>3. k - 1 \in f - 1 .. g - 1 /\ k - 1 \in 0 .. n /\ f - 1 \in 0 .. n
      BY <1>1, <2>2
    <2>4. q[k - 1] = p[k - 1] - p[f - 1]
      BY <1>9, <2>3
    <2>5. ts[k] = ss[k]
      BY <1>3, <2>2
    <2>6. FlattenSeq(ts)[x] = ss[k][j]
      <3>1. FlattenSeq(ts)[q[k - 1] + j] = ts[k][j]
        BY ONLY <1>4
      <3> QED BY ONLY <2>1, <2>5, <3>1
    <2>7. FlattenSeq(ss)[p[k - 1] + j] = ss[k][j]
      BY <2>1, <2>5 DEF Filed
    <2>8. p[k - 1] \in Nat /\ p[f - 1] \in Nat
      BY <1>6, <2>3
    <2>9. p[f - 1] + x = p[k - 1] + j
      <3>1. PICK u \in Nat, v \in Nat : u = p[f - 1] /\ v = p[k - 1]
        BY <2>8
      <3>2. x = (v - u) + j /\ j \in Int
        BY <2>1, <2>4, <3>1
      <3>3. u + x = v + j
        BY <3>2
      <3> QED BY <3>1, <3>3
    <2> QED BY <2>6, <2>7, <2>9
  <1> QED BY <1>11, <1>12 DEF Cut

-----------------------------------------------------------------------------
(* What does not depend on the stage of the build *)

\* A step that leaves the source and the table leaves what follows from them.
LEMMA SameRegion ==
  ASSUME UNCHANGED <<addr, REGIONS, lines>>
  PROVE  /\ \A a : region_of(a)' = region_of(a)
  BY DEF region_of

\* Neither what a region gets,
LEMMA SameBuild ==
  ASSUME UNCHANGED <<addr, REGIONS, lines>>
  PROVE  \A i : Bucket(i)' = Bucket(i)
  <1>1. \A a : region_of(a)' = region_of(a)
    BY SameRegion
  <1> QED BY <1>1 DEF Bucket

\* nor where it goes,
LEMMA SameExtent ==
  ASSUME UNCHANGED <<addr, REGIONS, lines>>
  PROVE  \A i : Extent(i)' = Extent(i) /\ Copies(i)' = Copies(i)
  BY SameBuild DEF Extent, Copies

\* The regions that have put a byte at an address, the last of them, and the
\* byte that is left.
Owners(b, a) == {i \in DOMAIN REGIONS : b \in Copies(i) /\ a \in Extent(i)}
LastIn(owners) == CHOOSE i \in owners : \A k \in owners : k <= i
Cell(b, a) ==
  IF Owners(b, a) = {} THEN Filler
  ELSE Bucket(LastIn(Owners(b, a)))[a - REGIONS[LastIn(Owners(b, a))].lo + 1]

LEMMA CellIs == \A b : Assembled(b) = [a \in At |-> Cell(b, a)]
  BY DEF Assembled, Cell, Owners, LastIn

\* nor what the banks come to changes with such a step.
LEMMA SameBanks ==
  ASSUME UNCHANGED <<addr, REGIONS, lines>>
  PROVE  \A b : Assembled(b)' = Assembled(b)
  <1>1. \A b, a : Owners(b, a)' = Owners(b, a)
    BY SameExtent DEF Owners
  <1>2. \A b, a : Cell(b, a)' = Cell(b, a)
    BY <1>1, SameBuild DEF Cell
  <1>3. \A b : Assembled(b)' = [a \in At |-> Cell(b, a)']
    BY DEF Assembled, Cell, Owners, LastIn
  <1> QED BY <1>2, <1>3, CellIs

-----------------------------------------------------------------------------
(* The invariant of the build *)

\* A byte of the cartridge or of a patch.
Emitted == Int \cup {NewByte}

\* The source is a source and the table a table.
BanksTypeOK ==
  /\ addr \in Listings /\ REGIONS \in Tables
  /\ lines \in [1 .. Len(addr) -> Seq(Emitted)]

\* One stretch of lines is patched: its first line has the new bytes, which say
\* nothing of what comes behind the stretch, and the others are blank.
Stretch(f, g) ==
  /\ \A k \in 1 .. Len(addr) : k \notin f .. g - 1 => lines[k] = Original(k)
  /\ \A k \in f + 1 .. g - 1 : lines[k] = <<>>
  /\ \A j \in 1 .. Len(lines[f]) :
       lines[f][j] # NewByte => lines[f][j] < NextAddr(g - 1)
OnePatch ==
  \E f \in 1 .. Len(addr) : \E g \in f + 1 .. Len(addr) + 1 : Stretch(f, g)

\* Before the patch the source is the cartridge.
Unpatched == step = "patch" => lines = [k \in DOMAIN addr |-> Original(k)]

\* What each stage has found out.
BuiltOK ==
  step \in {"fits", "audit", "done", "rejected"} =>
    EdgesOK /\ built = [b \in Bank |-> Assembled(b)]
\* What check_patch asks for.
Accepted == /\ changed \subseteq declared
            /\ declared # {} => changed \cap declared # {}
\* A build ends well if and only if the audit passes it.
AuditOK ==
  (step = "done" => Accepted) /\ (step = "rejected" => ~Accepted)

\* The inductive invariant.
BuildInv == /\ BanksTypeOK /\ OnePatch /\ Unpatched
        /\ BuiltOK /\ AuditOK

-----------------------------------------------------------------------------
(* Regions *)

\* The addresses of a region.
Reg(i) == REGIONS[i].lo .. REGIONS[i].hi - 1

\* What Tiles says, unfolded.
LEMMA RegionTypes ==
  ASSUME BanksTypeOK
  PROVE  /\ Len(REGIONS) \in Nat \ {0} /\ DOMAIN REGIONS = 1 .. Len(REGIONS)
         /\ \A i \in 1 .. Len(REGIONS) :
              /\ REGIONS[i].lo \in Nat /\ REGIONS[i].hi \in Nat
              /\ REGIONS[i].bank \in Bank \cup {"BOTH"}
              /\ REGIONS[i].lo < REGIONS[i].hi
         /\ REGIONS[1].lo = 0 /\ REGIONS[Len(REGIONS)].hi = ImageSize
         /\ \A i \in 1 .. Len(REGIONS) - 1 : REGIONS[i].hi = REGIONS[i + 1].lo
  <1>1. REGIONS \in Seq(Region) /\ REGIONS # <<>> /\ Tiles(REGIONS, ImageSize)
    BY BanksAssumption DEF BanksTypeOK
  <1>2. Len(REGIONS) \in Nat \ {0} /\ DOMAIN REGIONS = 1 .. Len(REGIONS)
    BY <1>1
  <1>3. \A i \in 1 .. Len(REGIONS) : REGIONS[i] \in Region
    BY <1>1, ElementOfSeq
  <1>4. \A r \in Region :
          r.lo \in Nat /\ r.hi \in Nat /\ r.bank \in Bank \cup {"BOTH"}
    BY DEF Region
  <1> QED BY <1>1, <1>2, <1>3, <1>4 DEF Tiles

\* A region ends before every later one starts.
LEMMA RegionOrder ==
  ASSUME BanksTypeOK, NEW i \in DOMAIN REGIONS
  PROVE  /\ \A k \in i + 1 .. Len(REGIONS) : REGIONS[i].hi <= REGIONS[k].lo
         /\ REGIONS[i].hi <= ImageSize
  <1> DEFINE T == {k \in 1 .. Len(REGIONS) : REGIONS[i].hi <= REGIONS[k].lo}
  <1>1. PICK n \in Nat \ {0} : n = Len(REGIONS)
    BY RegionTypes
  <1>2. /\ i \in 1 .. n
        /\ \A k \in 1 .. n :
             /\ REGIONS[k].lo \in Nat /\ REGIONS[k].hi \in Nat
             /\ REGIONS[k].lo < REGIONS[k].hi
        /\ REGIONS[n].hi = ImageSize
        /\ \A k \in 1 .. n - 1 : REGIONS[k].hi = REGIONS[k + 1].lo
    BY <1>1, RegionTypes
  <1>3. ASSUME i # n PROVE \A k \in i + 1 .. n : k \in T
    <2>1. i \in 1 .. n - 1 /\ i + 1 \in 1 .. n /\ i + 1 \in Int /\ n \in Int
      BY <1>2, <1>3
    <2>2. i + 1 \in T
      <3>1. REGIONS[i].hi = REGIONS[i + 1].lo /\ REGIONS[i].hi \in Nat
        BY <1>2, <2>1
      <3> QED BY <1>1, <2>1, <3>1
    <2>3. ASSUME NEW k \in i + 1 .. n - 1, k \in T PROVE k + 1 \in T
      <3>1. k \in 1 .. n - 1 /\ k \in 1 .. n /\ k + 1 \in 1 .. n
        BY <2>1
      <3>2. REGIONS[k].hi = REGIONS[k + 1].lo /\ REGIONS[k].lo < REGIONS[k].hi
            /\ REGIONS[k].lo \in Nat /\ REGIONS[k].hi \in Nat
            /\ REGIONS[i].hi \in Nat
        BY <1>2, <3>1
      <3>3. REGIONS[i].hi <= REGIONS[k].lo
        BY <2>3
      <3>4. REGIONS[i].hi <= REGIONS[k + 1].lo
        BY <3>2, <3>3
      <3> QED BY <1>1, <3>1, <3>4
    <2> HIDE DEF T
    <2>4. \A k \in i + 1 .. n - 1 : k \in T => k + 1 \in T
      BY <2>3
    <2> QED BY ONLY <2>1, <2>2, <2>4, Upto
  <1>4. \A k \in i + 1 .. n : REGIONS[i].hi <= REGIONS[k].lo
    <2>1. CASE i = n
      BY <2>1
    <2>2. CASE i # n
      BY <1>3, <2>2
    <2> QED BY <2>1, <2>2
  <1>5. REGIONS[i].hi <= ImageSize
    <2>1. CASE i = n
      BY <1>2, <2>1
    <2>2. CASE i # n
      <3>1. n \in i + 1 .. n /\ n \in 1 .. n
        BY <1>2, <2>2
      <3>2. REGIONS[i].hi <= REGIONS[n].lo /\ REGIONS[n].lo < REGIONS[n].hi
            /\ REGIONS[n].lo \in Nat /\ REGIONS[n].hi \in Nat
            /\ REGIONS[i].hi \in Nat
        BY <1>2, <1>4, <3>1
      <3> QED BY <1>2, <3>2
    <2> QED BY <2>1, <2>2
  <1> QED BY <1>1, <1>4, <1>5

\* Every address is in one region, and region_of finds it.
LEMMA RegionOf ==
  ASSUME BanksTypeOK, NEW a \in At
  PROVE  /\ \E i \in DOMAIN REGIONS : a \in Reg(i)
         /\ \A i, k \in DOMAIN REGIONS : a \in Reg(i) /\ a \in Reg(k) => i = k
         /\ \A i \in DOMAIN REGIONS : region_of(a) = i <=> a \in Reg(i)
  <1>1. PICK n \in Nat \ {0} : n = Len(REGIONS)
    BY RegionTypes
  <1>2. /\ DOMAIN REGIONS = 1 .. n
        /\ \A k \in 1 .. n :
             /\ REGIONS[k].lo \in Nat /\ REGIONS[k].hi \in Nat
             /\ REGIONS[k].lo < REGIONS[k].hi
        /\ REGIONS[1].lo = 0 /\ REGIONS[n].hi = ImageSize
        /\ \A k \in 1 .. n - 1 : REGIONS[k].hi = REGIONS[k + 1].lo
    BY <1>1, RegionTypes
  <1>3. a \in Nat /\ a < ImageSize /\ ImageSize \in Nat
    BY BanksAssumption DEF At
  <1>4. \E i \in 1 .. n : a \in Reg(i)
    <2> DEFINE T == {i \in 1 .. n : a < REGIONS[i].hi}
    <2>1. T \subseteq Nat /\ T # {}
      <3>1. n \in T
        BY <1>2, <1>3
      <3> QED BY <3>1
    <2>2. PICK i \in T : \A k \in T : i <= k
      <3> HIDE DEF T
      <3> QED BY <2>1, Least
    <2>3. i \in 1 .. n /\ a < REGIONS[i].hi /\ REGIONS[i].hi \in Nat
          /\ REGIONS[i].lo \in Nat
      BY <1>2
    <2>4. REGIONS[i].lo <= a
      <3>1. CASE i = 1
        BY <1>2, <1>3, <3>1
      <3>2. CASE i # 1
        <4>1. PICK k \in 1 .. n - 1 : k = i - 1 /\ k + 1 = i
          BY <2>3, <3>2
        <4>2. k \notin T /\ k \in 1 .. n
          BY <2>2, <4>1
        <4>3. ~(a < REGIONS[k].hi) /\ REGIONS[k].hi \in Nat
          BY <1>2, <4>2
        <4>4. REGIONS[k].hi = REGIONS[i].lo
          BY <1>2, <4>1
        <4> QED BY <1>3, <4>3, <4>4
      <3> QED BY <3>1, <3>2
    <2> QED BY <1>3, <2>3, <2>4 DEF Reg
  <1>5. ASSUME NEW i \in 1 .. n, NEW k \in 1 .. n, a \in Reg(i), a \in Reg(k), i < k
        PROVE  FALSE
    <2>1. k \in i + 1 .. n
      BY <1>5
    <2>2. REGIONS[i].hi <= REGIONS[k].lo
      BY <1>1, <1>2, <2>1, RegionOrder
    <2>3. /\ REGIONS[i].hi \in Nat /\ REGIONS[k].lo \in Nat
          /\ a < REGIONS[i].hi /\ REGIONS[k].lo <= a
      BY <1>2, <1>5 DEF Reg
    <2> QED BY <1>3, <2>2, <2>3
  <1>6. \A i, k \in 1 .. n : a \in Reg(i) /\ a \in Reg(k) => i = k
    <2> TAKE i, k \in 1 .. n
    <2>1. i < k \/ k < i \/ i = k
      OBVIOUS
    <2> QED BY <1>5, <2>1
  <1>7. region_of(a) = CHOOSE i \in 1 .. n : a \in Reg(i)
    BY <1>2 DEF region_of, Reg
  <1>8. region_of(a) \in 1 .. n /\ a \in Reg(region_of(a))
    <2> HIDE DEF Reg
    <2> QED BY <1>4, <1>7
  <1> QED BY <1>2, <1>4, <1>6, <1>8

-----------------------------------------------------------------------------
(* Lines *)

\* The address of line k, and of what follows the last line.
LineAt(k) == IF k = Len(addr) + 1 THEN ImageSize ELSE addr[k]

\* What a listing is, in terms of LineAt.
LEMMA LineFacts ==
  ASSUME BanksTypeOK
  PROVE  /\ Len(addr) \in Nat \ {0} /\ DOMAIN addr = 1 .. Len(addr)
         /\ DOMAIN lines = 1 .. Len(addr)
         /\ LineAt(1) = 0 /\ LineAt(Len(addr) + 1) = ImageSize
         /\ \A k \in 1 .. Len(addr) : addr[k] = LineAt(k)
         /\ \A k \in 1 .. Len(addr) : NextAddr(k) = LineAt(k + 1)
         /\ \A k \in 1 .. Len(addr) + 1 :
              LineAt(k) \in Nat /\ LineAt(k) <= ImageSize
         /\ \A k \in 1 .. Len(addr) : LineAt(k) <= LineAt(k + 1)
  <1>1. /\ addr \in Seq(0 .. ImageSize) /\ addr # <<>> /\ addr[1] = 0
        /\ \A i \in 1 .. Len(addr) - 1 : addr[i] <= addr[i + 1]
        /\ ImageSize \in Nat
    BY BanksAssumption DEF BanksTypeOK
  <1>2. PICK n \in Nat \ {0} : n = Len(addr)
    BY <1>1
  <1>3. DOMAIN addr = 1 .. n /\ \A k \in 1 .. n : addr[k] \in 0 .. ImageSize
    BY <1>1, <1>2
  <1>4. \A k \in 1 .. n : k # n + 1 /\ LineAt(k) = addr[k]
    BY <1>2 DEF LineAt
  <1>5. LineAt(n + 1) = ImageSize
    BY <1>2 DEF LineAt
  <1>6. \A k \in 1 .. n : NextAddr(k) = LineAt(k + 1)
    <2> TAKE k \in 1 .. n
    <2>1. CASE k = n
      BY <1>2, <1>5, <2>1 DEF NextAddr
    <2>2. CASE k # n
      <3>1. k + 1 \in 1 .. n
        BY <2>2
      <3> QED BY <1>2, <1>4, <2>2, <3>1 DEF NextAddr
    <2> QED BY <2>1, <2>2
  <1>7. \A k \in 1 .. n + 1 : LineAt(k) \in Nat /\ LineAt(k) <= ImageSize
    <2> TAKE k \in 1 .. n + 1
    <2>1. k \in 1 .. n \/ k = n + 1
      OBVIOUS
    <2> QED BY <1>1, <1>3, <1>4, <1>5, <2>1
  <1>8. \A k \in 1 .. n : LineAt(k) <= LineAt(k + 1)
    <2> TAKE k \in 1 .. n
    <2>1. CASE k = n
      <3>1. LineAt(k) \in 0 .. ImageSize
        BY <1>3, <1>4
      <3> QED BY <1>1, <1>5, <2>1, <3>1
    <2>2. CASE k # n
      <3>1. k + 1 \in 1 .. n /\ k \in 1 .. n - 1
        BY <2>2
      <3> QED BY <1>1, <1>2, <1>4, <3>1
    <2> QED BY <2>1, <2>2
  <1>9. DOMAIN lines = 1 .. n /\ 1 \in 1 .. n
    BY <1>2 DEF BanksTypeOK
  <1> QED BY <1>1, <1>2, <1>3, <1>4, <1>5, <1>6, <1>7, <1>8, <1>9

\* Later lines are at later addresses.
LEMMA LinesSorted ==
  ASSUME BanksTypeOK, NEW j \in 1 .. Len(addr) + 1
  PROVE  \A k \in j .. Len(addr) + 1 : LineAt(j) <= LineAt(k)
  <1>1. PICK n \in Nat \ {0} : n = Len(addr)
    BY LineFacts
  <1>2. /\ \A k \in 1 .. n + 1 : LineAt(k) \in Nat
        /\ \A k \in 1 .. n : LineAt(k) <= LineAt(k + 1)
        /\ j \in 1 .. n + 1
    BY <1>1, LineFacts
  <1> DEFINE T == {k \in 1 .. n + 1 : LineAt(j) <= LineAt(k)}
  <1>3. j \in T
    BY <1>2
  <1>4. ASSUME NEW k \in j .. (n + 1) - 1, k \in T PROVE k + 1 \in T
    <2>1. k \in 1 .. n /\ k \in 1 .. n + 1 /\ k + 1 \in 1 .. n + 1
      BY <1>2
    <2>2. LineAt(j) <= LineAt(k) /\ LineAt(k) <= LineAt(k + 1)
          /\ LineAt(j) \in Nat /\ LineAt(k) \in Nat /\ LineAt(k + 1) \in Nat
      BY <1>2, <1>4, <2>1
    <2>3. LineAt(j) <= LineAt(k + 1)
      BY <2>2
    <2> QED BY <2>1, <2>3
  <1> HIDE DEF T
  <1>5. \A k \in j .. n + 1 : k \in T
    <2>1. j \in Int /\ n + 1 \in Int
      BY <1>2
    <2>2. \A k \in j .. (n + 1) - 1 : k \in T => k + 1 \in T
      BY <1>4
    <2> QED BY ONLY <1>3, <2>1, <2>2, Upto
  <1> QED BY <1>1, <1>5 DEF T

\* The bytes of a line in the cartridge.
LEMMA OriginalFacts ==
  ASSUME BanksTypeOK, NEW k \in 1 .. Len(addr)
  PROVE  /\ Original(k) \in Seq(Int)
         /\ Len(Original(k)) = LineAt(k + 1) - LineAt(k)
         /\ \A j \in 1 .. Len(Original(k)) : Original(k)[j] = LineAt(k) + j - 1
  <1> DEFINE m == LineAt(k + 1) - LineAt(k)
  <1>1. k + 1 \in 1 .. Len(addr) + 1 /\ k \in 1 .. Len(addr) + 1
    BY LineFacts
  <1>2. LineAt(k) \in Nat /\ LineAt(k + 1) \in Nat /\ LineAt(k) <= LineAt(k + 1)
    BY <1>1, LineFacts
  <1>3. m \in Nat
    BY <1>2
  <1>4. Original(k) = [j \in 1 .. m |-> LineAt(k) + j - 1]
    BY LineFacts DEF Original
  <1> HIDE DEF m
  <1>5. \A j \in 1 .. m : LineAt(k) + j - 1 \in Int
    BY <1>2
  <1>6. Original(k) \in Seq(Int) /\ Len(Original(k)) = m
    BY <1>3, <1>4, <1>5
  <1> QED BY <1>4, <1>6 DEF m

-----------------------------------------------------------------------------
(* Where the lines of a region end up *)

\* The first line at an edge, or what follows the last line.
First(f, e) == /\ f \in 1 .. Len(addr) + 1 /\ LineAt(f) = e
               /\ \A k \in 1 .. f - 1 : LineAt(k) < e

\* Every edge of a region has a first line.
LEMMA EdgeLine ==
  ASSUME BanksTypeOK, EdgesOK, NEW i \in DOMAIN REGIONS,
         NEW e \in {REGIONS[i].lo, REGIONS[i].hi}
  PROVE  \E f : First(f, e)
  <1>1. PICK n \in Nat \ {0} : n = Len(addr)
    BY LineFacts
  <1>2. e \in {0, ImageSize} \cup Range(addr)
    BY DEF EdgesOK
  <1>3. \E k \in 1 .. n + 1 : LineAt(k) = e
    <2>1. CASE e = 0
      BY <1>1, <2>1, LineFacts
    <2>2. CASE e = ImageSize
      BY <1>1, <2>2, LineFacts
    <2>3. CASE e \in Range(addr)
      <3>1. PICK k \in 1 .. n : addr[k] = e
        BY <1>1, <2>3, LineFacts DEF Range
      <3>2. LineAt(k) = e /\ k \in 1 .. n + 1
        BY <1>1, <3>1, LineFacts
      <3> QED BY <3>2
    <2> QED BY <1>2, <2>1, <2>2, <2>3
  <1> DEFINE T == {k \in 1 .. n + 1 : LineAt(k) = e}
  <1>4. T \subseteq Nat /\ T # {}
    BY <1>3
  <1>5. PICK f \in T : \A k \in T : f <= k
    <2> HIDE DEF T
    <2> QED BY <1>4, Least
  <1>6. f \in 1 .. n + 1 /\ LineAt(f) = e
    BY <1>5
  <1>7. ASSUME NEW k \in 1 .. f - 1 PROVE LineAt(k) < e
    <2>1. k \in 1 .. n + 1 /\ f \in k .. n + 1 /\ ~(f <= k)
      BY <1>6
    <2>2. k \notin T
      BY <1>5, <2>1
    <2>3. LineAt(k) # e
      BY <2>1, <2>2
    <2>4. LineAt(k) <= LineAt(f)
      BY <1>1, <2>1, LinesSorted
    <2>5. LineAt(k) \in Nat /\ LineAt(f) \in Nat
      BY <1>1, <1>6, <2>1, LineFacts
    <2> QED BY <1>6, <2>3, <2>4, <2>5
  <1> QED BY <1>1, <1>6, <1>7 DEF First

\* What region i gets is the stretch of the source from the first line at its
\* lower edge to the first line at its upper edge.
LEMMA BucketIsStretch ==
  ASSUME BanksTypeOK, NEW i \in DOMAIN REGIONS, NEW p,
         Filed(Emitted, lines, Len(addr), p),
         NEW f, First(f, REGIONS[i].lo), NEW g, First(g, REGIONS[i].hi)
  PROVE  /\ Len(Bucket(i)) = p[g - 1] - p[f - 1]
         /\ \A x \in 1 .. Len(Bucket(i)) : Bucket(i)[x] = source[p[f - 1] + x]
  <1>1. PICK n \in Nat \ {0} : n = Len(addr)
    BY LineFacts
  <1>2. PICK lo \in Nat, hi \in Nat : /\ lo = REGIONS[i].lo /\ hi = REGIONS[i].hi
                                      /\ lo < hi
    BY RegionTypes
  <1>3. /\ f \in 1 .. n + 1 /\ LineAt(f) = lo
        /\ \A k \in 1 .. f - 1 : LineAt(k) < lo
        /\ g \in 1 .. n + 1 /\ LineAt(g) = hi
        /\ \A k \in 1 .. g - 1 : LineAt(k) < hi
    BY <1>1, <1>2 DEF First
  <1>4. g \in f .. n + 1
    <2>1. ASSUME g < f PROVE FALSE
      <3>1. g \in 1 .. f - 1
        BY <1>3, <2>1
      <3> QED BY <1>2, <1>3, <3>1
    <2> QED BY <1>3, <2>1
  <1>5. ASSUME NEW k \in 1 .. n
        PROVE  (addr[k] \in At /\ region_of(addr[k]) = i) <=> k \in f .. g - 1
    <2>1. PICK a \in Nat : a = addr[k] /\ a = LineAt(k)
      <3>1. k \in 1 .. n + 1
        OBVIOUS
      <3> QED BY <1>1, <3>1, LineFacts
    <2>2. hi <= ImageSize /\ ImageSize \in Nat
      BY <1>2, RegionOrder, BanksAssumption
    <2>3. ASSUME k \in f .. g - 1 PROVE a \in At /\ a \in Reg(i)
      <3>1. k \in f .. n + 1 /\ k \in 1 .. g - 1
        BY <1>3, <1>4, <2>3
      <3>2. LineAt(f) <= LineAt(k)
        BY <1>1, <1>3, <3>1, LinesSorted
      <3>3. a < hi /\ lo <= a
        BY <1>3, <2>1, <3>1, <3>2
      <3>4. a \in lo .. hi - 1 /\ a \in 0 .. ImageSize - 1
        BY <1>2, <2>1, <2>2, <3>3
      <3> QED BY <1>2, <3>4 DEF At, Reg
    <2>4. ASSUME a \in At, a \in Reg(i) PROVE k \in f .. g - 1
      <3>1. lo <= a /\ a < hi
        BY <1>2, <2>1, <2>4 DEF Reg
      <3>2. ~(k < f)
        <4>1. ASSUME k < f PROVE FALSE
          <5>1. k \in 1 .. f - 1
            BY <1>3, <4>1
          <5>2. a < lo
            BY <1>3, <2>1, <5>1
          <5> QED BY <1>2, <2>1, <3>1, <5>2
        <4> QED BY <4>1
      <3>3. k < g
        <4>1. ASSUME ~(k < g) PROVE FALSE
          <5>1. k \in g .. n + 1
            BY <1>3, <4>1
          <5>2. LineAt(g) <= LineAt(k)
            BY <1>1, <1>3, <5>1, LinesSorted
          <5> QED BY <1>2, <1>3, <2>1, <3>1, <5>2
        <4> QED BY <4>1
      <3> QED BY <1>3, <3>2, <3>3
    <2>5. a \in At => (region_of(a) = i <=> a \in Reg(i))
      BY RegionOf
    <2> QED BY <2>1, <2>3, <2>4, <2>5
  <1>6. Bucket(i) = FlattenSeq(Masked(lines, n, f, g))
    <2>1. DOMAIN lines = 1 .. n
      BY <1>1, LineFacts
    <2>2. [k \in 1 .. n |-> IF addr[k] \in At /\ region_of(addr[k]) = i
                            THEN lines[k] ELSE <<>>]
          = [k \in 1 .. n |-> IF k \in f .. g - 1 THEN lines[k] ELSE <<>>]
      BY <1>5
    <2> QED BY <2>1, <2>2 DEF Bucket, Masked
  <1>7. lines \in [1 .. n -> Seq(Emitted)] /\ Filed(Emitted, lines, n, p)
        /\ f \in 1 .. n + 1 /\ n \in Nat
    BY <1>1, <1>3 DEF BanksTypeOK
  <1>8. PICK ts : ts = Masked(lines, n, f, g)
    OBVIOUS
  <1>9. Cut(lines, ts, p, f, g)
    BY ONLY <1>4, <1>7, <1>8, FlattenStretch
  <1>10. Bucket(i) = FlattenSeq(ts)
    BY <1>6, <1>8
  <1> QED BY <1>9, <1>10 DEF source, Cut

\* Lines that are as they were keep their distance from the cartridge.
LEMMA Shift ==
  ASSUME BanksTypeOK, NEW p, Filed(Emitted, lines, Len(addr), p),
         NEW j \in 1 .. Len(addr) + 1, NEW k \in j .. Len(addr) + 1,
         \A i \in j .. k - 1 : lines[i] = Original(i)
  PROVE  p[k - 1] - LineAt(k) = p[j - 1] - LineAt(j)
  <1>1. PICK n \in Nat \ {0} : n = Len(addr)
    BY LineFacts
  <1>2. /\ \A i \in 1 .. n + 1 : LineAt(i) \in Nat
        /\ j \in 1 .. n + 1 /\ k \in j .. n + 1
    BY <1>1, LineFacts
  <1>3. /\ p \in [0 .. n -> Nat]
        /\ \A i \in 1 .. n : p[i] = p[i - 1] + Len(lines[i])
    BY <1>1 DEF Filed, Offsets
  <1> DEFINE T == {i \in 1 .. n + 1 : p[i - 1] - LineAt(i) = p[j - 1] - LineAt(j)}
  <1>4. j \in T
    BY <1>2
  <1>5. ASSUME NEW i \in j .. k - 1, i \in T PROVE i + 1 \in T
    <2>1. i \in 1 .. n /\ i \in 1 .. n + 1 /\ i + 1 \in 1 .. n + 1
          /\ i - 1 \in 0 .. n /\ i \in 0 .. n /\ j - 1 \in 0 .. n
      BY <1>2
    <2>2. Len(lines[i]) = LineAt(i + 1) - LineAt(i)
      BY <1>1, <2>1, OriginalFacts
    <2>3. p[i] = p[i - 1] + Len(lines[i])
      BY <1>3, <2>1
    <2>4. p[i - 1] - LineAt(i) = p[j - 1] - LineAt(j)
      BY <1>5
    <2>5. /\ LineAt(i) \in Nat /\ LineAt(i + 1) \in Nat /\ LineAt(j) \in Nat
          /\ p[i - 1] \in Nat /\ p[j - 1] \in Nat /\ (i + 1) - 1 = i
      BY <1>2, <1>3, <2>1
    <2>6. p[i] - LineAt(i + 1) = p[j - 1] - LineAt(j)
      BY <2>2, <2>3, <2>4, <2>5
    <2> QED BY <2>1, <2>5, <2>6
  <1>6. k \in T
    <2> HIDE DEF T
    <2>1. j \in Int /\ k \in Int /\ k \in j .. k
      BY <1>2
    <2>2. \A i \in j .. k - 1 : i \in T => i + 1 \in T
      BY <1>5
    <2> QED BY ONLY <1>4, <2>1, <2>2, Upto
  <1> QED BY <1>6

\* Every line that a patch has changed starts in region r.
Local(r) == \A k \in 1 .. Len(addr) : lines[k] # Original(k) => LineAt(k) \in Reg(r)

\* Then what is before the region has not moved, and what is behind it has by
\* as much as the source has grown.
LEMMA EdgeOffset ==
  ASSUME BanksTypeOK, NEW p, Filed(Emitted, lines, Len(addr), p),
         NEW r \in DOMAIN REGIONS, Local(r),
         NEW e \in Nat, NEW f, First(f, e)
  PROVE  /\ e <= REGIONS[r].lo => p[f - 1] = e
         /\ e >= REGIONS[r].hi => p[f - 1] = e + p[Len(addr)] - ImageSize
  <1>1. PICK n \in Nat \ {0} : n = Len(addr)
    BY LineFacts
  <1>2. PICK lo \in Nat, hi \in Nat : /\ lo = REGIONS[r].lo /\ hi = REGIONS[r].hi
                                      /\ lo < hi
    BY RegionTypes
  <1>3. /\ f \in 1 .. n + 1 /\ LineAt(f) = e
        /\ \A k \in 1 .. f - 1 : LineAt(k) < e
    BY <1>1 DEF First
  <1>4. \A k \in 1 .. n + 1 : LineAt(k) \in Nat
    BY <1>1, LineFacts
  <1>5. \A k \in 1 .. n : ~(lo <= LineAt(k) /\ LineAt(k) < hi)
                            => lines[k] = Original(k)
    <2> TAKE k \in 1 .. n
    <2>1. k \in 1 .. n + 1
      OBVIOUS
    <2> QED BY <1>1, <1>2, <1>4, <2>1 DEF Local, Reg
  <1>6. p \in [0 .. n -> Nat] /\ p[0] = 0
    BY <1>1 DEF Filed, Offsets
  <1>7. /\ LineAt(1) = 0 /\ LineAt(n + 1) = ImageSize
        /\ 1 \in 1 .. n + 1 /\ n + 1 \in 1 .. n + 1 /\ ImageSize \in Nat
    BY <1>1, LineFacts, BanksAssumption
  <1>8. ASSUME e <= lo PROVE p[f - 1] = e
    <2>1. \A k \in 1 .. f - 1 : lines[k] = Original(k)
      <3> TAKE k \in 1 .. f - 1
      <3>1. k \in 1 .. n /\ k \in 1 .. n + 1
        BY <1>3
      <3>2. LineAt(k) < e /\ LineAt(k) \in Nat
        BY <1>3, <1>4, <3>1
      <3> QED BY <1>2, <1>5, <1>8, <3>1, <3>2
    <2>2. p[f - 1] - LineAt(f) = p[1 - 1] - LineAt(1)
      BY <1>1, <1>3, <1>7, <2>1, Shift
    <2>3. p[f - 1] \in Nat /\ 1 - 1 = 0
      <3>1. f - 1 \in 0 .. n
        BY <1>3
      <3> QED BY <1>6, <3>1
    <2> QED BY <1>3, <1>6, <1>7, <2>2, <2>3
  <1>9. ASSUME e >= hi PROVE p[f - 1] = e + p[n] - ImageSize
    <2>1. \A k \in f .. (n + 1) - 1 : lines[k] = Original(k)
      <3> TAKE k \in f .. (n + 1) - 1
      <3>1. k \in 1 .. n /\ k \in 1 .. n + 1 /\ k \in f .. n + 1
        BY <1>3
      <3>2. LineAt(f) <= LineAt(k) /\ LineAt(k) \in Nat
        BY <1>1, <1>3, <1>4, <3>1, LinesSorted
      <3> QED BY <1>2, <1>3, <1>5, <1>9, <3>1, <3>2
    <2>2. p[(n + 1) - 1] - LineAt(n + 1) = p[f - 1] - LineAt(f)
      <3>1. n + 1 \in f .. n + 1
        BY <1>3
      <3> QED BY <1>1, <1>3, <2>1, <3>1, Shift
    <2>3. p[f - 1] \in Nat /\ p[n] \in Nat /\ (n + 1) - 1 = n
      <3>1. f - 1 \in 0 .. n /\ n \in 0 .. n
        BY <1>3
      <3> QED BY <1>6, <3>1
    <2> QED BY <1>3, <1>7, <2>2, <2>3
  <1> QED BY <1>1, <1>2, <1>8, <1>9

\* What the regions get: each what it had, and region r the growth as well.
LEMMA RegionGets ==
  ASSUME BanksTypeOK, EdgesOK, NEW r \in DOMAIN REGIONS, Local(r),
         NEW i \in DOMAIN REGIONS
  PROVE  /\ i # r => Len(Bucket(i)) = REGIONS[i].hi - REGIONS[i].lo
         /\ i = r => Len(Bucket(i)) = REGIONS[i].hi - REGIONS[i].lo
                                      + Len(source) - ImageSize
         /\ i = r \/ Len(source) = ImageSize =>
              \A x \in 1 .. Len(Bucket(i)) :
                Bucket(i)[x] = source[REGIONS[i].lo + x]
  <1>1. PICK n \in Nat \ {0} : n = Len(addr)
    BY LineFacts
  <1>2. PICK p : Filed(Emitted, lines, n, p)
    <2>1. lines \in [1 .. n -> Seq(Emitted)] /\ n \in Nat
      BY <1>1 DEF BanksTypeOK
    <2> QED BY <2>1, Flattened
  <1>3. p[n] \in Nat /\ Len(source) = p[n]
    BY <1>1, <1>2 DEF Filed, Offsets, source
  <1>4. PICK lo \in Nat, hi \in Nat : /\ lo = REGIONS[i].lo /\ hi = REGIONS[i].hi
                                      /\ lo < hi
    BY RegionTypes
  <1>5. PICK rlo \in Nat, rhi \in Nat :
          /\ rlo = REGIONS[r].lo /\ rhi = REGIONS[r].hi /\ rlo < rhi
    BY RegionTypes
  <1>6. PICK f : First(f, lo)
    BY <1>4, EdgeLine
  <1>7. PICK g : First(g, hi)
    BY <1>4, EdgeLine
  <1>8. /\ Len(Bucket(i)) = p[g - 1] - p[f - 1]
        /\ \A x \in 1 .. Len(Bucket(i)) : Bucket(i)[x] = source[p[f - 1] + x]
    BY <1>1, <1>2, <1>4, <1>6, <1>7, BucketIsStretch
  <1>9. /\ lo <= rlo => p[f - 1] = lo
        /\ lo >= rhi => p[f - 1] = lo + p[n] - ImageSize
    BY <1>1, <1>2, <1>5, <1>6, EdgeOffset
  <1>10. /\ hi <= rlo => p[g - 1] = hi
         /\ hi >= rhi => p[g - 1] = hi + p[n] - ImageSize
    BY <1>1, <1>2, <1>5, <1>7, EdgeOffset
  <1>11. ImageSize \in Nat
    BY BanksAssumption
  <1>12. CASE i = r
    <2>1. lo = rlo /\ hi = rhi
      BY <1>4, <1>5, <1>12
    <2>2. p[f - 1] = lo /\ p[g - 1] = hi + p[n] - ImageSize
      BY <1>9, <1>10, <2>1
    <2>3. Len(Bucket(i)) = hi - lo + p[n] - ImageSize
      <3>1. Len(Bucket(i)) = (hi + p[n] - ImageSize) - lo
        BY <1>8, <2>2
      <3>2. hi \in Int /\ lo \in Int /\ p[n] \in Int /\ ImageSize \in Int
        BY <1>3, <1>11
      <3> QED BY ONLY <3>1, <3>2
    <2>4. \A x \in 1 .. Len(Bucket(i)) : Bucket(i)[x] = source[lo + x]
      BY <1>8, <2>2
    <2> QED BY <1>3, <1>4, <1>12, <2>3, <2>4
  <1>13. CASE i # r
    <2>1. hi <= rlo \/ rhi <= lo
      <3>1. i \in 1 .. Len(REGIONS) /\ r \in 1 .. Len(REGIONS)
            /\ Len(REGIONS) \in Nat
        BY RegionTypes
      <3>2. r \in i + 1 .. Len(REGIONS) \/ i \in r + 1 .. Len(REGIONS)
        BY <1>13, <3>1
      <3> QED BY <1>4, <1>5, <3>2, RegionOrder
    <2>2. CASE hi <= rlo
      <3>1. p[f - 1] = lo /\ p[g - 1] = hi
        BY <1>4, <1>5, <1>9, <1>10, <2>2
      <3> QED BY <1>3, <1>4, <1>8, <1>11, <1>13, <3>1
    <2>3. CASE rhi <= lo
      <3>1. /\ p[f - 1] = lo + p[n] - ImageSize
            /\ p[g - 1] = hi + p[n] - ImageSize
        BY <1>4, <1>5, <1>9, <1>10, <2>3
      <3>2. Len(Bucket(i)) = hi - lo
        BY <1>3, <1>4, <1>8, <1>11, <3>1
      <3>3. p[n] = ImageSize => p[f - 1] = lo
        BY <1>4, <1>11, <3>1
      <3> QED BY <1>3, <1>4, <1>8, <1>13, <3>2, <3>3
    <2> QED BY <2>1, <2>2, <2>3
  <1> QED BY <1>12, <1>13

-----------------------------------------------------------------------------
(* What the banks hold *)

\* A byte of region i that no other region runs into.
LEMMA OwnCell ==
  ASSUME BanksTypeOK, NEW i \in DOMAIN REGIONS, NEW a \in Reg(i), NEW b \in Copies(i),
         \A k \in DOMAIN REGIONS : k # i => a \notin Extent(k)
  PROVE  Assembled(b)[a] =
           IF a \in Extent(i) THEN Bucket(i)[a - REGIONS[i].lo + 1] ELSE Filler
  <1>1. a \in At
    <2>1. REGIONS[i].lo \in Nat /\ REGIONS[i].hi \in Nat
          /\ REGIONS[i].hi <= ImageSize /\ ImageSize \in Nat
      BY RegionTypes, RegionOrder, BanksAssumption
    <2> QED BY <2>1 DEF Reg, At
  <1>2. Assembled(b)[a] = Cell(b, a)
    BY <1>1, CellIs
  <1>3. CASE a \in Extent(i)
    <2>1. Owners(b, a) = {i}
      BY <1>3 DEF Owners
    <2>2. LastIn({i}) = i
      <3>1. i <= i
        BY RegionTypes
      <3> QED BY <3>1 DEF LastIn
    <2>3. {i} # {}
      OBVIOUS
    <2> QED BY <1>2, <1>3, <2>1, <2>2, <2>3 DEF Cell
  <1>4. CASE a \notin Extent(i)
    <2>1. Owners(b, a) = {}
      BY <1>4 DEF Owners
    <2> QED BY <1>2, <1>4, <2>1 DEF Cell
  <1> QED BY <1>3, <1>4

\* With one region patched, the banks have the source's byte at an address of
\* that region as far as the source reaches; and at every other one as well if
\* the source has kept its size.
LEMMA BankByte ==
  ASSUME BanksTypeOK, EdgesOK, NEW r \in DOMAIN REGIONS, Local(r),
         built = [b \in Bank |-> Assembled(b)],
         NEW i \in DOMAIN REGIONS, i = r \/ Len(source) = ImageSize,
         NEW a \in Reg(i), NEW b \in Copies(i)
  PROVE  built[b][a] =
           IF i = r /\ a >= REGIONS[i].hi + Len(source) - ImageSize THEN Filler
           ELSE source[a + 1]
  <1>1. PICK lo \in Nat, hi \in Nat : /\ lo = REGIONS[i].lo /\ hi = REGIONS[i].hi
                                      /\ lo < hi
    BY RegionTypes
  <1>2. PICK s \in Nat : s = Len(source)
    <2>1. PICK n \in Nat : n = Len(addr)
      BY LineFacts
    <2>2. PICK p : Filed(Emitted, lines, n, p)
      <3>1. lines \in [1 .. n -> Seq(Emitted)] /\ n \in Nat
        BY <2>1 DEF BanksTypeOK
      <3> QED BY <3>1, Flattened
    <2> QED BY <2>1, <2>2 DEF Filed, Offsets, source
  <1>3. a \in Nat /\ lo <= a /\ a < hi /\ hi <= ImageSize /\ ImageSize \in Nat
    BY <1>1, RegionOrder, BanksAssumption DEF Reg
  <1>4. ASSUME NEW k \in DOMAIN REGIONS, k # i PROVE a \notin Extent(k)
    <2>1. a \in At
      BY <1>3 DEF At
    <2>2. a \notin Reg(k)
      BY <1>4, <2>1, RegionOf
    <2>3. Len(Bucket(k)) = REGIONS[k].hi - REGIONS[k].lo
      <3>1. CASE k = r
        <4>1. s = ImageSize
          BY <1>2, <1>4, <3>1
        <4>2. Len(Bucket(k)) = REGIONS[k].hi - REGIONS[k].lo + s - ImageSize
          BY <1>2, <3>1, RegionGets
        <4>3. REGIONS[k].hi \in Nat /\ REGIONS[k].lo \in Nat
          BY RegionTypes
        <4> QED BY <1>3, <4>1, <4>2, <4>3
      <3>2. CASE k # r
        BY <3>2, RegionGets
      <3> QED BY <3>1, <3>2
    <2>4. Extent(k) = Reg(k)
      <3>1. REGIONS[k].hi \in Nat /\ REGIONS[k].lo \in Nat
        BY RegionTypes
      <3> QED BY <2>3, <3>1 DEF Extent, Reg
    <2> QED BY <2>2, <2>4
  <1>5. built[b][a] = IF a \in Extent(i) THEN Bucket(i)[a - lo + 1] ELSE Filler
    <2>1. b \in Bank
      BY RegionTypes DEF Copies, Bank
    <2>2. built[b][a] = Assembled(b)[a]
      BY <2>1
    <2> QED BY <1>1, <1>4, <2>2, OwnCell
  <1>6. PICK m \in Int : /\ m = Len(Bucket(i))
                         /\ i # r => m = hi - lo
                         /\ i = r => m = hi - lo + s - ImageSize
    <2>1. CASE i = r
      BY <1>1, <1>2, <1>3, <2>1, RegionGets
    <2>2. CASE i # r
      BY <1>1, <2>2, RegionGets
    <2> QED BY <2>1, <2>2
  <1>7. \A x \in 1 .. m : Bucket(i)[x] = source[lo + x]
    BY <1>1, <1>6, RegionGets
  <1>8. a \in Extent(i) <=> a < lo + m
    <2>1. Extent(i) = lo .. lo + m - 1
      BY <1>1, <1>6 DEF Extent
    <2>2. lo \in Int /\ m \in Int /\ a \in Int /\ lo <= a
      BY <1>3
    <2>3. a \in lo .. lo + m - 1 <=> a < lo + m
      BY ONLY <2>2
    <2> QED BY <2>1, <2>3
  <1>9. a < lo + m => Bucket(i)[a - lo + 1] = source[a + 1]
    <2>1. ASSUME a < lo + m PROVE Bucket(i)[a - lo + 1] = source[a + 1]
      <3>1. /\ m \in Int /\ a \in Int /\ lo \in Int
            /\ lo <= a /\ a < lo + m
        BY <1>1, <1>3, <1>6, <2>1
      <3>2. a - lo + 1 \in 1 .. m /\ lo + (a - lo + 1) = a + 1
        BY ONLY <3>1
      <3>3. Bucket(i)[a - lo + 1] = source[lo + (a - lo + 1)]
        BY ONLY <1>7, <3>2
      <3> QED BY <3>2, <3>3
    <2> QED BY <2>1
  <1>10. a < lo + m <=> ~(i = r /\ a >= hi + s - ImageSize)
    <2>1. lo \in Int /\ hi \in Int /\ s \in Int /\ a \in Int /\ m \in Int
          /\ ImageSize \in Int /\ a < hi
      BY <1>3
    <2>2. CASE i = r
      <3>1. m = hi - lo + s - ImageSize
        BY <1>6, <2>2
      <3>2. a < lo + m <=> ~(a >= hi + s - ImageSize)
        BY ONLY <2>1, <3>1
      <3> QED BY <2>2, <3>2
    <2>3. CASE i # r
      <3>1. m = hi - lo
        BY <1>6, <2>3
      <3>2. a < lo + m
        BY ONLY <2>1, <3>1
      <3> QED BY <2>3, <3>2
    <2> QED BY <2>2, <2>3
  <1> QED BY <1>1, <1>2, <1>5, <1>8, <1>9, <1>10

\* So a source of the old size is where the cartridge has it.
LEMMA StayPut ==
  ASSUME BanksTypeOK, EdgesOK, NEW r \in DOMAIN REGIONS, Local(r),
         built = [b \in Bank |-> Assembled(b)], Len(source) = ImageSize
  PROVE  Placed
  <1> SUFFICES ASSUME NEW i \in DOMAIN REGIONS, NEW b \in Copies(i), NEW a \in Reg(i)
               PROVE  built[b][a] = source[a + 1]
    BY DEF Placed, Reg
  <1>1. ~(a >= REGIONS[i].hi + Len(source) - ImageSize)
    <2>1. REGIONS[i].hi \in Nat /\ REGIONS[i].lo \in Nat /\ ImageSize \in Nat
      BY RegionTypes, BanksAssumption
    <2>2. REGIONS[i].hi + Len(source) - ImageSize = REGIONS[i].hi
      BY <2>1
    <2>3. a \in Int /\ a <= REGIONS[i].hi - 1
      BY <2>1 DEF Reg
    <2> QED BY <2>1, <2>2, <2>3
  <1>2. built[b][a] =
          IF i = r /\ a >= REGIONS[i].hi + Len(source) - ImageSize THEN Filler
          ELSE source[a + 1]
    BY BankByte
  <1> QED BY <1>1, <1>2

-----------------------------------------------------------------------------
(* The three claims, from the invariant *)

\* The lines that are patched.
LEMMA PatchedLines ==
  ASSUME BanksTypeOK
  PROVE  patched = {k \in 1 .. Len(addr) : lines[k] # Original(k)}
  BY LineFacts DEF patched

\* One region has the patch if the patched lines start in it.
LEMMA OneRegionIsLocal ==
  ASSUME BanksTypeOK, NEW r \in DOMAIN REGIONS, {addr[k] : k \in patched} \subseteq Reg(r)
  PROVE  Local(r)
  BY PatchedLines, LineFacts DEF Local

\* What keeps its size moves nothing.
LEMMA StayPutMeans == BuildInv => BytesStayPut
  <1> SUFFICES ASSUME BuildInv, step = "fits", Len(source) = ImageSize,
                      InOneRegion({addr[i] : i \in patched} \cup aimed)
               PROVE  Placed
    BY DEF BytesStayPut
  <1>1. BanksTypeOK /\ EdgesOK /\ built = [b \in Bank |-> Assembled(b)]
    BY DEF BuildInv, BuiltOK
  <1>2. PICK r \in DOMAIN REGIONS : {addr[i] : i \in patched} \subseteq Reg(r)
    BY DEF InOneRegion, Reg
  <1> QED BY <1>1, <1>2, OneRegionIsLocal, StayPut

\* What differs then is what was declared, so the audit passes it.
LEMMA HonestMeans == BuildInv => HonestPatchPasses
  <1> SUFFICES ASSUME BuildInv, step = "rejected", Len(source) = ImageSize,
                      InOneRegion({addr[i] : i \in patched} \cup aimed),
                      declared = {a \in At : source[a + 1] # a}
               PROVE  FALSE
    BY DEF HonestPatchPasses
  <1>1. BanksTypeOK /\ EdgesOK /\ built = [b \in Bank |-> Assembled(b)] /\ ~Accepted
    BY DEF BuildInv, BuiltOK, AuditOK
  <1>2. PICK r \in DOMAIN REGIONS : {addr[i] : i \in patched} \subseteq Reg(r)
    BY DEF InOneRegion, Reg
  <1>3. Placed
    BY <1>1, <1>2, OneRegionIsLocal, StayPut
  <1>4. \A i \in DOMAIN REGIONS : \E b \in Bank : b \in Copies(i)
    BY <1>1, RegionTypes DEF Copies, Bank
  <1>5. changed = declared
    <2>1. ASSUME NEW a \in changed PROVE a \in declared
      BY <1>3 DEF changed, Placed
    <2>2. ASSUME NEW a \in declared PROVE a \in changed
      <3>1. PICK i \in DOMAIN REGIONS : a \in Reg(i)
        BY <1>1, RegionOf
      <3>2. PICK b \in Copies(i) : TRUE
        BY <1>4
      <3>3. built[b][a] = source[a + 1]
        BY <1>3, <3>1 DEF Placed, Reg
      <3> QED BY <3>1, <3>3 DEF changed, Reg
    <2> QED BY <2>1, <2>2
  <1>6. Accepted
    BY <1>5 DEF Accepted
  <1> QED BY <1>1, <1>6

\* A changed line that held nothing is the first of its patch, and shares its
\* address with the first of the lines that did: all are aimed at.
LEMMA PatchedAimed ==
  ASSUME BanksTypeOK, NEW f \in 1 .. Len(addr), NEW g \in f + 1 .. Len(addr) + 1,
         Stretch(f, g), aimed # {}, NEW k \in patched
  PROVE  LineAt(k) \in aimed
  <1>1. PICK n \in Nat \ {0} : n = Len(addr)
    BY LineFacts
  <1>2. /\ \A j \in 1 .. n + 1 : LineAt(j) \in Nat
        /\ \A j \in 1 .. n : LineAt(j) <= LineAt(j + 1)
        /\ f \in 1 .. n /\ g \in f + 1 .. n + 1
    BY <1>1, LineFacts
  <1>3. patched = {j \in 1 .. n : lines[j] # Original(j)}
    BY <1>1, PatchedLines
  <1>4. \A j \in patched : j \in f .. g - 1
    BY <1>1, <1>3 DEF Stretch
  <1>5. \A j \in patched : \A a :
          a \in LineAt(j) .. LineAt(j + 1) - 1 => a \in aimed
    <2>1. \A j \in patched : addr[j] = LineAt(j) /\ NextAddr(j) = LineAt(j + 1)
      BY <1>1, <1>3, LineFacts
    <2> QED BY <2>1 DEF aimed
  <1>6. \A j \in 1 .. n : /\ Original(j) \in Seq(Int)
                          /\ Len(Original(j)) = LineAt(j + 1) - LineAt(j)
    BY <1>1, OriginalFacts
  <1>7. \A j \in patched : LineAt(j) < LineAt(j + 1) => LineAt(j) \in aimed
    <2> TAKE j \in patched
    <2>1. j \in 1 .. n /\ j \in 1 .. n + 1 /\ j + 1 \in 1 .. n + 1
      BY <1>3
    <2>2. LineAt(j) \in Nat /\ LineAt(j + 1) \in Nat
      BY <1>2, <2>1
    <2> HAVE LineAt(j) < LineAt(j + 1)
    <2>3. LineAt(j) \in LineAt(j) .. LineAt(j + 1) - 1
      BY <2>2
    <2> QED BY <1>5, <2>3
  <1>8. CASE LineAt(k) < LineAt(k + 1)
    BY <1>7, <1>8
  <1>9. CASE ~(LineAt(k) < LineAt(k + 1))
    <2>1. k \in 1 .. n /\ k \in f .. g - 1 /\ k \in 1 .. n + 1 /\ k + 1 \in 1 .. n + 1
      BY <1>3, <1>4
    <2>2. LineAt(k + 1) = LineAt(k)
      BY <1>2, <1>9, <2>1
    <2>3. Original(k) = <<>>
      <3>1. Len(Original(k)) = 0 /\ Original(k) \in Seq(Int)
        BY <1>2, <1>6, <2>1, <2>2
      <3> QED BY <3>1
    <2>4. k = f
      <3>1. ASSUME k # f PROVE FALSE
        <4>1. k \in f + 1 .. g - 1
          BY <1>2, <2>1, <3>1
        <4> QED BY <1>3, <2>3, <4>1 DEF Stretch
      <3> QED BY <3>1
    <2> DEFINE T == {j \in f .. g - 1 : LineAt(j) < LineAt(j + 1)}
    <2>5. T \subseteq Nat /\ T # {}
      <3>1. PICK i \in patched : addr[i] .. NextAddr(i) - 1 # {}
        BY DEF aimed
      <3>2. i \in 1 .. n /\ i \in f .. g - 1
        BY <1>3, <1>4
      <3>3. LineAt(i) \in Nat /\ LineAt(i + 1) \in Nat
        BY <1>2, <3>2
      <3>4. LineAt(i) .. LineAt(i + 1) - 1 # {}
        BY <1>1, <3>1, <3>2, LineFacts
      <3>5. LineAt(i) < LineAt(i + 1)
        BY <3>3, <3>4
      <3>6. i \in T
        BY <3>2, <3>5
      <3>7. T \subseteq Nat
        BY <1>2
      <3> QED BY <3>6, <3>7
    <2>6. PICK m \in T : \A j \in T : m <= j
      <3> HIDE DEF T
      <3> QED BY <2>5, Least
    <2>7. m \in f .. g - 1 /\ LineAt(m) < LineAt(m + 1) /\ m \in 1 .. n
      BY <1>2, <2>6
    <2>8. m \in f + 1 .. g - 1
      BY <1>2, <1>9, <2>4, <2>7
    <2>9. m \in patched
      <3>1. lines[m] = <<>>
        BY <2>8 DEF Stretch
      <3>2. m \in 1 .. n + 1 /\ m + 1 \in 1 .. n + 1
        BY <2>7
      <3>3. LineAt(m) \in Nat /\ LineAt(m + 1) \in Nat
        BY <1>2, <3>2
      <3>4. Len(Original(m)) # 0
        BY <1>6, <2>7, <3>3
      <3>5. Len(<<>>) = 0
        OBVIOUS
      <3>6. lines[m] # Original(m)
        BY <3>1, <3>4, <3>5
      <3> QED BY <1>3, <2>7, <3>6
    <2> DEFINE U == {j \in 1 .. n + 1 : LineAt(j) = LineAt(f)}
    <2>10. m \in U
      <3>1. f \in U
        BY <1>2
      <3>2. ASSUME NEW j \in f .. m - 1, j \in U PROVE j + 1 \in U
        <4>1. j \in f .. g - 1 /\ j \in 1 .. n /\ j \in 1 .. n + 1
              /\ j + 1 \in 1 .. n + 1 /\ ~(m <= j)
          BY <1>2, <2>7
        <4>2. j \notin T
          BY <2>6, <4>1
        <4>3. ~(LineAt(j) < LineAt(j + 1))
          BY <4>1, <4>2
        <4>4. LineAt(j + 1) = LineAt(j)
          BY <1>2, <4>1, <4>3
        <4> QED BY <3>2, <4>1, <4>4
      <3> HIDE DEF U
      <3>3. f \in Int /\ m \in Int /\ m \in f .. m
        BY <1>2, <2>7
      <3>4. \A j \in f .. m - 1 : j \in U => j + 1 \in U
        BY <3>2
      <3> QED BY ONLY <3>1, <3>3, <3>4, Upto
    <2>11. LineAt(m) = LineAt(k)
      BY <2>4, <2>10
    <2> QED BY <1>7, <2>7, <2>9, <2>11
  <1> QED BY <1>8, <1>9

\* No byte before a line that follows the patch is that line's address.
LEMMA BytesBefore ==
  ASSUME BanksTypeOK, NEW f \in 1 .. Len(addr), NEW g \in f + 1 .. Len(addr) + 1,
         Stretch(f, g), NEW p, Filed(Emitted, lines, Len(addr), p),
         NEW x \in 1 .. Len(addr), x \notin f + 1 .. g - 1,
         NEW y \in 1 .. p[x - 1]
  PROVE  source[y] # LineAt(x)
  <1>1. PICK n \in Nat \ {0} : n = Len(addr)
    BY LineFacts
  <1>2. /\ \A j \in 1 .. n + 1 : LineAt(j) \in Nat
        /\ \A j \in 1 .. n : NextAddr(j) = LineAt(j + 1)
        /\ f \in 1 .. n /\ g \in f + 1 .. n + 1 /\ x \in 1 .. n
    BY <1>1, LineFacts
  <1>3. /\ Offsets(lines, n, p) /\ p \in [0 .. n -> Nat]
        /\ \A k \in 1 .. n : \A j \in 1 .. Len(lines[k]) :
             source[p[k - 1] + j] = lines[k][j]
    BY <1>1 DEF Filed, Offsets, source
  <1>4. lines \in [1 .. n -> Seq(Emitted)] /\ n \in Nat
    BY <1>1 DEF BanksTypeOK
  <1>5. \A i \in 0 .. n : \A k \in i .. n : p[i] <= p[k]
    BY <1>3, <1>4, OffsetsGrow
  <1>6. y \in 1 .. p[n]
    <2>1. x - 1 \in 0 .. n /\ n \in x - 1 .. n /\ n \in 0 .. n
      BY <1>2
    <2>2. p[x - 1] <= p[n] /\ p[x - 1] \in Nat /\ p[n] \in Nat
      BY <1>3, <1>5, <2>1
    <2> QED BY <2>2
  <1>7. PICK k \in 1 .. n : Within(lines, p, k, y)
    BY ONLY <1>3, <1>4, <1>6, Locate
  <1>8. PICK j \in 1 .. Len(lines[k]) : y = p[k - 1] + j
    BY <1>7 DEF Within
  <1>9. source[y] = lines[k][j]
    BY <1>3, <1>8
  <1>10. k < x
    <2> SUFFICES ASSUME ~(k < x) PROVE FALSE
      OBVIOUS
    <2>1. x - 1 \in 0 .. n /\ k - 1 \in x - 1 .. n /\ k - 1 \in 0 .. n
      BY <1>2
    <2>2. p[x - 1] <= p[k - 1] /\ p[x - 1] \in Nat /\ p[k - 1] \in Nat
      BY <1>3, <1>5, <2>1
    <2> QED BY <1>8, <2>2
  <1>11. LineAt(x) \in Nat
    BY <1>2
  <1>12. CASE lines[k] = Original(k)
    <2>1. k + 1 \in 1 .. n + 1 /\ k \in 1 .. n + 1 /\ x \in k + 1 .. n + 1
      BY <1>2, <1>10
    <2>2. LineAt(k + 1) <= LineAt(x)
      BY <1>1, <2>1, LinesSorted
    <2>3. /\ Len(lines[k]) = LineAt(k + 1) - LineAt(k)
          /\ lines[k][j] = LineAt(k) + j - 1
      BY <1>1, <1>12, OriginalFacts
    <2>4. LineAt(k) \in Nat /\ LineAt(k + 1) \in Nat
      BY <1>2, <2>1
    <2>5. j \in Int /\ j <= LineAt(k + 1) - LineAt(k)
      BY <1>8, <2>3
    <2>6. LineAt(k) + j - 1 # LineAt(x)
      BY ONLY <1>11, <2>2, <2>4, <2>5
    <2> QED BY <1>9, <2>3, <2>6
  <1>13. CASE lines[k] # Original(k)
    <2>1. k = f
      <3>1. k \in f .. g - 1
        BY <1>1, <1>13 DEF Stretch
      <3>2. k \notin f + 1 .. g - 1
        <4>1. ASSUME lines[k] = <<>> PROVE FALSE
          BY <1>8, <4>1
        <4> QED BY <4>1 DEF Stretch
      <3> QED BY <1>2, <3>1, <3>2
    <2>2. x \in g .. n + 1 /\ g \in 1 .. n + 1 /\ g - 1 \in 1 .. n /\ (g - 1) + 1 = g
      BY <1>2, <1>10, <2>1
    <2>3. LineAt(g) <= LineAt(x) /\ NextAddr(g - 1) = LineAt(g) /\ LineAt(g) \in Nat
      BY <1>1, <1>2, <2>2, LinesSorted
    <2>4. lines[k][j] \in Emitted
      BY <1>4, ElementOfSeq
    <2>5. lines[k][j] # NewByte => lines[k][j] < LineAt(g)
      BY <2>1, <2>3 DEF Stretch
    <2>6. lines[k][j] # LineAt(x)
      <3>1. CASE lines[k][j] = NewByte
        BY <1>11, <3>1, BanksAssumption
      <3>2. CASE lines[k][j] # NewByte
        BY <1>11, <2>3, <2>4, <2>5, <3>2 DEF Emitted
      <3> QED BY <3>1, <3>2
    <2> QED BY <1>9, <2>6
  <1> QED BY <1>12, <1>13

\* A source that has shrunk leaves the end of its region unfilled, one that has
\* grown has another byte where the line behind the patch was: either is a
\* difference nobody has declared.
LEMMA AuditedMeans == BuildInv => AuditedIsPlaced
  <1> SUFFICES ASSUME BuildInv, step = "done", declared \subseteq aimed, aimed # {},
                      NEW x \in DOMAIN lines, \A a \in aimed : a < addr[x],
                      lines[x] # <<>>, InOneRegion(aimed \cup {addr[x]})
               PROVE  Placed
    BY DEF AuditedIsPlaced
  <1>1. BanksTypeOK /\ EdgesOK /\ built = [b \in Bank |-> Assembled(b)] /\ Accepted
    BY DEF BuildInv, BuiltOK, AuditOK
  <1>2. PICK n \in Nat \ {0} : n = Len(addr)
    BY <1>1, LineFacts
  <1>3. /\ \A j \in 1 .. n + 1 : LineAt(j) \in Nat
        /\ x \in 1 .. n /\ x \in 1 .. n + 1 /\ addr[x] = LineAt(x)
        /\ LineAt(n + 1) = ImageSize /\ ImageSize \in Nat
    BY <1>1, <1>2, LineFacts, BanksAssumption
  <1>4. PICK f \in 1 .. n : \E g \in f + 1 .. n + 1 : Stretch(f, g)
    BY <1>2 DEF BuildInv, OnePatch
  <1>5. PICK g \in f + 1 .. n + 1 : Stretch(f, g)
    BY <1>4
  <1>6. PICK r \in DOMAIN REGIONS : aimed \subseteq Reg(r) /\ LineAt(x) \in Reg(r)
    BY <1>3 DEF InOneRegion, Reg
  <1>7. \A k \in patched : LineAt(k) \in aimed
    BY <1>1, <1>2, <1>5, PatchedAimed
  <1>8. patched = {k \in 1 .. n : lines[k] # Original(k)}
    BY <1>1, <1>2, PatchedLines
  <1>9. Local(r)
    BY <1>2, <1>6, <1>7, <1>8 DEF Local
  <1>10. \A k \in x .. n : lines[k] = Original(k)
    <2> SUFFICES ASSUME NEW k \in x .. n, lines[k] # Original(k) PROVE FALSE
      OBVIOUS
    <2>1. k \in 1 .. n /\ k \in 1 .. n + 1 /\ k \in x .. n + 1
      BY <1>3
    <2>2. LineAt(k) < LineAt(x)
      BY <1>3, <1>7, <1>8, <2>1
    <2>3. LineAt(x) <= LineAt(k)
      BY <1>1, <1>2, <1>3, <2>1, LinesSorted
    <2> QED BY <1>3, <2>1, <2>2, <2>3
  <1>11. PICK p : Filed(Emitted, lines, n, p)
    <2>1. lines \in [1 .. n -> Seq(Emitted)] /\ n \in Nat
      BY <1>1, <1>2 DEF BanksTypeOK
    <2> QED BY <2>1, Flattened
  <1>12. PICK s \in Nat : s = p[n] /\ s = Len(source)
    BY <1>2, <1>11 DEF Filed, Offsets, source
  <1>13. p[x - 1] = LineAt(x) + s - ImageSize /\ p[x - 1] \in Nat
    <2>1. n + 1 \in x .. n + 1 /\ (n + 1) - 1 = n /\ x - 1 \in 0 .. n
      BY <1>3
    <2>2. p[x - 1] \in Nat
      BY <1>11, <2>1 DEF Filed, Offsets
    <2>3. \A k \in x .. (n + 1) - 1 : lines[k] = Original(k)
      BY <1>10, <2>1
    <2>4. p[(n + 1) - 1] - LineAt(n + 1) = p[x - 1] - LineAt(x)
      BY <1>1, <1>2, <1>3, <1>11, <2>1, <2>3, Shift
    <2>5. s - ImageSize = p[x - 1] - LineAt(x)
      BY <1>3, <1>12, <2>1, <2>4
    <2>6. LineAt(x) \in Nat
      BY <1>3
    <2> QED BY <1>3, <2>2, <2>5, <2>6
  <1>14. PICK lo \in Nat, hi \in Nat :
           /\ lo = REGIONS[r].lo /\ hi = REGIONS[r].hi /\ lo < hi
           /\ hi <= ImageSize
    BY <1>1, RegionTypes, RegionOrder
  <1>15. PICK b \in Bank : b \in Copies(r)
    BY <1>1, RegionTypes DEF Copies, Bank
  <1>16. \A a \in Reg(r) : built[b][a] =
           IF a >= hi + s - ImageSize THEN Filler ELSE source[a + 1]
    BY <1>1, <1>9, <1>12, <1>14, <1>15, BankByte
  <1>17. \A a \in Reg(r) : built[b][a] # a => a < LineAt(x)
    <2> TAKE a \in Reg(r)
    <2> HAVE built[b][a] # a
    <2>1. a \in At
      BY <1>3, <1>14 DEF Reg, At
    <2>2. a \in changed
      BY <1>15, <2>1 DEF changed, Reg
    <2> QED BY <1>1, <1>3, <2>2 DEF Accepted
  <1>18. ~(s < ImageSize)
    <2> SUFFICES ASSUME s < ImageSize PROVE FALSE
      OBVIOUS
    <2>1. hi - 1 \in Reg(r) /\ hi - 1 >= hi + s - ImageSize /\ hi - 1 \in Int
      <3>1. hi - 1 \in lo .. hi - 1
        BY <1>14
      <3>2. hi - 1 >= hi + s - ImageSize /\ hi - 1 \in Int
        BY <1>3
      <3> QED BY <1>14, <3>1, <3>2 DEF Reg
    <2>2. built[b][hi - 1] = Filler
      BY <1>16, <2>1
    <2>3. hi - 1 < LineAt(x)
      BY <1>17, <2>1, <2>2, BanksAssumption
    <2> QED BY <1>3, <1>6, <1>14, <2>3 DEF Reg
  <1>19. ~(s > ImageSize)
    <2> SUFFICES ASSUME s > ImageSize PROVE FALSE
      OBVIOUS
    <2>1. PICK a \in Nat : a = LineAt(x) /\ a \in Reg(r) /\ a < hi
      <3>1. LineAt(x) \in Nat /\ LineAt(x) \in lo .. hi - 1
        BY <1>3, <1>6, <1>14 DEF Reg
      <3>2. LineAt(x) < hi
        BY <3>1
      <3> QED BY <1>6, <3>1, <3>2
    <2>2. built[b][a] = source[a + 1]
      <3>1. ~(a >= hi + s - ImageSize)
        BY <1>3, <1>14, <2>1
      <3> QED BY <1>16, <2>1, <3>1
    <2>3. a + 1 <= p[x - 1]
      BY <1>3, <1>13, <2>1
    <2>4. source[a + 1] # a
      <3>1. a + 1 \in 1 .. p[x - 1] /\ x \notin f + 1 .. g - 1
        BY <1>5, <1>13, <2>1, <2>3 DEF Stretch
      <3> QED BY <1>1, <1>2, <1>3, <1>5, <1>11, <2>1, <3>1, BytesBefore
    <2> QED BY <1>17, <2>1, <2>2, <2>4
  <1>20. s = ImageSize
    BY <1>3, <1>18, <1>19
  <1> QED BY <1>1, <1>9, <1>12, <1>20, StayPut

-----------------------------------------------------------------------------
(* Every step keeps the invariant *)

\* What a patch can bring: bytes that are new, and some that were there.
LEMMA ReplacementFacts ==
  ASSUME BanksTypeOK, NEW i \in 1 .. Len(addr), NEW n \in 1 .. Len(addr) - i + 1,
         NEW new \in Replacements(i, n)
  PROVE  /\ new \in Seq(Emitted)
         /\ \A j \in 1 .. Len(new) :
              new[j] # NewByte => new[j] < NextAddr(i + n - 1)
  <1>1. PICK t \in Nat \ {0} : t = Len(addr)
    BY LineFacts
  <1>2. /\ \A k \in 1 .. t + 1 : LineAt(k) \in Nat
        /\ \A k \in 1 .. t : NextAddr(k) = LineAt(k + 1)
        /\ i \in 1 .. t /\ n \in 1 .. t - i + 1 /\ n \in Nat
    BY <1>1, LineFacts
  <1>3. PICK ss : ss = [k \in 1 .. n |-> Original(i + k - 1)]
    OBVIOUS
  <1>4. \A k \in 1 .. n : ss[k] = Original(i + k - 1) /\ i + k - 1 \in 1 .. t
    BY <1>2, <1>3
  <1>5. ss \in [1 .. n -> Seq(Int)]
    <2>1. \A k \in 1 .. n : Original(i + k - 1) \in Seq(Int)
      BY <1>1, <1>4, OriginalFacts
    <2> QED BY <1>3, <2>1
  <1>6. PICK q : Filed(Int, ss, n, q)
    BY <1>2, <1>5, Flattened
  <1> DEFINE old == FlattenSeq([k \in 1 .. n |-> Original(i + k - 1)])
  <1>7. old \in Seq(Int) /\ old = FlattenSeq(ss)
    BY <1>3, <1>6 DEF Filed
  <1>14. new \in UNION {[1 .. m -> {NewByte}] \cup
           {[j \in 1 .. m |-> IF j = k THEN NewByte ELSE old[j]] :
              k \in 1 .. IF m <= Len(old) THEN m ELSE 0} :
           m \in 0 .. Len(old) + MaxGrowth}
    BY DEF Replacements
  <1> HIDE DEF old
  <1>8. /\ Offsets(ss, n, q) /\ Len(old) = q[n]
        /\ \A k \in 1 .. n : \A j \in 1 .. Len(ss[k]) : old[q[k - 1] + j] = ss[k][j]
    BY <1>6, <1>7 DEF Filed
  <1>9. \A j \in 1 .. Len(old) : old[j] \in Int /\ old[j] < NextAddr(i + n - 1)
    <2> TAKE j \in 1 .. Len(old)
    <2>1. j \in 1 .. q[n]
      BY <1>8
    <2>2. PICK k \in 1 .. n : Within(ss, q, k, j)
      BY ONLY <1>2, <1>5, <1>8, <2>1, Locate
    <2>3. PICK y \in 1 .. Len(ss[k]) : j = q[k - 1] + y
      BY <2>2 DEF Within
    <2>4. old[j] = ss[k][y]
      BY <1>8, <2>3
    <2>5. PICK h \in 1 .. t : h = i + k - 1
      BY <1>4
    <2>6. /\ Len(ss[k]) = LineAt(h + 1) - LineAt(h)
          /\ ss[k][y] = LineAt(h) + y - 1
      BY <1>1, <1>4, <2>5, OriginalFacts
    <2>7. h + 1 \in 1 .. t + 1 /\ i + n \in h + 1 .. t + 1 /\ h \in 1 .. t + 1
          /\ i + n \in 1 .. t + 1
      BY <1>2, <2>5
    <2>8. LineAt(h + 1) <= LineAt(i + n)
      BY <1>1, <2>7, LinesSorted
    <2>9. NextAddr(i + n - 1) = LineAt(i + n)
      <3>1. i + n - 1 \in 1 .. t /\ (i + n - 1) + 1 = i + n
        BY <1>2
      <3> QED BY <1>2, <3>1
    <2>10. LineAt(h) \in Nat /\ LineAt(h + 1) \in Nat /\ LineAt(i + n) \in Nat
      BY <1>2, <2>7
    <2>11. PICK a \in Nat, z \in Nat, e \in Nat :
             a = LineAt(h) /\ z = LineAt(h + 1) /\ e = LineAt(i + n)
      BY <2>10
    <2>12. y \in Int /\ y <= z - a /\ old[j] = a + y - 1 /\ z <= e
      BY <2>3, <2>4, <2>6, <2>8, <2>11
    <2>13. a + y - 1 \in Int /\ a + y - 1 < e
      BY ONLY <2>12, a \in Nat, z \in Nat, e \in Nat
    <2>14. old[j] \in Int /\ old[j] < e
      BY <2>12, <2>13
    <2> QED BY <2>9, <2>11, <2>14
  <1>10. PICK m \in 0 .. Len(old) + MaxGrowth :
           new \in [1 .. m -> {NewByte}] \cup
                     {[j \in 1 .. m |-> IF j = k THEN NewByte ELSE old[j]] :
                        k \in 1 .. IF m <= Len(old) THEN m ELSE 0}
    BY <1>14
  <1>11. m \in Nat /\ Len(old) \in Nat
    BY <1>7, BanksAssumption
  <1>12. CASE new \in [1 .. m -> {NewByte}]
    <2>1. Len(new) = m /\ \A j \in 1 .. m : new[j] = NewByte
      BY <1>11, <1>12
    <2>2. new \in Seq(Emitted)
      BY <1>11, <1>12 DEF Emitted
    <2> QED BY <2>1, <2>2
  <1>13. CASE new \in {[j \in 1 .. m |-> IF j = k THEN NewByte ELSE old[j]] :
                         k \in 1 .. IF m <= Len(old) THEN m ELSE 0}
    <2>1. PICK k \in 1 .. IF m <= Len(old) THEN m ELSE 0 :
            new = [j \in 1 .. m |-> IF j = k THEN NewByte ELSE old[j]]
      BY <1>13
    <2>2. m <= Len(old)
      BY <2>1
    <2>3. \A j \in 1 .. m : j \in 1 .. Len(old)
      BY <1>11, <2>2
    <2>4. \A j \in 1 .. m : new[j] = IF j = k THEN NewByte ELSE old[j]
      BY <2>1
    <2>5. \A j \in 1 .. m : new[j] \in Emitted
      BY <1>9, <2>3, <2>4 DEF Emitted
    <2>6. Len(new) = m /\ new \in [1 .. m -> Emitted]
      BY <1>11, <2>1, <2>5
    <2>7. new \in Seq(Emitted)
      BY <1>11, <2>6
    <2> QED BY <1>9, <2>3, <2>4, <2>6, <2>7
  <1> QED BY <1>10, <1>12, <1>13

\* The cartridge as it is.
LEMMA BanksInitInv == BanksInit => BuildInv
  <1> SUFFICES ASSUME BanksInit PROVE BuildInv
    OBVIOUS
  <1>1. /\ addr \in Seq(0 .. ImageSize) /\ addr # <<>> /\ ImageSize \in Nat
        /\ \A i \in 1 .. Len(addr) - 1 : addr[i] <= addr[i + 1]
    BY BanksAssumption DEF BanksInit
  <1>2. PICK n \in Nat \ {0} : n = Len(addr) /\ DOMAIN addr = 1 .. n
    BY <1>1
  <1>3. lines = [k \in 1 .. n |-> Original(k)]
    BY <1>2 DEF BanksInit
  <1>4. \A k \in 1 .. n : addr[k] \in Nat /\ NextAddr(k) \in Nat /\ addr[k] <= NextAddr(k)
    <2> TAKE k \in 1 .. n
    <2>1. addr[k] \in 0 .. ImageSize
      BY <1>1, <1>2
    <2>2. CASE k = n
      BY <1>1, <1>2, <2>1, <2>2 DEF NextAddr
    <2>3. CASE k # n
      <3>1. k + 1 \in 1 .. n /\ k \in 1 .. n - 1
        BY <2>3
      <3>2. addr[k + 1] \in 0 .. ImageSize
        BY <1>1, <1>2, <3>1
      <3> QED BY <1>1, <1>2, <2>1, <2>3, <3>1, <3>2 DEF NextAddr
    <2> QED BY <2>2, <2>3
  <1>5. \A k \in 1 .. n :
          /\ Original(k) \in Seq(Emitted)
          /\ \A j \in 1 .. Len(Original(k)) : Original(k)[j] < NextAddr(k)
    <2> TAKE k \in 1 .. n
    <2>1. PICK a \in Nat, z \in Nat : a = addr[k] /\ z = NextAddr(k) /\ a <= z
      BY <1>4
    <2>2. PICK w \in Nat : w = z - a
      BY <2>1
    <2>3. Original(k) = [j \in 1 .. w |-> a + j - 1]
      BY <2>1, <2>2 DEF Original
    <2>4. \A j \in 1 .. w : a + j - 1 \in Emitted /\ a + j - 1 < z
      BY <2>2 DEF Emitted
    <2>5. Original(k) \in [1 .. w -> Emitted]
      BY <2>3, <2>4
    <2>6. Original(k) \in Seq(Emitted) /\ Len(Original(k)) = w
      BY <2>5
    <2> QED BY <2>1, <2>3, <2>4, <2>6
  <1>6. BanksTypeOK
    BY <1>2, <1>3, <1>5 DEF BanksTypeOK, BanksInit
  <1>7. OnePatch
    <2>1. 1 \in 1 .. n /\ 2 \in 1 + 1 .. n + 1 /\ 2 - 1 = 1
      OBVIOUS
    <2>2. Stretch(1, 2)
      BY <1>2, <1>3, <1>5, <2>1 DEF Stretch
    <2> QED BY <1>2, <2>1, <2>2 DEF OnePatch
  <1>8. Unpatched /\ BuiltOK /\ AuditOK
    BY DEF BanksInit, Unpatched, BuiltOK, AuditOK
  <1> QED BY <1>6, <1>7, <1>8 DEF BuildInv

\* Where the lines stay, so does what is known of them.
LEMMA LinesStay ==
  ASSUME BuildInv, UNCHANGED <<addr, REGIONS, lines>>
  PROVE  /\ BanksTypeOK' /\ OnePatch'
         /\ EdgesOK' = EdgesOK
         /\ \A b : Assembled(b)' = Assembled(b)
  <1>1. BanksTypeOK'
    BY DEF BuildInv, BanksTypeOK
  <1>2. \A k : NextAddr(k)' = NextAddr(k) /\ Original(k)' = Original(k)
    BY DEF NextAddr, Original
  <1>3. \A f, g : Stretch(f, g)' = Stretch(f, g)
    BY <1>2 DEF Stretch
  <1>4. OnePatch'
    BY <1>3 DEF BuildInv, OnePatch
  <1> QED BY <1>1, <1>4, SameBanks DEF EdgesOK

\* Each step of the build.
LEMMA BanksStepInv == BuildInv /\ [BanksNext]_bankVars => BuildInv'
  <1> SUFFICES ASSUME BuildInv, [BanksNext]_bankVars PROVE BuildInv'
    OBVIOUS
  <1>1. BanksTypeOK
    BY DEF BuildInv
  <1>2. CASE Apply
    <2>1. PICK i \in DOMAIN lines : \E n \in 1 .. Len(lines) - i + 1 :
            \E new \in Replacements(i, n) : lines' = Patched(i, n, new)
      BY <1>2 DEF Apply
    <2>2. PICK n \in 1 .. Len(lines) - i + 1 :
            \E new \in Replacements(i, n) : lines' = Patched(i, n, new)
      BY <2>1
    <2>3. PICK new \in Replacements(i, n) : lines' = Patched(i, n, new)
      BY <2>2
    <2>4. PICK t \in Nat \ {0} : t = Len(addr) /\ t = Len(lines)
                                 /\ DOMAIN lines = 1 .. t /\ DOMAIN addr = 1 .. t
      BY <1>1, LineFacts DEF BanksTypeOK
    <2>5. /\ i \in 1 .. t /\ n \in 1 .. t - i + 1
          /\ i + n \in i + 1 .. t + 1 /\ (i + n) - 1 = i + n - 1
      BY <2>4
    <2>6. /\ new \in Seq(Emitted)
          /\ \A j \in 1 .. Len(new) : new[j] # NewByte => new[j] < NextAddr(i + n - 1)
      BY <1>1, <2>4, <2>5, ReplacementFacts
    <2>7. lines' = [k \in 1 .. t |->
            IF k = i THEN new
            ELSE IF k \in i + 1 .. i + n - 1 THEN <<>> ELSE lines[k]]
      BY <2>3, <2>4 DEF Patched
    <2>8. step' = "edges" /\ addr' = addr /\ REGIONS' = REGIONS /\ step = "patch"
      BY <1>2 DEF Apply
    <2>9. \A k : NextAddr(k)' = NextAddr(k) /\ Original(k)' = Original(k)
      BY <2>8 DEF NextAddr, Original
    <2>10. BanksTypeOK'
      <3>1. \A k \in 1 .. t : lines[k] \in Seq(Emitted) /\ <<>> \in Seq(Emitted)
        BY <1>1, <2>4 DEF BanksTypeOK
      <3>2. lines' \in [1 .. t -> Seq(Emitted)]
        BY <2>6, <2>7, <3>1
      <3> QED BY <1>1, <2>4, <2>8, <3>2 DEF BanksTypeOK
    <2>11. Stretch(i, i + n)'
      <3>1. \A k \in 1 .. t : k \notin i .. i + n - 1 => lines'[k] = Original(k)
        <4>1. lines = [k \in 1 .. t |-> Original(k)]
          BY <2>4, <2>8 DEF BuildInv, Unpatched
        <4> QED BY <2>5, <2>7, <4>1
      <3>2. \A k \in i + 1 .. i + n - 1 : lines'[k] = <<>>
        <4>1. i \in Int /\ n \in Int /\ t \in Int /\ 1 <= i /\ n <= t - i + 1
          BY <2>5
        <4>2. ASSUME NEW k \in i + 1 .. i + n - 1 PROVE k \in 1 .. t /\ k # i
          <5>1. k \in Int /\ i + 1 <= k /\ k <= i + n - 1
            BY <4>1
          <5>2. k <= t
            BY ONLY <4>1, <5>1
          <5> QED BY ONLY <4>1, <5>1, <5>2
        <4> QED BY <2>7, <4>2
      <3>3. lines'[i] = new
        BY <2>5, <2>7
      <3> QED BY <2>4, <2>5, <2>6, <2>8, <2>9, <3>1, <3>2, <3>3 DEF Stretch
    <2>12. OnePatch'
      BY <2>4, <2>5, <2>8, <2>11 DEF OnePatch
    <2> QED BY <2>8, <2>10, <2>12 DEF BuildInv, Unpatched, BuiltOK, AuditOK
  <1>3. CASE ApplyNone \/ AnchorFails
    <2>1. BanksTypeOK' /\ OnePatch'
      BY <1>3, LinesStay DEF ApplyNone, AnchorFails
    <2> QED BY <1>3, <2>1
            DEF ApplyNone, AnchorFails, BuildInv, Unpatched, BuiltOK, AuditOK
  <1>4. CASE Split
    <2>1. /\ BanksTypeOK' /\ OnePatch' /\ EdgesOK' = EdgesOK
          /\ \A b : Assembled(b)' = Assembled(b)
      BY <1>4, LinesStay DEF Split
    <2>2. BuiltOK'
      BY <1>4, <2>1 DEF Split, BuiltOK
    <2>3. Unpatched' /\ AuditOK'
      BY <1>4 DEF Split, Unpatched, AuditOK
    <2> QED BY <2>1, <2>2, <2>3 DEF BuildInv
  <1>5. CASE Fits
    <2>1. /\ BanksTypeOK' /\ OnePatch' /\ EdgesOK' = EdgesOK
          /\ \A b : Assembled(b)' = Assembled(b)
      BY <1>5, LinesStay DEF Fits
    <2>2. BuiltOK'
      BY <1>5, <2>1 DEF BuildInv, Fits, BuiltOK
    <2>3. Unpatched' /\ AuditOK'
      BY <1>5 DEF Fits, Unpatched, AuditOK
    <2> QED BY <2>1, <2>2, <2>3 DEF BuildInv
  <1>6. CASE Audit
    <2>1. /\ BanksTypeOK' /\ OnePatch' /\ EdgesOK' = EdgesOK
          /\ \A b : Assembled(b)' = Assembled(b)
      BY <1>6, LinesStay DEF Audit
    <2>2. BuiltOK'
      BY <1>6, <2>1 DEF BuildInv, Audit, BuiltOK
    <2>3. changed' = changed
      BY <1>6 DEF Audit, changed, Copies
    <2>4. PICK lo \in 0 .. ImageSize, hi \in 0 .. ImageSize :
            /\ declared' = lo .. hi - 1
            /\ step' = IF /\ changed \subseteq declared'
                          /\ lo < hi => changed \cap declared' # {}
                       THEN "done" ELSE "rejected"
      <3>1. PICK lo \in 0 .. ImageSize : \E hi \in lo .. ImageSize :
              /\ declared' = lo .. hi - 1
              /\ step' = IF /\ changed \subseteq declared'
                            /\ lo < hi => changed \cap declared' # {}
                         THEN "done" ELSE "rejected"
        BY <1>6 DEF Audit
      <3> QED BY <3>1
    <2>5. declared' # {} <=> lo < hi
      <3>1. lo \in Int /\ hi \in Int
        OBVIOUS
      <3>2. lo < hi => lo \in lo .. hi - 1
        BY <3>1
      <3>3. \A a \in lo .. hi - 1 : lo < hi
        BY <3>1
      <3> QED BY <2>4, <3>2, <3>3
    <2>6. Unpatched' /\ AuditOK'
      <3>1. Accepted' <=> step' = "done"
        BY <2>3, <2>4, <2>5 DEF Accepted
      <3>2. step' \in {"done", "rejected"}
        BY <2>4
      <3> QED BY <3>1, <3>2 DEF Unpatched, AuditOK
    <2> QED BY <2>1, <2>2, <2>6 DEF BuildInv
  <1>7. CASE UNCHANGED bankVars
    <2>1. /\ BanksTypeOK' /\ OnePatch' /\ EdgesOK' = EdgesOK
          /\ \A b : Assembled(b)' = Assembled(b)
      BY <1>7, LinesStay DEF bankVars
    <2>2. BuiltOK'
      BY <1>7, <2>1 DEF BuildInv, bankVars, BuiltOK
    <2>3. changed' = changed
      BY <1>7 DEF bankVars, changed, Copies
    <2>4. Unpatched'
      <3>1. \A k : Original(k)' = Original(k)
        BY <1>7 DEF bankVars, NextAddr, Original
      <3> QED BY <1>7, <3>1 DEF BuildInv, bankVars, Unpatched
    <2>5. AuditOK'
      <3>1. Accepted' <=> Accepted
        BY <1>7, <2>3 DEF bankVars, Accepted
      <3> QED BY <1>7, <3>1 DEF BuildInv, bankVars, AuditOK
    <2> QED BY <2>1, <2>2, <2>4, <2>5 DEF BuildInv
  <1> QED BY <1>2, <1>3, <1>4, <1>5, <1>6, <1>7 DEF BanksNext

\* The lines of one patch, and what each stage of the build has made sure of.
THEOREM BanksInvariant == BanksSpec => []BuildInv
  BY BanksInitInv, BanksStepInv, PTL DEF BanksSpec

\* Whatever the cartridge, listing, table and patch: what keeps its size and
\* stays in one region has every byte of the source in its place in the banks.
THEOREM PatchStaysPut == BanksSpec => []BytesStayPut
  BY BanksInvariant, StayPutMeans, PTL

\* A build that ends well, and declares no more than it aims at, has every byte
\* in its place whatever became of the size of the patch, if only one more line
\* of the region follows.
THEOREM AuditIsEnough == BanksSpec => []AuditedIsPlaced
  BY BanksInvariant, AuditedMeans, PTL

\* A patch that keeps its size, stays in one region and declares exactly what
\* it changes is never rejected.
THEOREM HonestIsAccepted == BanksSpec => []HonestPatchPasses
  BY BanksInvariant, HonestMeans, PTL
=============================================================================
