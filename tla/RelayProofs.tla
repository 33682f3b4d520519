----------------------------- MODULE RelayProofs -----------------------------
(***************************************************************************)
(* The relay keeps its books straight, for any number of consoles, in      *)
(* every order of HELLOs, forwards and drops.                              *)
(*                                                                         *)
(* The argument: a drop is the only thing that ends a match and it takes   *)
(* both ends of it; a client that is no more has no name and no partner;   *)
(* and a console that was ever matched has its START queued or read, so it *)
(* is never again one that waits for its first opponent.                   *)
(***************************************************************************)
EXTENDS Relay, TLAPS

\* What the relay holds of connection c.
Booked(c) ==
  /\ name[c] # NoName => c \in clients /\ by_name[name[c]] = c
  /\ partner[c] # NoOne =>
       /\ partner[c] \in Conn
       /\ partner[partner[c]] = c
       /\ partner[c] # c
       /\ name[c] # NoName
       /\ role[c] # role[partner[c]]

\* Where the console at the far end of c can be.
Abreast(c) ==
  /\ state[c] \in {"off", "connected"} =>
       name[c] = NoName /\ rx[c] = <<>> /\ tx[c] = <<>>
  /\ state[c] = "waiting" /\ partner[c] # NoOne => Queued(c, "START")
  /\ \A i \in 1 .. Len(rx[c]) :
       rx[c][i] = "HELLO" => i = 1 /\ name[c] = NoName

\* A console that has been in a match the relay has ended, and knows of the
\* match, is told or will be.
Informed(c) ==
  (/\ partner[c] = NoOne
   /\ \/ state[c] = "playing"
      \/ state[c] = "waiting" /\ Queued(c, "START"))
  => told[c] \/ Queued(c, "PEER_LEFT")

RInv ==
  /\ TypeOK
  /\ \A n \in Name : by_name[n] # NoOne => name[by_name[n]] = n
  /\ \A c \in Conn : Booked(c) /\ Abreast(c)
  /\ \A c \in clients : Informed(c)
  /\ WaitersAreAlone

-----------------------------------------------------------------------------
(* Queues *)

Has(s, type) == \E i \in 1 .. Len(s) : s[i].type = type

\* What is left of a queue once its head is taken.
LEMMA TailSlots ==
  ASSUME NEW S, NEW s \in Seq(S), s # <<>>
  PROVE  /\ Tail(s) \in Seq(S)
         /\ \A i \in 1 .. Len(Tail(s)) :
              i + 1 \in 2 .. Len(s) /\ Tail(s)[i] = s[i + 1]
  OBVIOUS

\* Queued, of a connection, is Has, of its queue.
LEMMA QueuedHas == \A c, type : Queued(c, type) <=> Has(tx[c], type)
  BY DEF Queued, Has

\* Appending a frame adds its type to those on their way and no other.
LEMMA AppendHas ==
  ASSUME NEW s \in Seq(ToConsole), NEW f \in ToConsole, NEW type
  PROVE  /\ Append(s, f) \in Seq(ToConsole)
         /\ Has(Append(s, f), type) <=> Has(s, type) \/ f.type = type
  <1> DEFINE a == Append(s, f)
  <1>1. /\ a \in Seq(ToConsole) /\ Len(a) = Len(s) + 1 /\ Len(s) \in Nat
        /\ a[Len(s) + 1] = f
        /\ \A i \in 1 .. Len(s) : a[i] = s[i]
    OBVIOUS
  <1>2. Has(s, type) => Has(a, type)
    BY <1>1 DEF Has
  <1>3. f.type = type => Has(a, type)
    BY <1>1 DEF Has
  <1>4. ASSUME Has(a, type) PROVE Has(s, type) \/ f.type = type
    <2>1. PICK i \in 1 .. Len(a) : a[i].type = type
      BY <1>4 DEF Has
    <2>2. CASE i = Len(s) + 1
      BY <1>1, <2>1, <2>2
    <2>3. CASE i # Len(s) + 1
      <3>1. i \in 1 .. Len(s) /\ s[i].type = type
        BY <1>1, <2>1, <2>3
      <3> QED BY <3>1 DEF Has
    <2> QED BY <2>2, <2>3
  <1> QED BY <1>1, <1>2, <1>3, <1>4

\* Reading the first frame takes nothing else away.
LEMMA TailHas ==
  ASSUME NEW s \in Seq(ToConsole), s # <<>>, NEW type
  PROVE  /\ Tail(s) \in Seq(ToConsole)
         /\ Head(s) \in ToConsole
         /\ Has(Tail(s), type) => Has(s, type)
         /\ Has(s, type) /\ Head(s).type # type => Has(Tail(s), type)
  <1> DEFINE u == Tail(s)
  <1>1. /\ u \in Seq(ToConsole) /\ Len(u) = Len(s) - 1 /\ Len(s) \in Nat
        /\ Len(s) >= 1 /\ Head(s) = s[1] /\ s[1] \in ToConsole
        /\ \A i \in 1 .. Len(u) : u[i] = s[i + 1]
    OBVIOUS
  <1>2. ASSUME Has(u, type) PROVE Has(s, type)
    <2>1. PICK i \in 1 .. Len(u) : u[i].type = type
      BY <1>2 DEF Has
    <2>2. i + 1 \in 1 .. Len(s) /\ s[i + 1].type = type
      BY <1>1, <2>1
    <2> QED BY <2>2 DEF Has
  <1>3. ASSUME Has(s, type), Head(s).type # type PROVE Has(u, type)
    <2>1. PICK i \in 1 .. Len(s) : s[i].type = type
      BY <1>3 DEF Has
    <2>2. i # 1
      BY <1>1, <1>3, <2>1
    <2>3. i - 1 \in 1 .. Len(u) /\ u[i - 1] = s[i - 1 + 1]
      BY <1>1, <2>1, <2>2
    <2>4. u[i - 1].type = type
      BY <1>1, <2>1, <2>3
    <2> QED BY <2>3, <2>4 DEF Has
  <1> QED BY <1>1, <1>2, <1>3

\* What the relay sends are frames a console knows.
LEMMA Frames ==
  /\ \A r \in Role : Start(r) \in ToConsole /\ Start(r).type = "START"
  /\ Input \in ToConsole /\ Input.type = "INPUT"
  /\ Left \in ToConsole /\ Left.type = "PEER_LEFT"
  BY DEF ToConsole, Start, Input, Left

-----------------------------------------------------------------------------
(* The invariant *)

\* The invariant holds of a relay nobody has dialled.
LEMMA InitInv == Init => RInv
  BY RelayAssumption DEF Init, RInv, TypeOK, Booked, Abreast, Informed,
     WaitersAreAlone, Role

\* A console's step leaves the relay's books alone; it is enough to look at
\* what it does to the queues and at the state of the one console.
LEMMA ConsoleStep ==
  ASSUME RInv, NEW c \in Conn, UNCHANGED relay, TypeOK',
         \A k \in Conn \ {c} : /\ rx'[k] = rx[k] /\ tx'[k] = tx[k]
                               /\ state'[k] = state[k] /\ told'[k] = told[k],
         Abreast(c)', c \in clients => Informed(c)',
         Waiting(c)' => Waiting(c)
  PROVE  RInv'
  <1>1. ASSUME NEW k \in Conn PROVE Booked(k)'
    BY DEF RInv, Booked, relay
  <1>2. ASSUME NEW k \in Conn PROVE Abreast(k)'
    BY DEF RInv, Abreast, relay, Queued
  <1>3. ASSUME NEW k \in clients' PROVE Informed(k)'
    <2>1. k \in Conn /\ k \in clients
      BY DEF RInv, TypeOK, relay
    <2> QED BY <2>1 DEF RInv, Informed, relay, Queued
  <1>4. ASSUME NEW k \in Conn, Waiting(k)' PROVE Waiting(k)
    BY <1>4 DEF Waiting, relay, Queued
  <1>5. WaitersAreAlone'
    BY <1>4 DEF RInv, TypeOK, WaitersAreAlone, relay
  <1> QED BY <1>1, <1>2, <1>3, <1>5 DEF RInv, relay

\* A console that sends a frame, with what its state becomes.
LEMMA SayStep ==
  ASSUME RInv, NEW c \in Conn,
         SayHello(c) \/ SendInput(c) \/ Close(c) \/ Unplug(c)
  PROVE  RInv'
  <1> USE DEF RInv
  <1>1. UNCHANGED <<relay, tx>>
    BY DEF SayHello, SendInput, Close, Unplug, Forgets, consoles
  <1>2. \/ UNCHANGED rx
        \/ \E t \in ToRelay : /\ rx' = [rx EXCEPT ![c] = Append(@, t)]
                              /\ t = "HELLO" => SayHello(c)
    BY DEF SayHello, SendInput, Close, Unplug, Says, ToRelay
  <1>3. rx' \in [Conn -> Seq(ToRelay)]
    <2>1. rx \in [Conn -> Seq(ToRelay)] /\ rx[c] \in Seq(ToRelay)
      BY DEF TypeOK
    <2>2. ASSUME NEW t \in ToRelay,
                 rx' = [rx EXCEPT ![c] = Append(@, t)]
          PROVE  rx' \in [Conn -> Seq(ToRelay)]
      <3>1. Append(rx[c], t) \in Seq(ToRelay)
        BY <2>1
      <3> QED BY <2>1, <2>2, <3>1
    <2> QED BY <1>2, <2>1, <2>2
  <1>4. /\ state' = [state EXCEPT ![c] = state'[c]]
        /\ told' = [told EXCEPT ![c] = told'[c]]
        /\ state'[c] \in {"waiting", "playing", "closed"}
        /\ told'[c] \in BOOLEAN
        /\ state'[c] = "playing" => state[c] = "playing" /\ told'[c] = told[c]
        /\ state'[c] = "waiting" => SayHello(c) /\ state[c] = "connected"
    BY DEF TypeOK, SayHello, SendInput, Close, Unplug, Forgets, consoles
  <1>5. TypeOK'
    BY <1>1, <1>3, <1>4 DEF TypeOK, relay
  <1>6. \A k \in Conn \ {c} : /\ rx'[k] = rx[k] /\ tx'[k] = tx[k]
                              /\ state'[k] = state[k] /\ told'[k] = told[k]
    BY <1>1, <1>2, <1>4 DEF TypeOK
  <1>7. Abreast(c)'
    <2>1. state'[c] = "waiting" => name[c] = NoName /\ partner[c] = NoOne
      BY <1>4 DEF Abreast, Booked
    <2>2. ASSUME NEW i \in 1 .. Len(rx'[c]), rx'[c][i] = "HELLO"
          PROVE  i = 1 /\ name[c] = NoName
      <3>1. CASE UNCHANGED rx
        BY <2>2, <3>1 DEF Abreast
      <3>2. CASE \E t \in ToRelay : /\ rx' = [rx EXCEPT ![c] = Append(@, t)]
                                    /\ t = "HELLO" => SayHello(c)
        <4>1. PICK t \in ToRelay : /\ rx' = [rx EXCEPT ![c] = Append(@, t)]
                                   /\ t = "HELLO" => SayHello(c)
          BY <3>2
        <4>2. rx[c] \in Seq(ToRelay) /\ rx'[c] = Append(rx[c], t)
          BY <4>1 DEF TypeOK
        <4>3. CASE i \in 1 .. Len(rx[c])
          BY <2>2, <4>2, <4>3 DEF Abreast
        <4>4. CASE i \notin 1 .. Len(rx[c])
          <5>1. i = Len(rx[c]) + 1 /\ t = "HELLO"
            BY <2>2, <4>2, <4>4
          <5>2. rx[c] = <<>> /\ name[c] = NoName
            BY <4>1, <5>1 DEF SayHello, Abreast
          <5> QED BY <5>1, <5>2
        <4> QED BY <4>3, <4>4
      <3> QED BY <1>2, <3>1, <3>2
    <2> QED BY <1>1, <1>4, <2>1, <2>2 DEF Abreast, relay
  <1>8. c \in clients => Informed(c)'
    <2>1. \A type : Queued(c, type)' <=> Queued(c, type)
      BY <1>1 DEF Queued
    <2>2. CASE state'[c] = "playing"
      BY <1>1, <1>4, <2>1, <2>2 DEF Informed, relay
    <2>3. CASE state'[c] = "waiting"
      <3>1. tx[c] = <<>>
        BY <1>4, <2>3 DEF Abreast
      <3>2. ~Queued(c, "START")
        BY <3>1 DEF Queued
      <3> QED BY <1>1, <1>4, <2>1, <2>3, <3>2 DEF Informed, relay
    <2>4. CASE state'[c] = "closed"
      BY <2>4 DEF Informed
    <2> QED BY <1>4, <2>2, <2>3, <2>4
  <1>9. Waiting(c)' => Waiting(c)
    <2>1. state'[c] = "waiting" => name[c] = NoName
      BY <1>4 DEF Abreast
    <2> QED BY <1>1, <2>1 DEF Waiting, relay
  <1> QED BY <1>1, <1>5, <1>6, <1>7, <1>8, <1>9, ConsoleStep

\* A console reads a frame.
LEMMA ReadStep ==
  ASSUME RInv, NEW c \in Conn, ReadStart(c) \/ ReadFrame(c)
  PROVE  RInv'
  <1> USE DEF RInv
  <1>1. /\ UNCHANGED relay /\ rx' = rx
        /\ tx[c] # <<>> /\ tx' = [tx EXCEPT ![c] = Tail(@)]
        /\ state' = [state EXCEPT ![c] = "playing"]
        /\ told' = [told EXCEPT ![c] = told'[c]]
        /\ state[c] = "playing" \/ Head(tx[c]).type = "START"
        /\ state[c] \in {"waiting", "playing"}
        /\ state[c] = "waiting" => Queued(c, "START")
        /\ told'[c] \in BOOLEAN
        /\ told[c] => told'[c]
        /\ Head(tx[c]).type = "PEER_LEFT" => told'[c]
    <2>1. tx[c] \in Seq(ToConsole)
      BY DEF TypeOK
    <2>2. CASE ReadStart(c)
      <3>1. Queued(c, "START")
        <4>1. tx[c] # <<>> /\ Head(tx[c]).type = "START"
          BY <2>2 DEF ReadStart
        <4>2. 1 \in 1 .. Len(tx[c]) /\ tx[c][1].type = "START"
          BY <2>1, <4>1
        <4> QED BY <4>2 DEF Queued
      <3> QED BY <2>2, <3>1 DEF ReadStart, TypeOK
    <2>3. CASE ReadFrame(c)
      BY <2>3 DEF ReadFrame, TypeOK
    <2> QED BY <2>2, <2>3
  <1>2. tx[c] \in Seq(ToConsole)
    BY DEF TypeOK
  <1>3. tx'[c] = Tail(tx[c]) /\ Tail(tx[c]) \in Seq(ToConsole)
    BY <1>1, <1>2, TailHas DEF TypeOK
  <1>4. TypeOK'
    BY <1>1, <1>3 DEF TypeOK, relay
  <1>5. \A k \in Conn \ {c} : /\ rx'[k] = rx[k] /\ tx'[k] = tx[k]
                              /\ state'[k] = state[k] /\ told'[k] = told[k]
    BY <1>1 DEF TypeOK
  <1>6. state'[c] = "playing"
    BY <1>1 DEF TypeOK
  <1>7. Abreast(c)'
    BY <1>1, <1>6 DEF Abreast, relay
  <1>8. c \in clients => Informed(c)'
    <2>1. Queued(c, "PEER_LEFT")' <=> Has(Tail(tx[c]), "PEER_LEFT")
      BY <1>3 DEF Queued, Has
    <2>2. Queued(c, "PEER_LEFT") => told'[c] \/ Queued(c, "PEER_LEFT")'
      BY <1>1, <1>2, <2>1, TailHas, QueuedHas
    <2> QED BY <1>1, <2>2 DEF Informed, relay
  <1>9. Waiting(c)' => Waiting(c)
    BY <1>6 DEF Waiting
  <1> QED BY <1>1, <1>4, <1>5, <1>7, <1>8, <1>9, ConsoleStep

-----------------------------------------------------------------------------
\* A connection that is accepted has no name and no partner.
LEMMA AcceptStep == ASSUME RInv, NEW c \in Conn, Accept(c) PROVE RInv'
  <1> USE DEF RInv
  <1>1. /\ clients' = clients \cup {c}
        /\ state' = [state EXCEPT ![c] = "connected"]
        /\ elders' = [elders EXCEPT ![c] = clients]
        /\ UNCHANGED <<by_name, name, partner, role, rx, tx, told>>
        /\ state[c] = "off"
    BY DEF Accept
  <1>2. TypeOK'
    BY <1>1 DEF TypeOK
  <1>3. ASSUME NEW k \in Conn PROVE Booked(k)'
    BY <1>1 DEF Booked
  <1>4. ASSUME NEW k \in Conn PROVE Abreast(k)'
    BY <1>1 DEF Abreast, Queued, TypeOK
  <1>5. ASSUME NEW k \in clients' PROVE Informed(k)'
    BY <1>1 DEF Informed, Queued, TypeOK
  <1>6. ASSUME NEW k \in clients', Waiting(k)' PROVE k \in clients /\ Waiting(k)
    BY <1>1, <1>6 DEF Waiting, Queued, TypeOK
  <1>7. WaitersAreAlone'
    BY <1>6 DEF WaitersAreAlone
  <1> QED BY <1>1, <1>2, <1>3, <1>4, <1>5, <1>7

\* A drop takes both ends of the match, and the partner is told.
LEMMA DropStep == ASSUME RInv, NEW c \in clients, Drop(c) PROVE RInv'
  <1> USE DEF RInv
  <1> DEFINE p == partner[c]
  <1>1. /\ by_name' = Without(c) /\ partner' = Freed(c)
        /\ clients' = clients \ {c}
        /\ name' = [name EXCEPT ![c] = NoName]
        /\ role' = [role EXCEPT ![c] = 0]
        /\ rx' = [rx EXCEPT ![c] = <<>>]
        /\ tx' = [ToldOff(c) EXCEPT ![c] = <<>>]
        /\ elders' = [k \in Conn |-> IF k = c THEN {} ELSE elders[k] \ {c}]
        /\ state' = state /\ told' = told
    BY DEF Drop, consoles
  <1>2. c \in Conn /\ (p # NoOne => p \in Conn \ {c} /\ partner[p] = c)
    BY DEF TypeOK, Booked
  <1>3. ASSUME NEW k \in Conn
        PROVE  /\ k = c => tx'[k] = <<>>
               /\ k # c /\ k # p => tx'[k] = tx[k]
               /\ k # c /\ k = p => tx'[k] = Append(tx[k], Left)
               /\ tx'[k] \in Seq(ToConsole)
    <2>1. tx[k] \in Seq(ToConsole)
      BY DEF TypeOK
    <2>2. Append(tx[k], Left) \in Seq(ToConsole)
      BY <2>1, Frames, AppendHas
    <2>3. ToldOff(c)[k] = IF k = p THEN Append(tx[k], Left) ELSE tx[k]
      BY DEF ToldOff
    <2>4. tx'[k] = IF k = c THEN <<>> ELSE ToldOff(c)[k]
      BY <1>1 DEF ToldOff
    <2> QED BY <2>1, <2>2, <2>3, <2>4
  <1>4. TypeOK'
    <2>1. tx' \in [Conn -> Seq(ToConsole)]
      BY <1>1, <1>3 DEF ToldOff
    <2>2. by_name' \in [Name -> Conn \cup {NoOne}]
      BY <1>1 DEF TypeOK, Without
    <2>3. partner' \in [Conn -> Conn \cup {NoOne}]
      BY <1>1 DEF TypeOK, Freed
    <2>4. elders' \in [Conn -> SUBSET Conn]
      BY <1>1 DEF TypeOK
    <2>5. <<>> \in Seq(ToRelay) /\ 0 \in Role
      BY DEF Role
    <2>6. rx' \in [Conn -> Seq(ToRelay)]
      BY <1>1, <2>5 DEF TypeOK
    <2>7. /\ clients' \subseteq Conn /\ name' \in [Conn -> Name \cup {NoName}]
          /\ role' \in [Conn -> Role]
      BY <1>1, <2>5 DEF TypeOK
    <2> QED BY <1>1, <2>1, <2>2, <2>3, <2>4, <2>6, <2>7 DEF TypeOK
  <1>5. /\ \A k \in Conn : partner'[k] = IF k \in {c, p} THEN NoOne
                                                         ELSE partner[k]
        /\ \A k \in Conn : name'[k] = IF k = c THEN NoName ELSE name[k]
        /\ \A k \in Conn : role'[k] = IF k = c THEN 0 ELSE role[k]
        /\ \A k \in Conn : rx'[k] = IF k = c THEN <<>> ELSE rx[k]
        /\ \A n \in Name : by_name'[n] = IF by_name[n] = c /\ name[c] = n
                                         THEN NoOne ELSE by_name[n]
    BY <1>1, <1>2 DEF TypeOK, Freed, Without
  <1>6. ASSUME NEW n \in Name, by_name'[n] # NoOne
        PROVE  name'[by_name'[n]] = n
    BY <1>5, <1>6 DEF TypeOK
  <1>7. ASSUME NEW k \in Conn PROVE Booked(k)'
    <2>1. CASE k \in {c, p}
      <3>1. partner'[k] = NoOne
        BY <1>5, <2>1
      <3>2. CASE k = c
        BY <1>5, <3>1, <3>2 DEF Booked
      <3>3. CASE k # c
        BY <1>1, <1>5, <3>1, <3>3, RelayAssumption DEF Booked, TypeOK
      <3> QED BY <3>2, <3>3
    <2>2. CASE k \notin {c, p}
      <3>1. partner'[k] = partner[k] /\ name'[k] = name[k]
        BY <1>5, <2>2
      <3>2. partner[k] # NoOne => partner[k] \in Conn /\ partner[k] \notin {c, p}
        BY <1>2, <2>2 DEF Booked
      <3>3. partner[k] # NoOne =>
              /\ partner'[partner[k]] = k /\ partner[k] # k /\ name[k] # NoName
              /\ role'[k] # role'[partner[k]]
        BY <1>5, <2>2, <3>2 DEF Booked
      <3>4. name[k] # NoName => k \in clients' /\ by_name'[name[k]] = k
        BY <1>1, <1>5, <2>2 DEF Booked, TypeOK
      <3> QED BY <3>1, <3>2, <3>3, <3>4 DEF Booked
    <2> QED BY <2>1, <2>2
  <1>8. ASSUME NEW k \in Conn PROVE Abreast(k)'
    <2>1. state'[k] \in {"off", "connected"} =>
            name'[k] = NoName /\ rx'[k] = <<>> /\ tx'[k] = <<>>
      <3>1. ASSUME state[k] \in {"off", "connected"} PROVE k # p
        <4>1. name[k] = NoName
          BY <3>1 DEF Abreast
        <4>2. partner[k] = NoOne
          BY <4>1 DEF Booked
        <4> QED BY <1>2, <4>2, RelayAssumption DEF TypeOK
      <3> QED BY <1>1, <1>3, <1>5, <3>1 DEF Abreast
    <2>2. state'[k] = "waiting" /\ partner'[k] # NoOne => Queued(k, "START")'
      <3>1. partner'[k] # NoOne => k \notin {c, p}
        BY <1>5
      <3>2. k \notin {c, p} => tx'[k] = tx[k] /\ partner'[k] = partner[k]
        BY <1>3, <1>5
      <3> QED BY <1>1, <3>1, <3>2 DEF Abreast, Queued
    <2>3. \A i \in 1 .. Len(rx'[k]) :
            rx'[k][i] = "HELLO" => i = 1 /\ name'[k] = NoName
      BY <1>5 DEF Abreast
    <2> QED BY <2>1, <2>2, <2>3 DEF Abreast
  <1>9. ASSUME NEW k \in clients' PROVE Informed(k)'
    <2>1. k \in clients /\ k \in Conn /\ k # c
      BY <1>1 DEF TypeOK
    <2>2. CASE k = p
      <3>1. tx[k] \in Seq(ToConsole)
        BY <2>1 DEF TypeOK
      <3>2. tx'[k] = Append(tx[k], Left)
        BY <1>3, <2>1, <2>2
      <3>3. Has(Append(tx[k], Left), "PEER_LEFT")
        BY <3>1, AppendHas, Frames
      <3> QED BY <3>2, <3>3 DEF Informed, Queued, Has
    <2>3. CASE k # p
      BY <1>1, <1>3, <1>5, <2>1, <2>3 DEF Informed, Queued
    <2> QED BY <2>2, <2>3
  <1>10. ASSUME NEW k \in clients', Waiting(k)' PROVE k \in clients /\ Waiting(k)
    <2>1. k \in clients /\ k \in Conn /\ k # c
      BY <1>1 DEF TypeOK
    <2>2. CASE k = p
      <3>1. tx[k] \in Seq(ToConsole)
        BY <2>1 DEF TypeOK
      <3>2. state[k] = "waiting"
        BY <1>1, <1>10 DEF Waiting
      <3>3. Has(tx[k], "START")
        BY <1>2, <2>1, <2>2, <3>2, QueuedHas, RelayAssumption DEF Abreast
      <3>4. Has(tx'[k], "START")
        BY <1>3, <2>1, <2>2, <3>1, <3>3, AppendHas, Frames
      <3> QED BY <1>10, <3>4 DEF Waiting, Queued, Has
    <2>3. CASE k # p
      BY <1>1, <1>3, <1>5, <1>10, <2>1, <2>3 DEF Waiting, Queued
    <2> QED BY <2>2, <2>3
  <1>11. WaitersAreAlone'
    BY <1>10 DEF WaitersAreAlone
  <1> QED BY <1>4, <1>6, <1>7, <1>8, <1>9, <1>11

\* An INPUT passed on adds neither a START nor a PEER_LEFT.
LEMMA ForwardStep == ASSUME RInv, NEW c \in clients, Forward(c) PROVE RInv'
  <1> USE DEF RInv
  <1>1. /\ rx[c] # <<>> /\ rx' = [rx EXCEPT ![c] = Tail(@)]
        /\ UNCHANGED <<relay, consoles>>
    BY DEF Forward, Gets
  <1>2. c \in Conn /\ rx[c] \in Seq(ToRelay)
    BY DEF TypeOK
  <1>3. ASSUME NEW k \in Conn
        PROVE  tx'[k] = tx[k] \/ tx'[k] = Append(tx[k], Input)
    BY DEF Forward, TypeOK
  <1>4. ASSUME NEW k \in Conn
        PROVE  /\ Queued(k, "START")' <=> Queued(k, "START")
               /\ Queued(k, "PEER_LEFT")' <=> Queued(k, "PEER_LEFT")
               /\ tx'[k] \in Seq(ToConsole)
    <2>1. tx[k] \in Seq(ToConsole)
      BY DEF TypeOK
    <2>2. Queued(k, "START")' <=> Has(tx'[k], "START")
      BY DEF Queued, Has
    <2>3. Queued(k, "PEER_LEFT")' <=> Has(tx'[k], "PEER_LEFT")
      BY DEF Queued, Has
    <2>4. CASE tx'[k] = tx[k]
      BY <2>1, <2>2, <2>3, <2>4, QueuedHas
    <2>5. CASE tx'[k] = Append(tx[k], Input)
      <3>1. /\ Has(tx'[k], "START") <=> Has(tx[k], "START")
            /\ Has(tx'[k], "PEER_LEFT") <=> Has(tx[k], "PEER_LEFT")
            /\ tx'[k] \in Seq(ToConsole)
        BY <2>1, <2>5, AppendHas, Frames
      <3> QED BY <2>2, <2>3, <3>1, QueuedHas
    <2> QED BY <1>3, <2>4, <2>5
  <1>5. TypeOK'
    <2>1. Tail(rx[c]) \in Seq(ToRelay)
      BY <1>1, <1>2
    <2>2. rx' \in [Conn -> Seq(ToRelay)]
      BY <1>1, <2>1 DEF TypeOK
    <2>3. tx' \in [Conn -> Seq(ToConsole)]
      <3>1. tx' = [k \in Conn |-> tx'[k]]
        BY DEF Forward, TypeOK
      <3> QED BY <1>4, <3>1
    <2> QED BY <1>1, <2>2, <2>3 DEF TypeOK, relay, consoles
  <1>6. ASSUME NEW k \in Conn PROVE Booked(k)'
    BY <1>1 DEF Booked, relay
  <1>7. ASSUME NEW k \in Conn PROVE Abreast(k)'
    <2>1. state'[k] \in {"off", "connected"} =>
            name'[k] = NoName /\ rx'[k] = <<>> /\ tx'[k] = <<>>
      <3>1. ASSUME state[k] \in {"off", "connected"}
            PROVE  k # c /\ tx'[k] = tx[k]
        <4>1. k # c
          BY <1>1, <3>1 DEF Abreast
        <4>2. partner[k] = NoOne
          BY <3>1 DEF Abreast, Booked
        <4>3. k # partner[c] \/ partner[c] = NoOne
          BY <1>2, <4>2, RelayAssumption DEF Booked, TypeOK
        <4> QED BY <4>1, <4>3 DEF Forward, TypeOK
      <3> QED BY <1>1, <1>2, <3>1 DEF Abreast, relay, consoles, TypeOK
    <2>2. \A i \in 1 .. Len(rx'[k]) :
            rx'[k][i] = "HELLO" => i = 1 /\ name'[k] = NoName
      <3>1. CASE k # c
        BY <1>1, <3>1 DEF Abreast, relay, TypeOK
      <3>2. CASE k = c
        <4>1. rx'[k] = Tail(rx[c])
          BY <1>1, <1>2, <3>2 DEF TypeOK
        <4>2. ASSUME NEW i \in 1 .. Len(rx'[k]) PROVE rx'[k][i] # "HELLO"
          <5>1. i + 1 \in 1 .. Len(rx[c]) /\ Tail(rx[c])[i] = rx[c][i + 1]
            <6>1. i \in 1 .. Len(Tail(rx[c])) /\ rx[c] # <<>>
              BY <1>1, <4>1
            <6>2. i + 1 \in 2 .. Len(rx[c])
              BY <1>2, <6>1, TailSlots
            <6> QED BY <1>2, <6>1, <6>2, TailSlots
          <5> QED BY <1>2, <4>1, <5>1 DEF Abreast
        <4> QED BY <4>2
      <3> QED BY <3>1, <3>2
    <2> QED BY <1>1, <1>4, <2>1, <2>2 DEF Abreast, relay, consoles
  <1>8. ASSUME NEW k \in clients' PROVE Informed(k)'
    BY <1>1, <1>4 DEF Informed, relay, consoles, TypeOK
  <1>9. WaitersAreAlone'
    BY <1>1, <1>4 DEF WaitersAreAlone, Waiting, relay, consoles, TypeOK
  <1> QED BY <1>1, <1>5, <1>6, <1>7, <1>8, <1>9 DEF relay

\* HELLO: the newcomer either finds nobody idle, and waits alone, or is in a
\* match at once.
LEMMA HelloStep == ASSUME RInv, NEW c \in clients, Hello(c) PROVE RInv'
  <1> USE DEF RInv
  <1>1. /\ c \in Conn /\ rx[c] \in Seq(ToRelay)
        /\ rx[c] # <<>> /\ rx[c][1] = "HELLO"
    BY DEF TypeOK, Hello, Gets
  <1>2. /\ name[c] = NoName /\ partner[c] = NoOne
        /\ state[c] \notin {"off", "connected"}
    BY <1>1 DEF Abreast, Booked
  <1>3. PICK n \in Name : /\ by_name[n] = NoOne
                          /\ name' = [name EXCEPT ![c] = n]
                          /\ by_name' = [by_name EXCEPT ![n] = c]
    BY DEF Hello
  <1>4. /\ rx' = [rx EXCEPT ![c] = Tail(@)]
        /\ UNCHANGED <<clients, elders, consoles>>
    BY DEF Hello
  <1>5. /\ \A k \in Conn : name'[k] = IF k = c THEN n ELSE name[k]
        /\ \A m \in Name : by_name'[m] = IF m = n THEN c ELSE by_name[m]
        /\ n # NoName
    BY <1>1, <1>3, RelayAssumption DEF TypeOK
  <1>6. ASSUME NEW m \in Name, by_name'[m] # NoOne PROVE name'[by_name'[m]] = m
    <2>1. CASE m = n
      BY <1>1, <1>5, <2>1
    <2>2. CASE m # n
      <3>1. /\ by_name'[m] = by_name[m] /\ by_name[m] \in Conn
            /\ name[by_name[m]] = m
        BY <1>5, <1>6, <2>2 DEF TypeOK
      <3>2. by_name[m] # c
        BY <1>2, <3>1, RelayAssumption
      <3> QED BY <1>5, <3>1, <3>2
    <2> QED BY <2>1, <2>2
  <1>7. ASSUME NEW k \in Conn, name'[k] # NoName
        PROVE  k \in clients /\ by_name'[name'[k]] = k
    <2>1. CASE k = c
      BY <1>5, <2>1
    <2>2. CASE k # c
      <3>1. name'[k] = name[k] /\ name[k] \in Name /\ by_name[name[k]] = k
            /\ k \in clients
        BY <1>5, <1>7, <2>2 DEF Booked, TypeOK
      <3>2. name[k] # n
        BY <1>3, <3>1, RelayAssumption
      <3> QED BY <1>5, <3>1, <3>2
    <2> QED BY <2>1, <2>2
  <1>8. /\ rx' \in [Conn -> Seq(ToRelay)]
        /\ name' \in [Conn -> Name \cup {NoName}]
        /\ by_name' \in [Name -> Conn \cup {NoOne}]
    BY <1>1, <1>3, <1>4 DEF TypeOK
  <1>9. ASSUME NEW k \in Conn
        PROVE  \A i \in 1 .. Len(rx'[k]) :
                 rx'[k][i] = "HELLO" => i = 1 /\ name'[k] = NoName
    <2>1. CASE k # c
      BY <1>4, <1>5, <2>1 DEF Abreast, TypeOK
    <2>2. CASE k = c
      <3>1. rx'[k] = Tail(rx[c])
        BY <1>1, <1>4, <2>2 DEF TypeOK
      <3>2. ASSUME NEW i \in 1 .. Len(rx'[k]) PROVE rx'[k][i] # "HELLO"
        <4>1. i + 1 \in 1 .. Len(rx[c]) /\ rx'[k][i] = rx[c][i + 1]
          BY <1>1, <3>1
        <4> QED BY <1>1, <4>1 DEF Abreast
      <3> QED BY <3>2
    <2> QED BY <2>1, <2>2
  <1>10. ASSUME NEW k \in Conn, state'[k] \in {"off", "connected"}
         PROVE  name'[k] = NoName /\ rx'[k] = <<>> /\ tx[k] = <<>>
                /\ name[k] = NoName
    BY <1>2, <1>4, <1>5, <1>10 DEF Abreast, TypeOK, consoles
  <1>11. CASE Idle(c) = {}
    <2>1. UNCHANGED <<partner, role, tx>>
      BY <1>11 DEF Hello
    <2>2. TypeOK'
      BY <1>4, <1>8, <2>1 DEF TypeOK, consoles
    <2>3. ASSUME NEW k \in Conn PROVE Booked(k)'
      BY <1>4, <1>5, <1>7, <2>1 DEF Booked
    <2>4. ASSUME NEW k \in Conn PROVE Abreast(k)'
      BY <1>4, <1>9, <1>10, <2>1 DEF Abreast, Queued, consoles
    <2>5. ASSUME NEW k \in clients' PROVE Informed(k)'
      BY <1>4, <2>1 DEF Informed, Queued, consoles
    <2>6. ASSUME NEW k \in clients, Waiting(k)' PROVE k = c
      <3>1. ASSUME k # c PROVE k \in Idle(c)
        BY <1>5, <2>1, <2>6, <3>1 DEF Waiting, Idle, TypeOK
      <3> QED BY <1>11, <3>1
    <2>7. WaitersAreAlone'
      BY <1>4, <2>6 DEF WaitersAreAlone
    <2> QED BY <1>6, <2>2, <2>3, <2>4, <2>5, <2>7
  <1>12. CASE Idle(c) # {}
    <2>1. PICK o \in Idle(c) :
            /\ partner' = [partner EXCEPT ![o] = c, ![c] = o]
            /\ role' = Roles(o, c)
            /\ tx' = [tx EXCEPT ![o] = Append(@, Start(role'[o])),
                                ![c] = Append(@, Start(role'[c]))]
      BY <1>12 DEF Hello
    <2>2. /\ o \in clients /\ o \in Conn /\ o # c
          /\ name[o] # NoName /\ partner[o] = NoOne
      BY DEF Idle, TypeOK
    <2>3. /\ \A k \in Conn : role'[k] = IF k = o THEN 0
                                        ELSE IF k = c THEN 1 ELSE role[k]
          /\ role' \in [Conn -> Role]
          /\ \A k \in Conn : partner'[k] = IF k = o THEN c
                                           ELSE IF k = c THEN o ELSE partner[k]
          /\ partner' \in [Conn -> Conn \cup {NoOne}]
      <3>1. role' = [role EXCEPT ![o] = 0, ![c] = 1] /\ role \in [Conn -> Role]
        BY <2>1 DEF Roles, TypeOK
      <3>2. 0 \in Role /\ 1 \in Role
        BY DEF Role
      <3>3. /\ partner' = [partner EXCEPT ![o] = c, ![c] = o]
            /\ partner \in [Conn -> Conn \cup {NoOne}]
        BY <2>1 DEF TypeOK
      <3> QED BY <1>1, <2>2, <3>1, <3>2, <3>3
    <2>4. ASSUME NEW k \in Conn
          PROVE  /\ k \notin {o, c} => tx'[k] = tx[k]
                 /\ k \in {o, c} => /\ Has(tx'[k], "START")
                 /\ tx'[k] \in Seq(ToConsole)
      <3>1. tx[k] \in Seq(ToConsole)
        BY DEF TypeOK
      <3>2. CASE k \in {o, c}
        <4>1. tx'[k] = Append(tx[k], Start(role'[k]))
          BY <1>1, <2>1, <2>2, <3>2 DEF TypeOK
        <4>2. role'[k] \in Role
          BY <2>3
        <4>3. Start(role'[k]) \in ToConsole /\ Start(role'[k]).type = "START"
          BY <4>2, Frames
        <4> QED BY <3>1, <3>2, <4>1, <4>3, AppendHas
      <3>3. CASE k \notin {o, c}
        BY <2>1, <3>1, <3>3 DEF TypeOK
      <3> QED BY <3>2, <3>3
    <2>5. TypeOK'
      <3>1. tx' = [k \in Conn |-> tx'[k]]
        BY <2>1 DEF TypeOK
      <3>2. tx' \in [Conn -> Seq(ToConsole)]
        BY <2>4, <3>1
      <3> QED BY <1>4, <1>8, <2>3, <3>2 DEF TypeOK, consoles
    <2>6. ASSUME NEW k \in Conn PROVE Booked(k)'
      <3>1. CASE k \in {o, c}
        BY <1>1, <1>4, <1>5, <1>7, <2>2, <2>3, <3>1 DEF Booked
      <3>2. CASE k \notin {o, c}
        <4>1. partner'[k] = partner[k]
          BY <2>3, <3>2
        <4>2. partner[k] # NoOne => partner[k] \in Conn \ {o, c}
          BY <1>1, <1>2, <2>2, <3>2, RelayAssumption DEF Booked
        <4> QED BY <1>4, <1>5, <1>7, <2>3, <3>2, <4>1, <4>2 DEF Booked
      <3> QED BY <3>1, <3>2
    <2>7. ASSUME NEW k \in Conn PROVE Abreast(k)'
      <3>1. state'[k] \in {"off", "connected"} => k \notin {o, c}
        BY <1>2, <1>4, <1>10, <2>2 DEF consoles
      <3>2. state'[k] \in {"off", "connected"} => tx'[k] = <<>>
        BY <1>10, <2>4, <3>1
      <3>3. k \in {o, c} => Queued(k, "START")'
        BY <2>4 DEF Queued, Has
      <3>4. k \notin {o, c} => tx'[k] = tx[k] /\ partner'[k] = partner[k]
        BY <2>3, <2>4
      <3>5. state'[k] = "waiting" /\ partner'[k] # NoOne => Queued(k, "START")'
        BY <1>4, <3>3, <3>4 DEF Abreast, Queued, consoles
      <3> QED BY <1>9, <1>10, <3>2, <3>5 DEF Abreast
    <2>8. ASSUME NEW k \in clients' PROVE Informed(k)'
      <3>1. k \in clients /\ k \in Conn
        BY <1>4 DEF TypeOK
      <3>2. partner'[k] = NoOne => k \notin {o, c}
        BY <1>1, <2>2, <2>3, RelayAssumption
      <3>3. k \notin {o, c} => tx'[k] = tx[k] /\ partner'[k] = partner[k]
        BY <2>3, <2>4, <3>1
      <3> QED BY <1>4, <3>1, <3>2, <3>3 DEF Informed, Queued, consoles
    <2>9. ASSUME NEW k \in clients, Waiting(k)' PROVE Waiting(k)
      <3>1. k \in Conn
        BY DEF TypeOK
      <3>2. k \notin {o, c}
        BY <1>1, <2>2, <2>3, <2>9, <3>1, RelayAssumption DEF Waiting
      <3> QED BY <1>4, <1>5, <2>3, <2>4, <2>9, <3>1, <3>2
              DEF Waiting, Queued, consoles
    <2>10. WaitersAreAlone'
      BY <1>4, <2>9 DEF WaitersAreAlone
    <2> QED BY <1>6, <2>5, <2>6, <2>7, <2>8, <2>10
  <1> QED BY <1>11, <1>12

-----------------------------------------------------------------------------
\* The invariant is inductive.
LEMMA NextInv == RInv /\ [Next]_vars => RInv'
  <1> SUFFICES ASSUME RInv, [Next]_vars PROVE RInv'
    OBVIOUS
  <1>1. CASE UNCHANGED vars
    <2>1. TypeOK'
      BY <1>1 DEF vars, relay, consoles, RInv, TypeOK
    <2>2. \A n \in Name : by_name'[n] # NoOne => name'[by_name'[n]] = n
      BY <1>1 DEF vars, relay, RInv
    <2>3. \A k \in Conn : Booked(k)' /\ Abreast(k)'
      <3>1. ASSUME NEW k \in Conn PROVE Booked(k)'
        BY <1>1 DEF vars, relay, RInv, Booked
      <3>2. ASSUME NEW k \in Conn PROVE Abreast(k)'
        BY <1>1 DEF vars, relay, consoles, RInv, Abreast, Queued, Has
      <3> QED BY <3>1, <3>2
    <2>4. \A k \in clients' : Informed(k)'
      BY <1>1 DEF vars, relay, consoles, RInv, Informed, Queued, Has
    <2>5. WaitersAreAlone'
      BY <1>1 DEF vars, relay, consoles, RInv, WaitersAreAlone, Waiting, Queued,
         Has
    <2> QED BY <2>1, <2>2, <2>3, <2>4, <2>5 DEF RInv
  <1>2. ASSUME NEW c \in Conn, HangsUp(c) \/ Sweep(c) \/ Flush(c) PROVE RInv'
    BY <1>2, DropStep DEF HangsUp, Gets, Sweep, Flush
  <1>3. ASSUME NEW c \in Conn, Hello(c) PROVE RInv'
    BY <1>3, HelloStep DEF Hello, Gets
  <1>4. ASSUME NEW c \in Conn, Forward(c) PROVE RInv'
    BY <1>4, ForwardStep DEF Forward, Gets
  <1>5. CASE Next
    BY <1>2, <1>3, <1>4, <1>5, AcceptStep, SayStep, ReadStep DEF Next
  <1> QED BY <1>1, <1>5

\* The invariant holds of every behaviour.
LEMMA AlwaysInv == Spec => []RInv
  BY InitInv, NextInv, PTL DEF Spec

-----------------------------------------------------------------------------
\* The relay's tables keep their types, through every HELLO, forward and drop.
THEOREM TypeCorrect == Spec => []TypeOK
  <1>1. RInv => TypeOK
    BY DEF RInv
  <1> QED BY <1>1, AlwaysInv, PTL

\* drop and try_pair never leave half a match: a partner is a client and has
\* this client for its own.
THEOREM MatchesAreWhole == Spec => []PartnersMutual
  <1>1. RInv => PartnersMutual
    BY RelayAssumption DEF RInv, TypeOK, Booked, PartnersMutual
  <1> QED BY <1>1, AlwaysInv, PTL

\* by_name and the clients agree on who is there: the lobby's count of players
\* is the number of clients with a name.
THEOREM NamesAreExact == Spec => []NamesExact
  <1>1. RInv => NamesExact
    BY RelayAssumption DEF RInv, TypeOK, Booked, NamesExact
  <1> QED BY <1>1, AlwaysInv, PTL

\* try_pair never leaves two consoles waiting for a first opponent.
THEOREM NobodyWaitsBesideAnother == Spec => []WaitersAreAlone
  <1>1. RInv => WaitersAreAlone
    BY DEF RInv
  <1> QED BY <1>1, AlwaysInv, PTL

\* drop tells the partner, however the drop came about, and the frame that says
\* so is never lost while the survivor stays connected.
THEOREM SurvivorsAreTold == Spec => []SurvivorIsTold
  <1>1. RInv => SurvivorIsTold
    BY DEF RInv, Informed, SurvivorIsTold
  <1> QED BY <1>1, AlwaysInv, PTL

\* Host and guest are never given the same role, whoever is paired again.
THEOREM RolesDiffer == Spec => []RolesComplement
  <1>1. RInv => RolesComplement
    BY RelayAssumption DEF RInv, TypeOK, Booked, RolesComplement
  <1> QED BY <1>1, AlwaysInv, PTL
=============================================================================
