----------------------------- MODULE RoomProofs -----------------------------
(***************************************************************************)
(* Names stay within their length and the number of players within its     *)
(* bound; and a clean shutdown leaves the Lobby at "offline".              *)
(***************************************************************************)
EXTENDS Room, FiniteSetTheorems, SequenceTheorems, TLAPS

Symbol == Letter \cup Digit
Name == {n \in Seq(Symbol) : Len(n) \in 1 .. NAME_LEN}

\* Who is in the room, and where the threads are.
RoomOK ==
  /\ IsFiniteSet(by_name) /\ Cardinality(by_name) <= MAX_CLIENTS
  /\ by_name \subseteq Name /\ pending \in Name \cup {NoName}
  /\ main = "hello" => pending \in Name /\ Cardinality(by_name) < MAX_CLIENTS

\* The threads, and what they share.
ThreadsOK ==
  /\ main \in {"serve", "hello", "paired", "stop", "notify", "join", "post",
                "reply", "done", "killed"}
  /\ dirty \in BOOLEAN
  /\ payload \in Body
  /\ publisher \in {"top", "lock", "wait", "woken", "post", "pause", "gone"}
  /\ requests \subseteq [from: Sender, body: Body]
  /\ row \in Body \cup {NoRow}
  /\ hurried \in BOOLEAN

Serving == main \in {"serve", "hello", "paired"}

\* Once shutdown has begun the payload says so.
GoingAway == ~Serving => payload.status = "offline"

\* The publisher has at most one request open, and only while it posts; the
\* farewell is not out before it is sent; nobody's request is on its way
\* unless one was given up on.
OneEach ==
  /\ \A r, s \in InFlight("publisher") : r = s
  /\ publisher # "post" => InFlight("publisher") = {}
  /\ main \notin {"reply", "done", "killed"} => InFlight("main") = {}
  /\ ~hurried => InFlight("nobody") = {}

\* From the farewell on nothing on its way says "online".
Farewell ==
  main \in {"post", "reply", "done"} /\ ~hurried =>
    \A r \in requests : r.body.status = "offline"

RInv == ThreadsOK /\ RoomOK /\ GoingAway /\ OneEach /\ Farewell /\ OfflineIsLast

-----------------------------------------------------------------------------
(* Names and counts *)

\* What a console asks for is a name.
LEMMA WishIsName == Wish \subseteq Name
  <1> SUFFICES ASSUME NEW w \in Wish PROVE w \in Name
    OBVIOUS
  <1>1. PICK n \in 1 .. NAME_LEN : w \in [1 .. n -> Letter]
    BY RoomAssumption
  <1>2. n \in Nat /\ w \in Seq(Letter) /\ Len(w) = n
    BY <1>1, RoomAssumption
  <1>3. w \in Seq(Symbol)
    BY <1>1, <1>2 DEF Symbol
  <1> QED BY <1>1, <1>2, <1>3 DEF Name

\* A name that was changed is still no longer than the screen.
LEMMA RenamedIsName ==
  ASSUME NEW n \in Name, NEW d \in Digit
  PROVE  Renamed(n, d) \in Name
  <1>1. n \in Seq(Symbol) /\ Len(n) \in 1 .. NAME_LEN /\ NAME_LEN \in Nat \ {0, 1}
    BY RoomAssumption DEF Name
  <1>2. Cut(n) \in Seq(Symbol) /\ Len(Cut(n)) \in 1 .. NAME_LEN - 1
    <2>1. CASE Len(n) < NAME_LEN
      BY <1>1, <2>1 DEF Cut
    <2>2. CASE ~(Len(n) < NAME_LEN)
      <3>1. NAME_LEN - 1 \in Nat \ {0} /\ Len(n) = NAME_LEN
        BY <1>1, <2>2
      <3>2. Cut(n) = SubSeq(n, 1, NAME_LEN - 1)
        BY <2>2 DEF Cut
      <3>3. \A i \in 1 .. NAME_LEN - 1 : n[i] \in Symbol
        BY <1>1, <3>1
      <3>4. /\ SubSeq(n, 1, NAME_LEN - 1) \in Seq(Symbol)
            /\ Len(SubSeq(n, 1, NAME_LEN - 1))
                 = IF 1 <= NAME_LEN - 1 THEN NAME_LEN - 1 - 1 + 1 ELSE 0
        BY <3>1, <3>3, SubSeqProperties
      <3> QED BY <3>1, <3>2, <3>4
    <2> QED BY <2>1, <2>2
  <1>3. <<d>> \in Seq(Symbol) /\ Len(<<d>>) = 1
    BY DEF Symbol
  <1>4. /\ Cut(n) \o <<d>> \in Seq(Symbol)
        /\ Len(Cut(n) \o <<d>>) = Len(Cut(n)) + 1
    BY <1>2, <1>3
  <1> QED BY <1>1, <1>2, <1>4 DEF Renamed, Name

\* There is no name that is none.
LEMMA NoNameIsNone == NoName \notin Name
  BY RoomAssumption DEF Name, Symbol

\* Taken together, the room and the threads are of their types.
LEMMA TypesOK == ThreadsOK /\ RoomOK => TypeOK
  BY DEF ThreadsOK, RoomOK, TypeOK, Name, Symbol

\* The players of a room that is in order can be counted.
LEMMA CountOK ==
  ASSUME NEW S, IsFiniteSet(S), Cardinality(S) <= MAX_CLIENTS
  PROVE  Cardinality(S) \in 0 .. MAX_CLIENTS
  BY FS_CardinalityType, RoomAssumption

-----------------------------------------------------------------------------
LEMMA InitInv == Init => RInv
  <1> SUFFICES ASSUME Init PROVE RInv
    OBVIOUS
  <1> USE DEF Init
  <1>1. RoomOK
    BY FS_EmptySet, RoomAssumption DEF RoomOK
  <1>2. ThreadsOK
    <2>1. [status |-> "online", curplayers |-> 0] \in Body
      BY RoomAssumption DEF Body
    <2> QED BY <2>1 DEF ThreadsOK
  <1>3. GoingAway /\ OneEach /\ Farewell /\ OfflineIsLast
    BY DEF GoingAway, Serving, OneEach, InFlight, Farewell, OfflineIsLast
  <1> QED BY <1>1, <1>2, <1>3 DEF RInv

End == GoingAway /\ OneEach /\ Farewell /\ OfflineIsLast

\* While the room is served, its end is only concerned with the publisher.
LEMMA ServingKeepsEnd ==
  ASSUME RInv, Serving, Serving', UNCHANGED <<requests, hurried>>,
         publisher = "post" => publisher' = "post"
  PROVE  End'
  BY DEF RInv, End, GoingAway, Serving, OneEach, InFlight, Farewell, OfflineIsLast

\* The payload keeps its shape when the count changes.
LEMMA UpdateFacts ==
  ASSUME RInv, NEW names, IsFiniteSet(names), Cardinality(names) <= MAX_CLIENTS,
         Update(names)
  PROVE  /\ payload' \in Body /\ payload'.status = payload.status
         /\ dirty' = TRUE
         /\ publisher' \in {"top", "lock", "wait", "woken", "post", "pause", "gone"}
         /\ publisher = "post" => publisher' = "post"
  <1>1. payload \in Body
    BY DEF RInv, ThreadsOK
  <1>2. Cardinality(names) \in 0 .. MAX_CLIENTS
    BY CountOK
  <1>3. payload' = [payload EXCEPT !.curplayers = Cardinality(names)]
    BY DEF Update
  <1>4. payload' \in Body /\ payload'.status = payload.status
    BY <1>1, <1>2, <1>3 DEF Body
  <1>5. dirty' = TRUE
    BY DEF Update
  <1>6. publisher' = IF publisher = "wait" THEN "woken" ELSE publisher
    BY DEF Update
  <1> QED BY <1>4, <1>5, <1>6 DEF RInv, ThreadsOK

LEMMA ArriveInv ==
  ASSUME RInv, NEW n \in Wish, Arrive(n)
  PROVE  RInv'
  <1>1. RoomOK'
    BY WishIsName DEF Arrive, RInv, RoomOK
  <1>2. ThreadsOK'
    BY DEF Arrive, RInv, ThreadsOK
  <1>3. End'
    BY ServingKeepsEnd DEF Arrive, Serving
  <1> QED BY <1>1, <1>2, <1>3 DEF RInv, End

LEMMA RenameInv ==
  ASSUME RInv, NEW d \in Digit, Rename(d)
  PROVE  RInv'
  <1>1. RoomOK'
    BY RenamedIsName DEF Rename, RInv, RoomOK
  <1>2. ThreadsOK'
    BY DEF Rename, RInv, ThreadsOK
  <1>3. End'
    BY ServingKeepsEnd DEF Rename, Serving
  <1> QED BY <1>1, <1>2, <1>3 DEF RInv, End

LEMMA RegisterInv == RInv /\ Register => RInv'
  <1> SUFFICES ASSUME RInv, Register PROVE RInv'
    OBVIOUS
  <1>1. /\ pending \in Name /\ by_name' = by_name \cup {pending}
        /\ IsFiniteSet(by_name) /\ Cardinality(by_name) < MAX_CLIENTS
        /\ pending \notin by_name
    BY DEF Register, RInv, RoomOK
  <1>2. IsFiniteSet(by_name') /\ Cardinality(by_name') <= MAX_CLIENTS
    <2>1. Cardinality(by_name) \in Nat
      BY <1>1, FS_CardinalityType
    <2>2. IsFiniteSet(by_name') /\ Cardinality(by_name') = Cardinality(by_name) + 1
      BY <1>1, FS_AddElement
    <2> QED BY <1>1, <2>1, <2>2, RoomAssumption
  <1>3. RoomOK'
    BY <1>1, <1>2 DEF Register, RInv, RoomOK
  <1>4. /\ payload' \in Body /\ payload'.status = payload.status
        /\ dirty' = TRUE
        /\ publisher' \in {"top", "lock", "wait", "woken", "post", "pause", "gone"}
        /\ publisher = "post" => publisher' = "post"
    BY <1>2, UpdateFacts DEF Register
  <1>5. ThreadsOK'
    BY <1>4 DEF Register, RInv, ThreadsOK
  <1>6. End'
    BY <1>4, ServingKeepsEnd DEF Register, Serving
  <1> QED BY <1>3, <1>5, <1>6 DEF RInv, End

LEMMA PairedInv == RInv /\ Paired => RInv'
  <1> SUFFICES ASSUME RInv, Paired PROVE RInv'
    OBVIOUS
  <1>1. RoomOK'
    BY DEF Paired, RInv, RoomOK, room
  <1>2. IsFiniteSet(by_name) /\ Cardinality(by_name) <= MAX_CLIENTS
    BY DEF RInv, RoomOK
  <1>3. /\ payload' \in Body /\ payload'.status = payload.status
        /\ dirty' = TRUE
        /\ publisher' \in {"top", "lock", "wait", "woken", "post", "pause", "gone"}
        /\ publisher = "post" => publisher' = "post"
    BY <1>2, UpdateFacts DEF Paired
  <1>4. ThreadsOK'
    BY <1>3 DEF Paired, RInv, ThreadsOK
  <1>5. End'
    BY <1>3, ServingKeepsEnd DEF Paired, Serving
  <1> QED BY <1>1, <1>4, <1>5 DEF RInv, End

LEMMA DepartInv == RInv /\ Depart => RInv'
  <1> SUFFICES ASSUME RInv, Depart PROVE RInv'
    OBVIOUS
  <1>1. /\ by_name' \in SUBSET by_name /\ UNCHANGED pending
        /\ main = "serve" /\ main' = "serve"
    BY DEF Depart
  <1>2. IsFiniteSet(by_name') /\ Cardinality(by_name') <= MAX_CLIENTS
    <2>1. IsFiniteSet(by_name) /\ Cardinality(by_name) <= MAX_CLIENTS
      BY DEF RInv, RoomOK
    <2>2. IsFiniteSet(by_name') /\ Cardinality(by_name') <= Cardinality(by_name)
      BY <1>1, <2>1, FS_Subset
    <2>3. Cardinality(by_name) \in Nat /\ Cardinality(by_name') \in Nat
      BY <2>1, <2>2, FS_CardinalityType
    <2> QED BY <2>1, <2>2, <2>3, RoomAssumption
  <1>3. RoomOK'
    BY <1>1, <1>2 DEF RInv, RoomOK
  <1>4. /\ payload' \in Body /\ payload'.status = payload.status
        /\ dirty' = TRUE
        /\ publisher' \in {"top", "lock", "wait", "woken", "post", "pause", "gone"}
        /\ publisher = "post" => publisher' = "post"
    BY <1>2, UpdateFacts DEF Depart
  <1>5. ThreadsOK'
    BY <1>1, <1>4 DEF Depart, RInv, ThreadsOK
  <1>6. End'
    BY <1>1, <1>4, ServingKeepsEnd DEF Depart, Serving
  <1> QED BY <1>3, <1>5, <1>6 DEF RInv, End

-----------------------------------------------------------------------------
(* The way out *)

\* Nobody comes and nobody goes.
LEMMA SameRoom ==
  ASSUME RInv, UNCHANGED by_name, pending' \in {pending, NoName},
         main' # "hello" \/ (main = "hello" /\ UNCHANGED pending)
  PROVE  RoomOK'
  BY DEF RInv, RoomOK

LEMMA TerminateInv == RInv /\ Terminate => RInv'
  <1> SUFFICES ASSUME RInv, Terminate PROVE RInv'
    OBVIOUS
  <1>1. RoomOK'
    BY SameRoom DEF Terminate
  <1>2. payload' \in Body /\ payload'.status = "offline"
    BY DEF Terminate, RInv, ThreadsOK, Body
  <1>3. ThreadsOK'
    BY <1>2 DEF Terminate, RInv, ThreadsOK
  <1>4. End'
    BY <1>2 DEF Terminate, RInv, End, GoingAway, OneEach, InFlight, Farewell,
                OfflineIsLast
  <1> QED BY <1>1, <1>3, <1>4 DEF RInv, End

LEMMA StopInv == RInv /\ (Stop \/ Notify \/ TerminateAgain) => RInv'
  <1> SUFFICES ASSUME RInv, Stop \/ Notify \/ TerminateAgain PROVE RInv'
    OBVIOUS
  <1> USE DEF Stop, Notify, TerminateAgain
  <1>1. RoomOK'
    BY SameRoom DEF room
  <1>2. ThreadsOK'
    BY DEF RInv, ThreadsOK
  <1>3. End'
    BY DEF RInv, End, GoingAway, Serving, OneEach, InFlight, Farewell,
           OfflineIsLast
  <1> QED BY <1>1, <1>2, <1>3 DEF RInv, End

\* When the publisher is at rest, or join did not wait for it, the farewell has
\* the field to itself.
LEMMA JoinInv == RInv /\ (Joined \/ JoinTimesOut) => RInv'
  <1> SUFFICES ASSUME RInv, Joined \/ JoinTimesOut PROVE RInv'
    OBVIOUS
  <1> USE DEF Joined, JoinTimesOut
  <1>1. RoomOK'
    BY SameRoom DEF room
  <1>2. ThreadsOK'
    BY DEF RInv, ThreadsOK
  <1>3. GoingAway' /\ OneEach' /\ OfflineIsLast'
    BY DEF RInv, GoingAway, Serving, OneEach, InFlight, OfflineIsLast
  <1>4. Farewell'
    <2> SUFFICES ASSUME ~hurried', NEW r \in requests PROVE FALSE
      BY DEF Farewell
    <2>1. ~hurried /\ publisher # "post" /\ main = "join"
      BY DEF RInv, ThreadsOK
    <2>2. r.from \in Sender
      BY DEF RInv, ThreadsOK
    <2>3. \A f \in Sender : InFlight(f) = {}
      BY <2>1 DEF RInv, OneEach, Sender
    <2> QED BY <2>2, <2>3 DEF InFlight
  <1> QED BY <1>1, <1>2, <1>3, <1>4 DEF RInv

\* A request is what was posted.
LEMMA PostFacts ==
  ASSUME RInv, NEW f \in Sender
  PROVE  /\ Post(f, payload) \in [from: Sender, body: Body]
         /\ Post(f, payload).from = f /\ Post(f, payload).body = payload
  BY DEF RInv, ThreadsOK, Post

LEMMA PostOfflineInv == RInv /\ PostOffline => RInv'
  <1> SUFFICES ASSUME RInv, PostOffline PROVE RInv'
    OBVIOUS
  <1>1. RoomOK'
    BY SameRoom DEF PostOffline, room
  <1>2. UNCHANGED <<dirty, payload, publisher, row>> /\ main = "post"
    BY DEF PostOffline
  <1>3. payload.status = "offline"
    BY <1>2 DEF RInv, GoingAway, Serving
  <1>4. CASE /\ main' = "reply"
             /\ requests' = requests \cup {Post("main", payload)}
             /\ UNCHANGED hurried
    <2>1. /\ Post("main", payload) \in [from: Sender, body: Body]
          /\ Post("main", payload).from = "main"
          /\ Post("main", payload).body = payload
      BY PostFacts DEF Sender
    <2>2. ThreadsOK'
      BY <1>2, <1>4, <2>1 DEF RInv, ThreadsOK
    <2>3. InFlight("publisher")' = InFlight("publisher")
            /\ InFlight("nobody")' = InFlight("nobody")
      BY <1>4, <2>1 DEF InFlight
    <2>4. GoingAway' /\ OneEach' /\ OfflineIsLast'
      BY <1>2, <1>3, <1>4, <2>3 DEF RInv, GoingAway, OneEach, OfflineIsLast
    <2>5. Farewell'
      BY <1>2, <1>3, <1>4, <2>1 DEF RInv, Farewell
    <2> QED BY <1>1, <2>2, <2>4, <2>5 DEF RInv
  <1>5. CASE main' = "done" /\ hurried' = TRUE /\ UNCHANGED requests
    <2>1. ThreadsOK'
      BY <1>2, <1>5 DEF RInv, ThreadsOK
    <2>2. End'
      BY <1>2, <1>3, <1>5 DEF RInv, End, GoingAway, OneEach, InFlight, Farewell,
                             OfflineIsLast
    <2> QED BY <1>1, <2>1, <2>2 DEF RInv, End
  <1> QED BY <1>4, <1>5 DEF PostOffline

\* A request given up on keeps what it says, and belongs to nobody.
LEMMA GivenUpFacts ==
  ASSUME RInv, NEW f \in {"publisher", "main"}
  PROVE  /\ GivenUpBy(f) \subseteq [from: Sender, body: Body]
         /\ \A r \in GivenUpBy(f) : r.from # f
         /\ \A r \in GivenUpBy(f) : r.from # "nobody" => r \in requests
  <1> SUFFICES ASSUME NEW q \in requests
      PROVE  LET r == [q EXCEPT !.from = IF @ = f THEN "nobody" ELSE @]
             IN  /\ r \in [from: Sender, body: Body] /\ r.from # f
                 /\ r.from # "nobody" => r = q
    BY DEF GivenUpBy
  <1>1. q \in [from: Sender, body: Body]
    BY DEF RInv, ThreadsOK
  <1> QED BY <1>1 DEF Sender

LEMMA GiveUpOfflineInv == RInv /\ GiveUpOffline => RInv'
  <1> SUFFICES ASSUME RInv, GiveUpOffline PROVE RInv'
    OBVIOUS
  <1>1. RoomOK'
    BY SameRoom DEF GiveUpOffline, room
  <1>2. /\ requests' \subseteq [from: Sender, body: Body]
        /\ \A r \in requests' : r.from # "main"
        /\ \A r \in requests' : r.from # "nobody" => r \in requests
    BY GivenUpFacts DEF GiveUpOffline
  <1>3. ThreadsOK'
    BY <1>2 DEF GiveUpOffline, RInv, ThreadsOK
  <1>4. End'
    BY <1>2 DEF GiveUpOffline, RInv, End, GoingAway, Serving, OneEach, InFlight,
                Farewell, OfflineIsLast
  <1> QED BY <1>1, <1>3, <1>4 DEF RInv, End

-----------------------------------------------------------------------------
(* The publisher *)

LEMMA QuietInv == RInv /\ (Loop \/ Wait \/ Keepalive \/ Pause) => RInv'
  <1> SUFFICES ASSUME RInv, Loop \/ Wait \/ Keepalive \/ Pause PROVE RInv'
    OBVIOUS
  <1> USE DEF Loop, Wait, Keepalive, Pause
  <1>1. RoomOK'
    BY SameRoom DEF RInv, room
  <1>2. ThreadsOK'
    BY DEF RInv, ThreadsOK
  <1>3. End'
    BY DEF RInv, End, GoingAway, Serving, OneEach, InFlight, Farewell,
           OfflineIsLast
  <1> QED BY <1>1, <1>2, <1>3 DEF RInv, End

LEMMA TakeInv == RInv /\ Take => RInv'
  <1> SUFFICES ASSUME RInv, Take PROVE RInv'
    OBVIOUS
  <1>1. UNCHANGED <<room, main, payload, row, hurried>>
          /\ requests' = requests \cup {Post("publisher", payload)}
          /\ publisher' = "post" /\ publisher # "post" /\ dirty' = FALSE
          /\ main \notin {"done", "killed"}
    BY DEF Take, Alive
  <1>2. RoomOK'
    BY <1>1, SameRoom DEF RInv, room
  <1>3. /\ Post("publisher", payload) \in [from: Sender, body: Body]
        /\ Post("publisher", payload).from = "publisher"
        /\ Post("publisher", payload).body = payload
    BY PostFacts DEF Sender
  <1>4. ThreadsOK'
    BY <1>1, <1>3 DEF RInv, ThreadsOK
  <1>5. InFlight("publisher")' = {Post("publisher", payload)}
          /\ InFlight("main")' = InFlight("main")
          /\ InFlight("nobody")' = InFlight("nobody")
    BY <1>1, <1>3 DEF InFlight, RInv, OneEach
  <1>6. GoingAway' /\ OneEach' /\ OfflineIsLast'
    BY <1>1, <1>5 DEF RInv, GoingAway, Serving, OneEach, OfflineIsLast
  <1>7. Farewell'
    BY <1>1, <1>3 DEF RInv, GoingAway, Serving, Farewell
  <1> QED BY <1>2, <1>4, <1>6, <1>7 DEF RInv

LEMMA PostFailsInv == RInv /\ PostFails => RInv'
  <1> SUFFICES ASSUME RInv, PostFails PROVE RInv'
    OBVIOUS
  <1>1. UNCHANGED <<room, main, dirty, payload, row>> /\ publisher' = "pause"
          /\ main \notin {"done", "killed"}
    BY DEF PostFails, Alive
  <1>2. RoomOK'
    BY <1>1, SameRoom DEF RInv, room
  <1>3. CASE requests' = requests \ InFlight("publisher") /\ UNCHANGED hurried
    <2>1. ThreadsOK'
      BY <1>1, <1>3 DEF RInv, ThreadsOK
    <2>2. End'
      BY <1>1, <1>3 DEF RInv, End, GoingAway, Serving, OneEach, InFlight,
                        Farewell, OfflineIsLast
    <2> QED BY <1>2, <2>1, <2>2 DEF RInv, End
  <1>4. CASE requests' = GivenUpBy("publisher") /\ hurried' = TRUE
    <2>1. /\ requests' \subseteq [from: Sender, body: Body]
          /\ \A r \in requests' : r.from # "publisher"
          /\ \A r \in requests' : r.from # "nobody" => r \in requests
      BY <1>4, GivenUpFacts
    <2>2. ThreadsOK'
      BY <1>1, <1>4, <2>1 DEF RInv, ThreadsOK
    <2>3. End'
      BY <1>1, <1>4, <2>1 DEF RInv, End, GoingAway, Serving, OneEach, InFlight,
                              Farewell, OfflineIsLast
    <2> QED BY <1>2, <2>2, <2>3 DEF RInv, End
  <1> QED BY <1>3, <1>4 DEF PostFails

-----------------------------------------------------------------------------
(* The Lobby *)

LEMMA RecordInv ==
  ASSUME RInv, NEW s \in Sender, Record(s)
  PROVE  RInv'
  <1>1. PICK r \in InFlight(s) :
          /\ row' = r.body
          /\ requests' = requests \ {r}
          /\ publisher' = IF s = "publisher" /\ Alive THEN "pause" ELSE publisher
          /\ main' = IF s = "main" /\ main = "reply" THEN "done" ELSE main
          /\ UNCHANGED <<room, dirty, payload, hurried>>
    BY DEF Record
  <1>2. r \in requests /\ r.from = s /\ r.body \in Body
    BY <1>1 DEF InFlight, RInv, ThreadsOK
  <1>3. RoomOK'
    BY <1>1, SameRoom DEF RInv, room
  <1>4. ThreadsOK'
    BY <1>1, <1>2 DEF RInv, ThreadsOK
  <1>5. \A f \in Sender : InFlight(f)' = InFlight(f) \ {r}
    BY <1>1 DEF InFlight
  <1>6. s = "publisher" => InFlight("publisher")' = {}
    BY <1>1, <1>5 DEF RInv, OneEach, Sender
  <1>7. GoingAway'
    BY <1>1 DEF RInv, GoingAway, Serving
  <1>8. OneEach'
    <2>1. \A q, t \in InFlight("publisher")' : q = t
      BY <1>5 DEF RInv, OneEach, Sender
    <2>2. publisher' # "post" => InFlight("publisher")' = {}
      BY <1>1, <1>5, <1>6 DEF RInv, OneEach, Sender
    <2>3. main' \notin {"reply", "done", "killed"} => InFlight("main")' = {}
      BY <1>1, <1>5 DEF RInv, OneEach, Sender
    <2>4. ~hurried' => InFlight("nobody")' = {}
      BY <1>1, <1>5 DEF RInv, OneEach, Sender
    <2> QED BY <2>1, <2>2, <2>3, <2>4 DEF OneEach
  <1>9. Farewell'
    BY <1>1 DEF RInv, Farewell
  <1>10. OfflineIsLast'
    BY <1>1, <1>2 DEF RInv, Farewell, OfflineIsLast
  <1> QED BY <1>3, <1>4, <1>7, <1>8, <1>9, <1>10 DEF RInv

-----------------------------------------------------------------------------
LEMMA RoomInvariant == Spec => []RInv
  <1>1. RInv /\ [Next]_vars => RInv'
    <2> SUFFICES ASSUME RInv, [Next]_vars PROVE RInv'
      OBVIOUS
    <2>1. CASE UNCHANGED vars
      BY <2>1 DEF vars, room, RInv, ThreadsOK, RoomOK, GoingAway, Serving, OneEach,
                  InFlight, Farewell, OfflineIsLast
    <2> QED BY <2>1, ArriveInv, RenameInv, RegisterInv, PairedInv, DepartInv,
               TerminateInv, StopInv, JoinInv, PostOfflineInv, GiveUpOfflineInv,
               QuietInv, TakeInv, PostFailsInv, RecordInv
            DEF Next, Main, Publisher
  <1> QED BY <1>1, InitInv, PTL DEF Spec

\* Type correctness: in particular no name on_hello makes up is longer than the
\* eight letters a START has room for, and the count published is the room's.
THEOREM TypeCorrect == Spec => []TypeOK
  BY RoomInvariant, TypesOK, PTL DEF RInv

\* After a clean shutdown the room is offline in the Lobby, for any number of
\* players and names and any interleaving of the two threads and the Lobby, if
\* no request was given up on and the publisher's last was waited for.
THEOREM FarewellIsLast == Spec => []OfflineIsLast
  BY RoomInvariant, PTL DEF RInv
=============================================================================
