------------------------------- MODULE Relay --------------------------------
(***************************************************************************)
(* The relay (src/server/tennis_relay_server.py) and the connections of    *)
(* the consoles it serves: names, pairing, forwarding and drops.           *)
(*                                                                         *)
(* The relay is one thread around select: it handles one frame, one        *)
(* acceptance or one drop at a time, each an action here.  Between them    *)
(* the consoles act on the far ends of the streams.  A console connects,   *)
(* says HELLO, waits for START, plays and hangs up, as the ROM's boot bank *)
(* and TNGONE do; a console that connects again is a new connection.       *)
(***************************************************************************)
EXTENDS Integers, Sequences, FiniteSets

CONSTANTS
  Conn,           \* connections, one for each time a console dials
  Name,           \* the names in use
  NoOne, NoName,  \* Python's None
  MAX_CLIENTS,    \* how many connections the relay holds
  MAX_TX_BACKLOG, \* how many frames may wait for a client
  MaxRx           \* bound: frames of a client the relay has not handled yet

ASSUME RelayAssumption ==
  /\ NoOne \notin Conn /\ NoName \notin Name
  /\ MAX_CLIENTS \in Nat /\ MAX_TX_BACKLOG \in Nat /\ MaxRx \in Nat \ {0}

VARIABLES
  clients,   \* self.clients
  by_name,   \* self.by_name: the client of a name
  elders,    \* Client.born: the clients accepted before a client
  name,      \* Client.name
  partner,   \* Client.partner
  role,      \* Client.role
  rx,        \* frames of a client on their way to the relay
  tx,        \* frames of the relay on their way to a client
  state,     \* the console at the far end: "off", "connected", "waiting" for
             \* START, "playing" or "closed"
  told       \* the console has read the PEER_LEFT of its match

relay == <<clients, by_name, elders, name, partner, role>>
consoles == <<state, told>>
vars == <<relay, rx, tx, consoles>>

Role == {0, 1}
Start(r) == [type |-> "START", role |-> r]
Input == [type |-> "INPUT"]
Left == [type |-> "PEER_LEFT"]
ToConsole == {Start(r) : r \in Role} \cup {Input, Left}
ToRelay == {"HELLO", "REFUSED", "INPUT", "EOF"}

Init ==
  /\ clients = {}
  /\ by_name = [n \in Name |-> NoOne]
  /\ elders = [c \in Conn |-> {}]
  /\ name = [c \in Conn |-> NoName]
  /\ partner = [c \in Conn |-> NoOne]
  /\ role = [c \in Conn |-> 0]
  /\ rx = [c \in Conn |-> <<>>]
  /\ tx = [c \in Conn |-> <<>>]
  /\ state = [c \in Conn |-> "off"]
  /\ told = [c \in Conn |-> FALSE]

-----------------------------------------------------------------------------
(* The relay *)

\* A connection is accepted.
Accept(c) ==
  /\ state[c] = "off" /\ Cardinality(clients) < MAX_CLIENTS
  /\ clients' = clients \cup {c}
  /\ elders' = [elders EXCEPT ![c] = clients]
  /\ state' = [state EXCEPT ![c] = "connected"]
  /\ UNCHANGED <<by_name, name, partner, role, rx, tx, told>>

WithoutMutant(c) == by_name

\* by_name once c is dropped.
Without(c) ==
  [n \in Name |-> IF by_name[n] = c /\ name[c] = n THEN NoOne ELSE by_name[n]]

FreedMutant(c) == [partner EXCEPT ![c] = NoOne]

\* The partners once c is dropped: the one it had has none, and is idle again.
Freed(c) == [k \in Conn |-> IF k \in {c, partner[c]} THEN NoOne
                                                     ELSE partner[k]]

ToldOffMutant(c) == tx

\* The queues once c is dropped: its partner is told.
ToldOff(c) ==
  [k \in Conn |-> IF k = partner[c] THEN Append(tx[k], Left) ELSE tx[k]]

\* drop(c): the connection is closed, what its streams still hold is lost and
\* its Client is no more.
Drop(c) ==
  /\ by_name' = Without(c)
  /\ partner' = Freed(c)
  /\ tx' = [ToldOff(c) EXCEPT ![c] = <<>>]
  /\ clients' = clients \ {c}
  /\ elders' = [k \in Conn |-> IF k = c THEN {} ELSE elders[k] \ {c}]
  /\ name' = [name EXCEPT ![c] = NoName]
  /\ role' = [role EXCEPT ![c] = 0]
  /\ rx' = [rx EXCEPT ![c] = <<>>]
  /\ UNCHANGED consoles

Gets(c, type) == c \in clients /\ rx[c] # <<>> /\ Head(rx[c]) = type

\* The stream ends, or brings a HELLO the relay refuses.
HangsUp(c) == (Gets(c, "EOF") \/ Gets(c, "REFUSED")) /\ Drop(c)

\* sweep: a client that never said HELLO is dropped.
Sweep(c) == c \in clients /\ name[c] = NoName /\ Drop(c)

\* flush: a client that does not read is dropped.
Flush(c) == c \in clients /\ Len(tx[c]) > MAX_TX_BACKLOG /\ Drop(c)

IdleMutant(c) == {o \in clients : name[o] # NoName /\ o # c}
IdleEldersMutant(c) ==
  {o \in elders[c] : name[o] # NoName /\ partner[o] = NoOne /\ o # c}

\* The clients c can be paired with.
Idle(c) == {o \in clients : name[o] # NoName /\ partner[o] = NoOne /\ o # c}

RolesMutant(host, guest) == [role EXCEPT ![guest] = 1]
PlayersMutant(host, guest) == [role EXCEPT ![host] = 1, ![guest] = 2]

\* The console that was waiting is the host.
Roles(host, guest) == [role EXCEPT ![host] = 0, ![guest] = 1]

\* A good HELLO: a name nobody has, and a match with the oldest idle client.
Hello(c) ==
  /\ Gets(c, "HELLO")
  /\ rx' = [rx EXCEPT ![c] = Tail(@)]
  /\ \E n \in {n \in Name : by_name[n] = NoOne} :
       /\ name' = [name EXCEPT ![c] = n]
       /\ by_name' = [by_name EXCEPT ![n] = c]
  /\ IF Idle(c) = {} THEN UNCHANGED <<partner, role, tx>>
     ELSE \E o \in Idle(c) :
       /\ elders[o] \cap Idle(c) = {}
       /\ partner' = [partner EXCEPT ![o] = c, ![c] = o]
       /\ role' = Roles(o, c)
       /\ tx' = [tx EXCEPT ![o] = Append(@, Start(role'[o])),
                           ![c] = Append(@, Start(role'[c]))]
  /\ UNCHANGED <<clients, elders, consoles>>

\* An INPUT is passed on to the partner, whoever that is now.  One that would
\* overfill the partner's queue is handled after flush has looked at it.
Forward(c) ==
  /\ Gets(c, "INPUT")
  /\ rx' = [rx EXCEPT ![c] = Tail(@)]
  /\ IF partner[c] = NoOne THEN UNCHANGED tx
     ELSE /\ Len(tx[partner[c]]) <= MAX_TX_BACKLOG
          /\ tx' = [tx EXCEPT ![partner[c]] = Append(@, Input)]
  /\ UNCHANGED <<relay, consoles>>

-----------------------------------------------------------------------------
(* The consoles *)

Says(c, type) ==
  /\ c \in clients /\ Len(rx[c]) < MaxRx
  /\ rx' = [rx EXCEPT ![c] = Append(@, type)]

\* HELLO: one the relay takes, or one it refuses for what it declares.
SayHello(c) ==
  /\ state[c] = "connected"
  /\ Says(c, "HELLO") \/ Says(c, "REFUSED")
  /\ state' = [state EXCEPT ![c] = "waiting"]
  /\ UNCHANGED <<relay, tx, told>>

ReadStart(c) ==
  /\ state[c] = "waiting" /\ tx[c] # <<>> /\ Head(tx[c]).type = "START"
  /\ state' = [state EXCEPT ![c] = "playing"]
  /\ tx' = [tx EXCEPT ![c] = Tail(@)]
  /\ UNCHANGED <<relay, rx, told>>

SendInput(c) ==
  /\ state[c] = "playing"
  /\ Says(c, "INPUT")
  /\ UNCHANGED <<relay, tx, consoles>>

\* READ in the match takes whole frames of eight bytes.
ReadFrame(c) ==
  /\ state[c] = "playing" /\ tx[c] # <<>> /\ Head(tx[c]).type # "START"
  /\ told' = [told EXCEPT ![c] = @ \/ Head(tx[c]).type = "PEER_LEFT"]
  /\ tx' = [tx EXCEPT ![c] = Tail(@)]
  /\ UNCHANGED <<relay, rx, state>>

\* The watchdog of a match tops out, a boot gives up, a console is reset: the
\* socket is closed, and the RAM forgets the match.
Forgets(c) ==
  /\ state[c] \in {"connected", "waiting", "playing"}
  /\ state' = [state EXCEPT ![c] = "closed"]
  /\ told' = [told EXCEPT ![c] = FALSE]
  /\ UNCHANGED <<relay, tx>>

Close(c) == Forgets(c) /\ Says(c, "EOF")

\* A console is switched off and no packet says so, or finds its connection
\* closed by the relay.
Unplug(c) == Forgets(c) /\ UNCHANGED rx

Next == \E c \in Conn :
  \/ Accept(c) \/ HangsUp(c) \/ Sweep(c) \/ Flush(c) \/ Hello(c) \/ Forward(c)
  \/ SayHello(c) \/ ReadStart(c) \/ SendInput(c) \/ ReadFrame(c) \/ Close(c)
  \/ Unplug(c)

Spec == Init /\ [][Next]_vars

-----------------------------------------------------------------------------
(* Properties *)

TypeOK ==
  /\ clients \subseteq Conn
  /\ by_name \in [Name -> Conn \cup {NoOne}]
  /\ elders \in [Conn -> SUBSET Conn]
  /\ name \in [Conn -> Name \cup {NoName}]
  /\ partner \in [Conn -> Conn \cup {NoOne}]
  /\ role \in [Conn -> Role]
  /\ rx \in [Conn -> Seq(ToRelay)]
  /\ tx \in [Conn -> Seq(ToConsole)]
  /\ state \in [Conn -> {"off", "connected", "waiting", "playing", "closed"}]
  /\ told \in [Conn -> BOOLEAN]

\* A client's partner is a client, and has it for a partner: no drop, in any
\* order with the HELLOs, leaves half a match behind.
PartnersMutual == \A c \in clients : partner[c] # NoOne =>
  /\ partner[c] \in clients
  /\ partner[partner[c]] = c
  /\ partner[c] # c
  /\ name[c] # NoName

\* The room's count of players is right: a name leads to the one client that
\* bears it, and every client that said HELLO is found by its name.
NamesExact ==
  /\ \A n \in Name : by_name[n] # NoOne =>
       by_name[n] \in clients /\ name[by_name[n]] = n
  /\ \A c \in clients : name[c] # NoName => by_name[name[c]] = c

\* Is there a frame of this type on its way to c?
Queued(c, type) == \E i \in 1 .. Len(tx[c]) : tx[c][i].type = type

\* A console waits for its first opponent.
Waiting(c) == /\ name[c] # NoName /\ partner[c] = NoOne
              /\ state[c] = "waiting" /\ ~Queued(c, "START")

\* Two consoles never wait for an opponent at the same time: the second to say
\* HELLO is paired, if not with the first then with one older than it.
WaitersAreAlone == \A c, d \in clients : Waiting(c) /\ Waiting(d) => c = d

\* A console in a match whose partner is gone is told so, unless the relay has
\* given it another: it is not left to find out by stalling.
SurvivorIsTold == \A c \in clients :
  state[c] = "playing" /\ partner[c] = NoOne =>
    told[c] \/ Queued(c, "PEER_LEFT")

\* The two consoles of a match are told different roles: one is the host.
RolesComplement == \A c, d \in clients :
  c # d /\ partner[c] = d => role[c] # role[d]

-----------------------------------------------------------------------------
\* tennis_relay_server.py: "EVERY FRAME A CONSOLE CAN RECEIVE DURING PLAY IS
\* EXACTLY EIGHT BYTES ON THE WIRE."  A START is fifteen.
EightBytesInPlay == \A c \in clients :
  state[c] = "playing" => ~Queued(c, "START")
=============================================================================
