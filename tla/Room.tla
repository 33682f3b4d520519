-------------------------------- MODULE Room ---------------------------------
(***************************************************************************)
(* The relay as a room of the FujiNet Lobby                                *)
(* (src/server/tennis_relay_server.py): the names its players go by, the   *)
(* thread that publishes how many they are, and the way the room is taken  *)
(* down.                                                                   *)
(*                                                                         *)
(* Two threads share LobbyPublisher's payload and dirty flag.  What one of *)
(* them does under the condition variable's lock is one step here; wait    *)
(* gives the lock up, so it is two.  The Lobby is a server of its own: a   *)
(* POST is a request on its way, answered, given up on, or recorded after  *)
(* its sender has given up on it.                                          *)
(***************************************************************************)
EXTENDS Naturals, Sequences, FiniteSets

CONSTANTS
  Letter, Digit,  \* what names are made of
  NAME_LEN,       \* the longest name: eight in the code
  Wish,           \* the names consoles ask for
  MAX_CLIENTS,    \* connections the relay accepts: 64 in the code
  MaxLate,        \* bound: requests given up on and still on their way
  NoName, NoRow

ASSUME RoomAssumption ==
  /\ NAME_LEN \in Nat \ {0, 1}
  /\ Wish \subseteq UNION {[1 .. n -> Letter] : n \in 1 .. NAME_LEN}
  /\ MAX_CLIENTS \in Nat /\ MaxLate \in Nat
  /\ NoName \notin Seq(Letter \cup Digit)

VARIABLES
  by_name,     \* the names in use
  pending,     \* the name on_hello has on trial
  main,        \* where the server's thread is
  dirty,       \* LobbyPublisher.dirty
  payload,     \* LobbyPublisher.payload
  publisher,   \* where the publisher's thread is
  requests,    \* POSTs on their way to the Lobby
  row,         \* what the Lobby says of this room
  hurried      \* a POST was given up on, or the publisher was not waited for

room == <<by_name, pending>>
vars == <<room, main, dirty, payload, publisher, requests, row, hurried>>

Body == [status: {"online", "offline"}, curplayers: 0 .. MAX_CLIENTS]
Sender == {"publisher", "main", "nobody"}

Init ==
  /\ by_name = {} /\ pending = NoName
  /\ main = "serve"
  /\ dirty = TRUE
  /\ payload = [status |-> "online", curplayers |-> 0]
  /\ publisher = "top"
  /\ requests = {} /\ row = NoRow
  /\ hurried = FALSE

\* A request on its way, and who waits for the answer.
Post(sender, what) == [from |-> sender, body |-> what]
InFlight(sender) == {r \in requests : r.from = sender}

\* The requests once a sender waits no more.
GivenUpBy(sender) ==
  {[r EXCEPT !.from = IF @ = sender THEN "nobody" ELSE @] : r \in requests}

-----------------------------------------------------------------------------
(* The server's thread: who is in the room *)

\* update: the new count, and the publisher is woken if it waits.
Update(names) ==
  /\ payload' = [payload EXCEPT !.curplayers = Cardinality(names)]
  /\ dirty' = TRUE
  /\ publisher' = IF publisher = "wait" THEN "woken" ELSE publisher

\* A HELLO that is in order brings the name a console would like.  The console
\* is a client itself, so there are fewer than MAX_CLIENTS with a name.
Arrive(n) ==
  /\ main = "serve" /\ Cardinality(by_name) < MAX_CLIENTS
  /\ pending' = n
  /\ main' = "hello"
  /\ UNCHANGED <<by_name, dirty, payload, publisher, requests, row, hurried>>

\* name[:7], which is the whole of a shorter name
Cut(n) == IF Len(n) < NAME_LEN THEN n ELSE SubSeq(n, 1, NAME_LEN - 1)

RenamedLongMutant(n, d) == n \o <<d>>

RenamedMutant(n, d) == IF Len(n) < NAME_LEN THEN n \o <<d>> ELSE n

\* name[:7] + digit
Renamed(n, d) == Cut(n) \o <<d>>

\* Somebody has that name.
Rename(d) ==
  /\ main = "hello" /\ pending \in by_name
  /\ pending' = Renamed(pending, d)
  /\ UNCHANGED <<by_name, main, dirty, payload, publisher, requests,
                 row, hurried>>

\* The name is free.  try_pair comes next, which may find an opponent.
Register ==
  /\ main = "hello" /\ pending \notin by_name
  /\ by_name' = by_name \cup {pending}
  /\ pending' = NoName
  /\ Update(by_name')
  /\ main' \in {"serve", "paired"}
  /\ UNCHANGED <<requests, row, hurried>>

\* try_pair made a match, and says so to the Lobby too.
Paired ==
  /\ main = "paired"
  /\ main' = "serve"
  /\ Update(by_name)
  /\ UNCHANGED <<room, requests, row, hurried>>

\* drop, of a client that bears a name or of one that never said HELLO.
Depart ==
  /\ main = "serve"
  /\ \/ \E n \in by_name : by_name' = by_name \ {n}
     \/ UNCHANGED by_name
  /\ Update(by_name')
  /\ UNCHANGED <<pending, main, requests, row, hurried>>

-----------------------------------------------------------------------------
(* The server's thread: the way out *)

\* SIGTERM or Ctrl-C, in the middle of whatever it does; shutdown begins and
\* rewrites the payload.  on_hello or drop is cut short.
Terminate ==
  /\ main \in {"serve", "hello", "paired"}
  /\ main' = "stop"
  /\ pending' = NoName
  /\ payload' = [payload EXCEPT !.status = "offline"]
  /\ UNCHANGED <<by_name, dirty, publisher, requests, row, hurried>>

\* stop.set(), and notify.
Stop ==
  /\ main = "stop"
  /\ main' = "notify"
  /\ UNCHANGED <<room, dirty, payload, publisher, requests, row, hurried>>

NotifyMutant ==
  /\ main = "notify"
  /\ main' = "post"
  /\ UNCHANGED <<room, dirty, payload, publisher, requests, row, hurried>>

Notify ==
  /\ main = "notify"
  /\ main' = "join"
  /\ publisher' = IF publisher = "wait" THEN "woken" ELSE publisher
  /\ UNCHANGED <<room, dirty, payload, requests, row, hurried>>

\* join returns: the publisher has finished.
Joined ==
  /\ main = "join" /\ publisher = "gone"
  /\ main' = "post"
  /\ UNCHANGED <<room, dirty, payload, publisher, requests, row, hurried>>

\* join returns after twelve seconds: the publisher missed the notify and
\* sleeps on, or its POST takes longer than that, a connection and a reply
\* having ten seconds each.
JoinTimesOut ==
  /\ main = "join" /\ publisher \in {"wait", "post"}
  /\ main' = "post"
  /\ hurried' = (hurried \/ publisher # "wait")
  /\ UNCHANGED <<room, dirty, payload, publisher, requests, row>>

\* The offline POST goes out, or its connection fails and that is that.
PostOffline ==
  /\ main = "post"
  /\ \/ /\ main' = "reply"
        /\ requests' = requests \cup {Post("main", payload)}
        /\ UNCHANGED hurried
     \/ /\ main' = "done" /\ hurried' = TRUE
        /\ UNCHANGED requests
  /\ UNCHANGED <<room, dirty, payload, publisher, row>>

\* A urlopen without its timeout.
GiveUpOfflineMutant == FALSE

\* The reply does not come in time.
GiveUpOffline ==
  /\ main = "reply" /\ InFlight("main") # {}
  /\ main' = "done"
  /\ hurried' = TRUE
  /\ requests' = GivenUpBy("main")
  /\ UNCHANGED <<room, dirty, payload, publisher, row>>

\* A second signal, and shutdown is itself cut short.
TerminateAgain ==
  /\ main \in {"stop", "notify", "join", "post", "reply"}
  /\ main' = "killed"
  /\ UNCHANGED <<room, dirty, payload, publisher, requests, row, hurried>>

-----------------------------------------------------------------------------
(* The publisher's thread.  It is a daemon: it ends with the process. *)

Alive == main \notin {"done", "killed"}
Stopped == main \notin {"serve", "hello", "paired", "stop"}

\* The head of the loop.
Loop ==
  /\ Alive /\ publisher = "top"
  /\ publisher' = IF Stopped THEN "gone" ELSE "lock"
  /\ UNCHANGED <<room, main, dirty, payload, requests, row, hurried>>

\* There is something to say, or it is time to say it again: the body is the
\* payload as it is now; then the lock is given up and post opens the request.
Take ==
  /\ Alive
  /\ publisher = "woken" \/ (publisher = "lock" /\ dirty)
  /\ publisher' = "post"
  /\ requests' = requests \cup {Post("publisher", payload)}
  /\ dirty' = FALSE
  /\ UNCHANGED <<room, main, payload, row, hurried>>

\* Nothing to say: wait for a notify, or for the keepalive to be due.
Wait ==
  /\ Alive /\ publisher = "lock" /\ ~dirty
  /\ publisher' = "wait"
  /\ UNCHANGED <<room, main, dirty, payload, requests, row, hurried>>

KeepaliveMutant ==
  /\ Alive /\ publisher = "wait"
  /\ publisher' = "pause"
  /\ UNCHANGED <<room, main, dirty, payload, requests, row, hurried>>

\* wait(KEEPALIVE) runs out.
Keepalive ==
  /\ Alive /\ publisher = "wait"
  /\ publisher' = "woken"
  /\ UNCHANGED <<room, main, dirty, payload, requests, row, hurried>>

\* An OSError, which post() counts, logs and forgets: the request never left,
\* or no reply came in time and it is still on its way.
PostFails ==
  /\ Alive /\ publisher = "post"
  /\ publisher' = "pause"
  /\ \/ requests' = requests \ InFlight("publisher") /\ UNCHANGED hurried
     \/ /\ Cardinality(InFlight("nobody")) < MaxLate
        /\ requests' = GivenUpBy("publisher") /\ hurried' = TRUE
  /\ UNCHANGED <<room, main, dirty, payload, row>>

\* stop.wait(1.0)
Pause ==
  /\ Alive /\ publisher = "pause"
  /\ publisher' = "top"
  /\ UNCHANGED <<room, main, dirty, payload, requests, row, hurried>>

-----------------------------------------------------------------------------
(* The Lobby *)

\* It records a request, and whoever waits for the answer has it.  Requests
\* are connections of their own and overtake one another.
Record(sender) ==
  \E r \in InFlight(sender) :
    /\ row' = r.body
    /\ requests' = requests \ {r}
    /\ publisher' = IF sender = "publisher" /\ Alive THEN "pause" ELSE publisher
    /\ main' = IF sender = "main" /\ main = "reply" THEN "done" ELSE main
    /\ UNCHANGED <<room, dirty, payload, hurried>>

-----------------------------------------------------------------------------
Main ==
  \/ Register \/ Paired \/ Stop \/ Notify \/ Joined \/ JoinTimesOut
  \/ PostOffline \/ GiveUpOffline

Publisher ==
  \/ Loop \/ Take \/ Wait \/ Keepalive \/ PostFails \/ Pause

Next ==
  \/ (\E n \in Wish : Arrive(n)) \/ (\E d \in Digit : Rename(d))
  \/ Depart \/ Terminate \/ TerminateAgain
  \/ Main \/ Publisher
  \/ \E s \in Sender : Record(s)

Spec == Init /\ [][Next]_vars

\* Both threads run.  random.randrange leaves no digit out for ever, and the
\* Lobby is not always unreachable, nor always too slow.
Fairness ==
  /\ WF_vars(Main) /\ \A d \in Digit : SF_vars(Rename(d))
  /\ WF_vars(Publisher) /\ SF_vars(Record("publisher"))
  /\ WF_vars(Record("nobody"))

FairSpec == Spec /\ Fairness

-----------------------------------------------------------------------------
(* Properties *)

\* Names are at most NAME_LEN long, renamed ones too; each thread is at a line
\* of its code.
TypeOK ==
  /\ \A n \in by_name \cup ({pending} \ {NoName}) :
       n \in Seq(Letter \cup Digit) /\ Len(n) \in 1 .. NAME_LEN
  /\ main \in {"serve", "hello", "paired", "stop", "notify", "join", "post",
                "reply", "done", "killed"}
  /\ dirty \in BOOLEAN
  /\ payload \in Body
  /\ publisher \in {"top", "lock", "wait", "woken", "post", "pause", "gone"}
  /\ requests \subseteq [from: Sender, body: Body]
  /\ row \in Body \cup {NoRow}
  /\ hurried \in BOOLEAN

\* When a clean shutdown is over the Lobby says "offline": the publisher's
\* last POST, made from a payload of before, is not recorded after the
\* farewell.  Excepted are runs where a request was given up on and those
\* where join did not wait for the last one.
OfflineIsLast == main = "done" /\ ~hurried => row.status = "offline"

\* The number of players the Lobby shows becomes right once it stops changing,
\* whatever POSTs failed, came late or overtook one another in between: this
\* is what the keepalive is for.
CountReachesTheLobby == \A n \in 0 .. MAX_CLIENTS :
  <>[](main = "serve" /\ Cardinality(by_name) = n)
    => <>[](row = [status |-> "online", curplayers |-> n])

\* on_hello finds a name if there is one to find, and the server goes back to
\* its loop: while no name cut short has all of its digits in use, the loop
\* that renames comes to its end, whatever was asked for and drawn.
FreeNameIsFound ==
  /\ main = "hello"
  /\ \A n \in [1 .. NAME_LEN - 1 -> Letter \cup Digit] :
       \E d \in Digit : n \o <<d>> \notin by_name
  ~> main # "hello"

\* Shutdown comes to its end, whatever the publisher's thread is doing, whether
\* or not it heard the notify, and even if the Lobby never answers again.
ShutdownEnds == (main = "stop") ~> (main \in {"done", "killed"})

-----------------------------------------------------------------------------
\* tennis_relay_server.py says of itself that "it pairs two consoles, hands each
\* a role and a seed, and then forwards frames between them": whoever says
\* HELLO, the server comes back from on_hello to do so.  It does not if there
\* are more clients than candidates for a name.
HelloEnds == main = "hello" ~> main # "hello"
=============================================================================
