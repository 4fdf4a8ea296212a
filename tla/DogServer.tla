------------------------------ MODULE DogServer ------------------------------
(* The TCP server of dogrun2: one goroutine per connection, which reads a    *)
(* packet, serves it and reads the next; the login of a user; the care of    *)
(* the user's dogs; and the process, which one panic takes down with every   *)
(* session, since nothing recovers.  The server sends nothing back.          *)
EXTENDS Naturals, Sequences, FiniteSets

CONSTANTS
  Conns,        \* bound: the connections there will ever be
  Users, Dogs,
  None,         \* no user id; also a body that does not parse
  Requests,     \* the packets each client may send: a command and a body
  FirstDocs,    \* the "user" documents at the start, of some of the users
  DogDocs,      \* the "dog" documents: each user's dogs and their CDs
  Entries,      \* the length of the tables in food.cfg, play.cfg, train.cfg
  ResChoices,   \* which of the tables a start of the process may find
  MaxSends,     \* bound: packets on each connection
  MaxStarts,    \* bound: starts of the process
  MaxTime       \* bound: the clock

Care == {"DogFeed", "DogPlay", "DogTrain"}   \* also the index of CD
Commands == Care \cup {"UserLogin", "Reserved", "Unregistered"}
Bodies == Users \cup {None} \cup [dog : Dogs, type : Nat]
Packets == [cmd : Commands \cup {"Invalid"}, body : Bodies]

(* What of a document the properties tell apart: whether it holds what the   *)
(* player owns, and LastLogin.  The zero value is what a new user has.       *)
UserDb == [own : BOOLEAN, last : 0..MaxTime]
ZeroDb == [own |-> FALSE, last |-> 0]
NoDogs == [d \in {} |-> 0]

ASSUME DogAssumption ==
  /\ None \notin Users \cup UserDb
  /\ \A u \in Users : u \notin [dog : Dogs, type : Nat]
  /\ Requests \in [Conns -> SUBSET Packets]
  /\ FirstDocs \in [Users -> [own : BOOLEAN, last : {0}] \cup {None}]
  /\ \A u \in Users : /\ DOMAIN DogDocs[u] \subseteq Dogs
                      /\ \A d \in DOMAIN DogDocs[u] :
                           DogDocs[u][d] \in [Care -> Nat]
  /\ Entries \in [Care -> Nat] /\ ResChoices \subseteq SUBSET Care
  /\ MaxSends \in [Conns -> Nat] /\ MaxStarts \in Nat \ {0} /\ MaxTime \in Nat

VARIABLES
  process,  \* up; mongodbSession is set; resMap; starts
  docs,     \* the documents in the database, None where there is none
  session,  \* the Client of each connection and where its goroutine is
  client,   \* the other end: packets sent and taken, whether it has hung up
  handled,  \* history: the packets given to procMsg
  now       \* time.Now().Unix()

vars == <<process, docs, session, client, handled, now>>

(* phase: in readPacket before the header or the body, in the select, or in  *)
(* a login that has loaded nothing more than the user, or all of it.  chan:  *)
(* what req_chan holds.  enable is FALSE once chan is "nil" or the session   *)
(* is closed.  msg is the connection's one Msg; doc and dogs are u.udb and   *)
(* u.dk; seen is history, the document as it was loaded.                     *)
NewClient == [phase |-> "header", chan |-> "empty",
              msg |-> [cmd |-> "Reserved", body |-> None], ready |-> FALSE,
              user |-> None, doc |-> ZeroDb, dogs |-> NoDogs, seen |-> ZeroDb]
Closed == [NewClient EXCEPT !.phase = "closed"]
NotYet == [NewClient EXCEPT !.phase = "none"]

(* main ignores the error of ConnectMongo, resLoadFile that of a file.       *)
Started(n) == {[up |-> TRUE, db |-> d, res |-> r, starts |-> n] :
                 d \in BOOLEAN, r \in ResChoices}

Init ==
  /\ process \in Started(1)
  /\ docs = FirstDocs
  /\ session = [c \in Conns |-> NotYet]
  /\ client = [c \in Conns |-> [sent |-> <<>>, got |-> 0, gone |-> FALSE]]
  /\ handled = [c \in Conns |-> <<>>]
  /\ now = 0

Phase(c) == session[c].phase
Open(c) == Phase(c) \notin {"none", "closed"}
Become(c, s) == session' = [session EXCEPT ![c] = s]

-----------------------------------------------------------------------------
(* The clients, the operator and the clock.                                  *)

(* main's loop: AcceptTCP, go clientRequest.                                 *)
Connect(c) ==
  /\ process.up /\ Phase(c) = "none"
  /\ Become(c, NewClient)
  /\ UNCHANGED <<process, docs, client, handled, now>>

Send(c, p) ==
  /\ Open(c) /\ ~client[c].gone /\ Len(client[c].sent) < MaxSends[c]
  /\ client' = [client EXCEPT ![c].sent = Append(@, p)]
  /\ UNCHANGED <<process, docs, session, handled, now>>

(* The connection is closed or lost: what is still in it may be read or not. *)
HangUp(c) ==
  /\ Open(c) /\ ~client[c].gone
  /\ client' = [client EXCEPT ![c].gone = TRUE]
  /\ UNCHANGED <<process, docs, session, handled, now>>

Start ==
  /\ ~process.up /\ process.starts < MaxStarts
  /\ process' \in Started(process.starts + 1)
  /\ UNCHANGED <<docs, session, client, handled, now>>

Tick ==
  /\ now < MaxTime /\ now' = now + 1
  /\ UNCHANGED <<process, docs, session, client, handled>>

-----------------------------------------------------------------------------
(* readMsg, which runs before the select does: it fills req_chan or blocks.  *)

Waiting(c) == client[c].got < Len(client[c].sent)
Next1(c) == client[c].sent[client[c].got + 1]
Push(c, m) ==
  /\ session[c].chan = "empty"
  /\ Become(c, [session[c] EXCEPT !.chan = m, !.phase = "select"])

ReadHeaderUnchecked(c) ==                                       \* a mutant
  /\ Phase(c) = "header" /\ Waiting(c)
  /\ Become(c, [session[c] EXCEPT !.msg.cmd = Next1(c).cmd, !.phase = "body"])
  /\ UNCHANGED <<process, docs, client, handled, now>>
ReadHeader(c) ==
  /\ Phase(c) = "header" /\ Waiting(c) /\ Next1(c).cmd # "Invalid"
  /\ Become(c, [session[c] EXCEPT !.msg.cmd = Next1(c).cmd, !.phase = "body"])
  /\ UNCHANGED <<process, docs, client, handled, now>>

(* A wrong magic, a command of 128 or more, or the end of the connection.    *)
ReadFails(c) ==
  /\ \/ Phase(c) = "header" /\ Waiting(c) /\ Next1(c).cmd = "Invalid"
     \/ Phase(c) \in {"header", "body"} /\ client[c].gone
  /\ Push(c, "nil")
  /\ UNCHANGED <<process, docs, client, handled, now>>

ReadBodyForgets(c) ==                                           \* a mutant
  /\ Phase(c) = "body"
  /\ Push(c, "msg")
  /\ client' = [client EXCEPT ![c].got = @ + 1]
  /\ UNCHANGED <<process, docs, handled, now>>
ReadBody(c) ==
  /\ Phase(c) = "body" /\ session[c].chan = "empty"
  /\ Become(c, [session[c] EXCEPT !.msg.body = Next1(c).body, !.chan = "msg",
                                  !.phase = "select"])
  /\ client' = [client EXCEPT ![c].got = @ + 1]
  /\ UNCHANGED <<process, docs, handled, now>>

-----------------------------------------------------------------------------
(* The select.  Its timer is made when the packet is there already, so it    *)
(* wins only where the goroutine was kept from running for two seconds.      *)

End(c) == Become(c, Closed)

ProcTimeout(c) ==
  /\ Phase(c) = "select"
  /\ End(c)
  /\ UNCHANGED <<process, docs, client, handled, now>>

SelectNil(c) ==
  /\ Phase(c) = "select" /\ session[c].chan = "nil"
  /\ End(c)
  /\ UNCHANGED <<process, docs, client, handled, now>>

(* procMsg is called with the message.                                       *)
Receives(c, cmds) ==
  /\ Phase(c) = "select" /\ session[c].chan = "msg" /\ session[c].msg.cmd \in cmds
  /\ handled' = [handled EXCEPT ![c] = Append(@, session[c].msg)]
  /\ UNCHANGED <<client, now>>

(* The handler returns: to the next packet, or with CLI_PROC_RET_KICK.  That *)
(* the message has left req_chan is noted here: nobody looks in between.     *)
Undrained(s) == [s EXCEPT !.phase = "header"]                   \* a mutant
Drained(s) == [s EXCEPT !.phase = "header", !.chan = "empty"]
Done(c, s) == Become(c, Drained(s)) /\ UNCHANGED process
Kicked(c) == End(c) /\ UNCHANGED process
Panics ==
  /\ process' = [process EXCEPT !.up = FALSE]
  /\ session' = [c \in Conns |-> IF Open(c) THEN Closed ELSE session[c]]

(* Command 0 does nothing; the entry of a command that is not registered is  *)
(* nil, and is called.                                                       *)
ProcReserved(c) == Receives(c, {"Reserved"}) /\ Done(c, session[c]) /\ UNCHANGED docs
ProcUnregistered(c) == Receives(c, {"Unregistered"}) /\ Panics /\ UNCHANGED docs

-----------------------------------------------------------------------------
(* ProcUserLogin.  Another session of the same user is not looked for.       *)

Body(c) == session[c].msg.body

LoginAgain(c) ==
  /\ Receives(c, {"UserLogin"}) /\ session[c].ready
  /\ Done(c, session[c])
  /\ UNCHANGED docs

LoginRefused(c) ==
  /\ Receives(c, {"UserLogin"}) /\ ~session[c].ready /\ Body(c) \notin Users
  /\ Kicked(c)
  /\ UNCHANGED docs

(* User.Load reads the user's document.                                      *)
LoadUser(c, found) ==
  Become(c, [session[c] EXCEPT !.phase = "user", !.user = Body(c),
                               !.doc = found, !.seen = found])
Found(u) == IF docs[u] = None THEN ZeroDb ELSE docs[u]

LoginLoads(c) ==
  /\ Receives(c, {"UserLogin"}) /\ ~session[c].ready /\ Body(c) \in Users
  /\ process.db
  /\ LoadUser(c, Found(Body(c)))
  /\ UNCHANGED <<process, docs>>

LoginLoadFailsSoftly(c) ==                                      \* a mutant
  /\ Receives(c, {"UserLogin"}) /\ ~session[c].ready /\ Body(c) \in Users
  /\ process.db
  /\ LoadUser(c, ZeroDb)
  /\ UNCHANGED <<process, docs>>
LoginLoadFails(c) ==
  /\ Receives(c, {"UserLogin"}) /\ ~session[c].ready /\ Body(c) \in Users
  /\ process.db
  /\ Kicked(c)
  /\ UNCHANGED docs

LoginWithoutDb(c) ==
  /\ Receives(c, {"UserLogin"}) /\ ~session[c].ready /\ Body(c) \in Users
  /\ ~process.db
  /\ Panics
  /\ UNCHANGED docs

(* DogKeeper.Load reads the dogs, or fails; ready is set and LastLogin too.  *)
LoginStamps(c) ==
  /\ Phase(c) = "user"
  /\ \/ Become(c, [session[c] EXCEPT !.phase = "store", !.ready = TRUE,
                     !.dogs = DogDocs[session[c].user], !.doc.last = now])
     \/ End(c)
  /\ UNCHANGED <<process, docs, client, handled, now>>

(* User.Store upserts the whole document.  It may fail before or after the   *)
(* database has done it.                                                     *)
Stored(c) == [docs EXCEPT ![session[c].user] = session[c].doc]

LoginStores(c) ==
  /\ Phase(c) = "store"
  /\ docs' = Stored(c)
  /\ Done(c, session[c])
  /\ UNCHANGED <<client, handled, now>>

LoginStoreFailsSilently(c) ==                                   \* a mutant
  /\ Phase(c) = "store"
  /\ docs' \in {docs, Stored(c)}
  /\ Done(c, session[c])
  /\ UNCHANGED <<client, handled, now>>
LoginStoreFails(c) ==
  /\ Phase(c) = "store"
  /\ docs' \in {docs, Stored(c)}
  /\ Kicked(c)
  /\ UNCHANGED <<client, handled, now>>

-----------------------------------------------------------------------------
(* ProcFeedDog, ProcPlayDog and ProcTrainDog, which differ in CD and table.  *)

IsCare(b) == b \notin Users \cup {None}
Cares(c) == Receives(c, Care) /\ UNCHANGED docs

CareKicked(c) ==
  /\ Cares(c)
  /\ ~session[c].ready \/ ~IsCare(Body(c))
  /\ Kicked(c)

(* getDog finds the dog, and it is not in its CD.                            *)
DogReady(c) ==
  /\ session[c].ready /\ IsCare(Body(c))
  /\ Body(c).dog \in DOMAIN session[c].dogs
  /\ session[c].dogs[Body(c).dog][session[c].msg.cmd] <= now
HasTable(c) == session[c].msg.cmd \in process.res
HasEntry(c) == Body(c).type < Entries[session[c].msg.cmd]

CareRefused(c) ==
  /\ Cares(c)
  /\ session[c].ready /\ IsCare(Body(c))
  /\ ~DogReady(c) \/ (HasTable(c) /\ ~HasEntry(c))
  /\ Done(c, session[c])

(* ResGet has no table and nil is asserted to be one; or setDogAttr calls    *)
(* dk.user.UseMoney, and nothing ever sets dk.user.  What comes after it,    *)
(* the attributes, the CD and dirty, is not reached.                         *)
CarePanics(c) ==
  /\ Cares(c)
  /\ DogReady(c)
  /\ HasTable(c) => HasEntry(c)
  /\ Panics

-----------------------------------------------------------------------------
Proc(c) ==
  \/ ReadHeader(c) \/ ReadBody(c) \/ ReadFails(c)
  \/ SelectNil(c) \/ ProcTimeout(c)
  \/ ProcReserved(c) \/ ProcUnregistered(c)
  \/ LoginAgain(c) \/ LoginRefused(c) \/ LoginLoads(c) \/ LoginLoadFails(c)
  \/ LoginWithoutDb(c) \/ LoginStamps(c) \/ LoginStores(c) \/ LoginStoreFails(c)
  \/ CareKicked(c) \/ CareRefused(c) \/ CarePanics(c)

Next ==
  \/ Start \/ Tick
  \/ \E c \in Conns :
       Connect(c) \/ HangUp(c) \/ Proc(c) \/ \E p \in Requests[c] : Send(c, p)

(* A goroutine that can run does; clients, clock and operator owe nothing.   *)
Fairness == \A c \in Conns : WF_vars(Proc(c))
Spec == Init /\ [][Next]_vars
FairSpec == Spec /\ Fairness

-----------------------------------------------------------------------------
TypeOK ==
  /\ process \in [up : BOOLEAN, db : BOOLEAN, res : SUBSET Care, starts : 1..MaxStarts]
  /\ docs \in [Users -> UserDb \cup {None}]
  /\ \A c \in Conns : LET s == session[c] IN
       /\ s.phase \in {"none", "header", "body", "select", "user", "store", "closed"}
       /\ s.chan \in {"empty", "msg", "nil"} /\ s.ready \in BOOLEAN
       /\ s.msg.cmd \in Commands /\ s.user \in Users \cup {None}
       /\ s.doc \in UserDb /\ s.seen \in UserDb
       /\ Open(c) => process.up
       /\ client[c].got \in 0..Len(client[c].sent)
  /\ now \in 0..MaxTime

(* A session serves the packets of its client in the order they were sent,   *)
(* none twice and none skipped, and each with its own body: readPacket hands *)
(* out a pointer to the connection's only Msg, over a channel.               *)
ServedInOrder ==
  \A c \in Conns :
    /\ Len(handled[c]) <= Len(client[c].sent)
    /\ \A i \in DOMAIN handled[c] : handled[c][i] = client[c].sent[i]

(* A session that goes on after its login has its user in the database, also *)
(* where the upsert failed, or another session or a panic came in between.   *)
LoggedInIsStored ==
  \A c \in Conns :
    session[c].ready /\ Phase(c) # "store" => docs[session[c].user] # None

(* A login writes back the whole document it has loaded.  Whatever other     *)
(* sessions, failures of the database and panics come in between, the        *)
(* document is there to stay, what the player owns is kept, and LastLogin    *)
(* goes back only where another session has stored since this one loaded.    *)
DocumentKept ==
  [][\A u \in Users :
       docs[u] # None =>
         /\ docs'[u] # None
         /\ docs'[u].own = docs[u].own
         /\ docs'[u].last < docs[u].last =>
              \E c \in Conns : /\ Phase(c) = "store" /\ session[c].user = u
                               /\ session[c].seen # docs[u]]_vars

(* A packet sent on a connection is served in the end, or the connection     *)
(* ends: the goroutine never waits for room in req_chan, nor for a timer.    *)
RequestsSettle ==
  \A c \in Conns : \A n \in 1..MaxSends[c] :
    Len(client[c].sent) >= n ~> (Len(handled[c]) >= n \/ ~Open(c))

(* login.txt, the feeding flow: with a user logged in, the dog there, the    *)
(* food there (and, in the code, no CD running), the server takes the food,  *)
(* adds the attributes and changes the CD.                                   *)
CareTakesEffect ==
  [][\A c \in Conns :
       handled'[c] # handled[c] /\ session[c].msg.cmd \in Care /\ DogReady(c)
         /\ HasTable(c) /\ HasEntry(c)
       => process'.up /\ session'[c].dogs # session[c].dogs]_vars
=============================================================================
