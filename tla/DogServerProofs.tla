---------------------------- MODULE DogServerProofs ----------------------------
(* Theorems about DogServer, for any connections, users, packets, tables and *)
(* bounds within DogAssumption.                                              *)
EXTENDS DogServer, SequenceTheorems, TLAPS

Phases  == {"none", "header", "body", "select", "user", "store", "closed"}
Kennels == {NoDogs} \cup {DogDocs[u] : u \in Users}
Sessions == [phase : Phases, chan : {"empty", "msg", "nil"},
             msg : [cmd : Commands, body : Bodies], ready : BOOLEAN,
             user : Users \cup {None}, doc : UserDb, dogs : Kennels, seen : UserDb]
Clients == [sent : Seq(Packets), got : Nat, gone : BOOLEAN]

Types ==
  /\ session \in [Conns -> Sessions]
  /\ client \in [Conns -> Clients]
  /\ handled \in [Conns -> Seq(Packets)]

(* How far the packets of a connection have come.                            *)
InOrder(c) ==
  /\ client[c].got <= Len(client[c].sent) /\ Len(handled[c]) <= client[c].got
  /\ \A i \in 1..Len(handled[c]) : handled[c][i] = client[c].sent[i]

(* Between two packets all that were taken have been served; in the body the *)
(* command is that of the next one; in the select the message is the last    *)
(* one taken, and not served yet.                                            *)
Pending(c) == Phase(c) = "select" /\ session[c].chan = "msg"
Between(c) ==
  /\ Phase(c) # "closed" /\ ~Pending(c) => Len(handled[c]) = client[c].got
  /\ Phase(c) \in {"header", "body"} => session[c].chan = "empty"
  /\ Phase(c) = "body" =>
       Waiting(c) /\ session[c].msg.cmd = Next1(c).cmd
  /\ Pending(c) => /\ client[c].got = Len(handled[c]) + 1
                   /\ session[c].msg = client[c].sent[client[c].got]

OrderInv == Types /\ \A c \in Conns : InOrder(c) /\ Between(c)

-----------------------------------------------------------------------------
(* Types of what the actions build.                                          *)

LEMMA NewTypes ==
  ZeroDb \in UserDb /\ NewClient \in Sessions /\ Closed \in Sessions /\ NotYet \in Sessions
<1>1. ZeroDb \in UserDb
  BY DogAssumption DEF ZeroDb, UserDb
<1>2. NewClient \in Sessions
  BY <1>1 DEF NewClient, Sessions, Phases, Kennels, Commands, Bodies
<1>3. Closed \in Sessions /\ NotYet \in Sessions
  BY <1>2 DEF Closed, NotYet, Sessions, Phases
<1> QED BY <1>1, <1>2, <1>3

LEMMA FoundType == ASSUME docs \in [Users -> UserDb \cup {None}], NEW u \in Users
                   PROVE Found(u) \in UserDb
BY NewTypes DEF Found

-----------------------------------------------------------------------------
(* Where one connection moves and the others at most end, the order is kept. *)

Local(c) ==
  \A d \in Conns \ {c} :
    /\ client'[d] = client[d] /\ handled'[d] = handled[d]
    /\ session'[d] = session[d] \/ session'[d] = Closed

LEMMA Frame ==
  ASSUME OrderInv, NEW c \in Conns, Types', Local(c), InOrder(c)', Between(c)'
  PROVE OrderInv'
<1> SUFFICES ASSUME NEW d \in Conns, d # c PROVE InOrder(d)' /\ Between(d)'
  BY DEF OrderInv
<1>1. client'[d] = client[d] /\ handled'[d] = handled[d]
  BY DEF Local
<1>2. InOrder(d) /\ Between(d)
  BY DEF OrderInv
<1>3. CASE session'[d] = session[d]
  BY <1>1, <1>2, <1>3 DEF InOrder, Between, Pending, Open, Phase, Waiting, Next1
<1>4. CASE session'[d] = Closed
  <2>1. session'[d].phase = "closed"
    BY <1>4 DEF Closed, NewClient
  <2> QED BY <1>1, <1>2, <2>1 DEF InOrder, Between, Pending, Open, Phase
<1> QED BY <1>3, <1>4 DEF Local

(* A session that moves to s, with nothing taken and nothing served.         *)
LEMMA Moves ==
  ASSUME OrderInv, NEW c \in Conns, NEW s \in Sessions, Become(c, s),
         UNCHANGED <<client, handled>>
  PROVE /\ Types' /\ Local(c) /\ session'[c] = s /\ InOrder(c)'
        /\ s.phase = "closed" => OrderInv'
<1>1. Types' /\ Local(c) /\ session'[c] = s
  BY DEF OrderInv, Types, Become, Local
<1>2. InOrder(c)'
  BY DEF OrderInv, InOrder
<1>3. s.phase = "closed" => Between(c)'
  BY <1>1 DEF Between, Pending, Open, Phase
<1> QED BY <1>1, <1>2, <1>3, Frame

LEMMA Ends ==
  ASSUME OrderInv, NEW c \in Conns, End(c), UNCHANGED <<client, handled>>
  PROVE OrderInv'
<1>1. Closed.phase = "closed"
  BY DEF Closed, NewClient
<1> QED BY <1>1, Moves, NewTypes DEF End

-----------------------------------------------------------------------------
(* The connection and its reader.                                            *)

LEMMA ConnectOrder == ASSUME OrderInv, NEW c \in Conns, Connect(c) PROVE OrderInv'
<1>1. Become(c, NewClient) /\ UNCHANGED <<client, handled>> /\ Phase(c) = "none"
  BY DEF Connect
<1>2. Types' /\ Local(c) /\ session'[c] = NewClient /\ InOrder(c)'
  BY <1>1, Moves, NewTypes
<1>3. NewClient.phase = "header" /\ NewClient.chan = "empty"
  BY DEF NewClient
<1>4. Len(handled[c]) = client[c].got
  BY <1>1 DEF OrderInv, Between, Pending
<1> QED BY <1>1, <1>2, <1>3, <1>4, Frame DEF Between, Pending, Open, Phase

LEMMA SendOrder ==
  ASSUME OrderInv, NEW c \in Conns, NEW p \in Requests[c], Send(c, p) PROVE OrderInv'
<1>1. p \in Packets
  BY DogAssumption
<1>2. client[c] \in Clients /\ client \in [Conns -> Clients]
  BY DEF OrderInv, Types
<1> DEFINE q == Append(client[c].sent, p)
<1>3. q \in Seq(Packets)
  BY <1>1, <1>2 DEF Clients
<1>4. /\ client'[c].sent = q /\ client'[c].got = client[c].got
      /\ client' \in [Conns -> Clients] /\ \A d \in Conns \ {c} : client'[d] = client[d]
  BY <1>2, <1>3 DEF Send, Clients
<1>5. /\ Len(q) = Len(client[c].sent) + 1
      /\ \A i \in 1..Len(client[c].sent) : q[i] = client[c].sent[i]
  BY <1>1, <1>2 DEF Clients
<1>11. Types' /\ Local(c)
  BY <1>4 DEF Send, OrderInv, Types, Local
<1> HIDE DEF q
<1>6. session'[c] = session[c] /\ handled'[c] = handled[c]
  BY DEF Send
<1>7. client[c].got \in Nat /\ Len(handled[c]) \in Nat /\ Len(client[c].sent) \in Nat
  BY <1>2 DEF OrderInv, Types, Clients
<1>8. InOrder(c) /\ Between(c)
  BY DEF OrderInv
<1>9. InOrder(c)'
  BY <1>4, <1>5, <1>6, <1>7, <1>8 DEF InOrder
<1>12. Waiting(c) => Waiting(c)' /\ Next1(c)' = Next1(c)
  <2>1. Waiting(c) => client[c].got + 1 \in 1..Len(client[c].sent)
    BY <1>7 DEF Waiting
  <2>2. Waiting(c) => q[client[c].got + 1] = client[c].sent[client[c].got + 1]
    BY <1>5, <2>1
  <2>3. Waiting(c) => client[c].got < Len(q)
    BY <1>5, <1>7 DEF Waiting
  <2> QED BY <1>4, <2>2, <2>3 DEF Waiting, Next1
<1>13. Pending(c) => q[client[c].got] = client[c].sent[client[c].got]
  BY <1>5, <1>7, <1>8 DEF InOrder, Between
<1>10. Between(c)'
  BY <1>4, <1>6, <1>8, <1>12, <1>13 DEF Between, Pending, Phase
<1> QED BY <1>9, <1>10, <1>11, Frame

LEMMA HangUpOrder == ASSUME OrderInv, NEW c \in Conns, HangUp(c) PROVE OrderInv'
<1>1. client \in [Conns -> Clients]
  BY DEF OrderInv, Types
<1>2. /\ Types' /\ Local(c) /\ client'[c].got = client[c].got
      /\ client'[c].sent = client[c].sent
  BY <1>1 DEF HangUp, OrderInv, Types, Local, Clients
<1>3. InOrder(c)' /\ Between(c)'
  BY <1>2 DEF HangUp, OrderInv, InOrder, Between, Pending, Open, Phase, Waiting, Next1
<1> QED BY <1>2, <1>3, Frame

LEMMA ReadHeaderOrder == ASSUME OrderInv, NEW c \in Conns, ReadHeader(c) PROVE OrderInv'
<1> DEFINE s == [session[c] EXCEPT !.msg.cmd = Next1(c).cmd, !.phase = "body"]
<1>1. session[c] \in Sessions /\ client[c] \in Clients
  BY DEF OrderInv, Types
<1>2. Next1(c) \in Packets /\ Next1(c).cmd \in Commands
  <2>1. client[c].got + 1 \in 1..Len(client[c].sent)
    BY <1>1 DEF ReadHeader, Waiting, Clients
  <2>2. client[c].sent[client[c].got + 1] \in Packets
    BY <1>1, <2>1, ElementOfSeq DEF Clients
  <2> QED BY <2>2 DEF ReadHeader, Next1, Packets
<1>3. /\ s \in Sessions /\ s.phase = "body" /\ s.msg.cmd = Next1(c).cmd
      /\ s.chan = session[c].chan
  BY <1>1, <1>2 DEF Sessions, Phases
<1>4. Become(c, s) /\ UNCHANGED <<client, handled>>
  BY DEF ReadHeader
<1> HIDE DEF s
<1>5. Types' /\ Local(c) /\ session'[c] = s /\ InOrder(c)'
  BY <1>3, <1>4, Moves
<1>6. Between(c)
  BY DEF OrderInv
<1>7. Between(c)'
  BY <1>3, <1>4, <1>5, <1>6
     DEF ReadHeader, Between, Pending, Open, Phase, Waiting, Next1
<1> QED BY <1>5, <1>7, Frame
LEMMA ReadFailsOrder == ASSUME OrderInv, NEW c \in Conns, ReadFails(c) PROVE OrderInv'
<1> DEFINE s == [session[c] EXCEPT !.chan = "nil", !.phase = "select"]
<1>1. session[c] \in Sessions
  BY DEF OrderInv, Types
<1>2. s \in Sessions /\ s.phase = "select" /\ s.chan = "nil"
  BY <1>1 DEF Sessions, Phases
<1>3. /\ Become(c, s) /\ UNCHANGED <<client, handled>>
      /\ Phase(c) \in {"header", "body"}
  BY DEF ReadFails, Push
<1> HIDE DEF s
<1>4. Types' /\ Local(c) /\ session'[c] = s /\ InOrder(c)'
  BY <1>2, <1>3, Moves
<1>5. Between(c)'
  BY <1>2, <1>3, <1>4 DEF OrderInv, Between, Pending, Phase
<1> QED BY <1>4, <1>5, Frame

LEMMA ReadBodyOrder == ASSUME OrderInv, NEW c \in Conns, ReadBody(c) PROVE OrderInv'
<1> DEFINE m == Next1(c)
<1>1. session[c] \in Sessions /\ client[c] \in Clients /\ handled[c] \in Seq(Packets)
  BY DEF OrderInv, Types
<1>2. InOrder(c) /\ Between(c) /\ Phase(c) = "body"
  BY DEF OrderInv, ReadBody
<1>3. Waiting(c) /\ session[c].msg.cmd = m.cmd /\ Len(handled[c]) = client[c].got
  BY <1>2 DEF Between, Pending
<1>4. m \in Packets
  <2>1. client[c].got + 1 \in 1..Len(client[c].sent)
    BY <1>1, <1>3 DEF Waiting, Clients
  <2> QED BY <1>1, <2>1, ElementOfSeq DEF Next1, Clients
<1>5. /\ session'[c].phase = "select" /\ session'[c].chan = "msg"
      /\ session'[c].msg = [session[c].msg EXCEPT !.body = m.body]
      /\ session' \in [Conns -> Sessions]
      /\ \A d \in Conns \ {c} : session'[d] = session[d]
  BY <1>1, <1>4 DEF ReadBody, Become, OrderInv, Types, Sessions, Phases, Packets
<1>6. session'[c].msg = m
  BY <1>1, <1>3, <1>4, <1>5 DEF Sessions, Packets
<1>7. /\ client'[c].sent = client[c].sent /\ client'[c].got = client[c].got + 1
      /\ client' \in [Conns -> Clients]
      /\ \A d \in Conns \ {c} : client'[d] = client[d]
  <2>1. client \in [Conns -> Clients] /\ client' = [client EXCEPT ![c].got = @ + 1]
    BY DEF ReadBody, OrderInv, Types
  <2>2. client[c].got + 1 \in Nat
    BY <1>1 DEF Clients
  <2> QED BY <2>1, <2>2 DEF Clients
<1>8. Types' /\ Local(c) /\ handled'[c] = handled[c]
  BY <1>5, <1>7 DEF ReadBody, OrderInv, Types, Local
<1>9. m = client'[c].sent[client'[c].got]
  BY <1>7 DEF Next1
<1> HIDE DEF m
<1>10. client[c].got \in Nat /\ Len(client[c].sent) \in Nat /\ Len(handled[c]) \in Nat
  BY <1>1 DEF Clients
<1>11. InOrder(c)'
  BY <1>2, <1>3, <1>7, <1>8, <1>10 DEF InOrder, Waiting
<1>12. Between(c)'
  BY <1>3, <1>5, <1>6, <1>7, <1>8, <1>9, <1>10 DEF Between, Pending, Phase
<1> QED BY <1>8, <1>11, <1>12, Frame

-----------------------------------------------------------------------------
(* The handlers.                                                             *)

(* What procMsg finds is the next packet, whatever the handler does then.    *)
LEMMA ReceivedOrder ==
  ASSUME OrderInv, NEW c \in Conns, NEW cmds, Receives(c, cmds)
  PROVE /\ handled' \in [Conns -> Seq(Packets)] /\ client' = client
        /\ \A d \in Conns \ {c} : handled'[d] = handled[d]
        /\ Len(handled'[c]) = client[c].got
        /\ InOrder(c)'
<1>1. session[c] \in Sessions /\ client[c] \in Clients /\ handled[c] \in Seq(Packets)
  BY DEF OrderInv, Types
<1>2. InOrder(c) /\ Between(c) /\ Pending(c)
  BY DEF OrderInv, Receives, Pending
<1> DEFINE m == session[c].msg
<1>3. m \in Packets
  BY <1>1 DEF Sessions, Packets
<1>4. handled' = [handled EXCEPT ![c] = Append(@, m)] /\ client' = client
  BY DEF Receives
<1> HIDE DEF m
<1>5. handled' \in [Conns -> Seq(Packets)] /\ handled'[c] = Append(handled[c], m)
  BY <1>1, <1>3, <1>4 DEF OrderInv, Types
<1>6. \A d \in Conns \ {c} : handled'[d] = handled[d]
  BY <1>4 DEF OrderInv, Types
<1>7. client[c].got = Len(handled[c]) + 1 /\ m = client[c].sent[client[c].got]
  BY <1>2 DEF Between, m
<1>8. Len(handled'[c]) = client[c].got
  BY <1>1, <1>3, <1>5, <1>7
<1>9. \A i \in 1..Len(handled'[c]) : handled'[c][i] = client[c].sent[i]
  BY <1>1, <1>2, <1>3, <1>5, <1>7, <1>8 DEF InOrder
<1>10. InOrder(c)'
  BY <1>1, <1>2, <1>4, <1>8, <1>9 DEF InOrder, Clients
<1> QED BY <1>4, <1>5, <1>6, <1>8, <1>10

(* How a handler may leave the sessions: its own at the next packet, ended   *)
(* or on in the login, the others where they were or ended.                  *)
Leaves(c) ==
  /\ session' \in [Conns -> Sessions]
  /\ Phase(c)' \in {"header", "user", "store", "closed"}
  /\ Phase(c)' = "header" => session'[c].chan = "empty"
  /\ \A d \in Conns \ {c} : session'[d] = session[d] \/ session'[d] = Closed

LEMMA HandledOrder ==
  ASSUME OrderInv, NEW c \in Conns, NEW cmds, Receives(c, cmds), Leaves(c)
  PROVE OrderInv'
<1>1. Types' /\ Local(c) /\ InOrder(c)' /\ Len(handled'[c]) = client'[c].got
  BY ReceivedOrder DEF Types, Local, Leaves, OrderInv
<1>2. Between(c)'
  BY <1>1 DEF Leaves, Between, Pending, Phase
<1> QED BY <1>1, <1>2, Frame

LEMMA DoneLeaves ==
  ASSUME Types, NEW c \in Conns, NEW s \in Sessions, Done(c, s) PROVE Leaves(c)
<1>1. Drained(s) \in Sessions /\ Drained(s).phase = "header" /\ Drained(s).chan = "empty"
  BY DEF Drained, Sessions, Phases
<1>2. session' = [session EXCEPT ![c] = Drained(s)]
  BY DEF Done, Become
<1> HIDE DEF Drained
<1> QED BY <1>1, <1>2 DEF Types, Leaves, Phase

LEMMA KickedLeaves == ASSUME Types, NEW c \in Conns, End(c) PROVE Leaves(c)
<1>1. Closed \in Sessions /\ Closed.phase = "closed"
  BY NewTypes DEF Closed, NewClient
<1> QED BY <1>1 DEF End, Become, Types, Leaves, Phase

LEMMA PanicLeaves == ASSUME Types, NEW c \in Conns, Open(c), Panics PROVE Leaves(c)
<1>1. Closed \in Sessions /\ Closed.phase = "closed"
  BY NewTypes DEF Closed, NewClient
<1>2. session' \in [Conns -> Sessions] /\ session'[c] = Closed
  BY <1>1 DEF Panics, Types
<1>3. \A d \in Conns : session'[d] = session[d] \/ session'[d] = Closed
  BY DEF Panics
<1> QED BY <1>1, <1>2, <1>3 DEF Leaves, Phase

LEMMA LoadLeaves ==
  ASSUME Types, NEW c \in Conns, Body(c) \in Users, NEW d \in UserDb, LoadUser(c, d)
  PROVE Leaves(c)
<1> DEFINE s == [session[c] EXCEPT !.phase = "user", !.user = Body(c),
                                   !.doc = d, !.seen = d]
<1>1. s \in Sessions /\ s.phase = "user"
  BY DEF Types, Sessions, Phases
<1>2. session' = [session EXCEPT ![c] = s]
  BY DEF LoadUser, Become
<1> HIDE DEF s
<1> QED BY <1>1, <1>2 DEF Types, Leaves, Phase
(* Every handler that is given a message does one of four things.            *)
Loads(c) ==
  /\ ~session[c].ready /\ Body(c) \in Users
  /\ LoadUser(c, Found(Body(c))) /\ UNCHANGED process
Handles(c) ==
  /\ \E cmds \in SUBSET Commands : Receives(c, cmds)
  /\ UNCHANGED docs
  /\ Done(c, session[c]) \/ Kicked(c) \/ Panics \/ Loads(c)

LEMMA HandlersShape ==
  ASSUME NEW c \in Conns,
         \/ ProcReserved(c) \/ ProcUnregistered(c) \/ LoginAgain(c)
         \/ LoginRefused(c) \/ LoginLoads(c) \/ LoginLoadFails(c)
         \/ LoginWithoutDb(c) \/ CareKicked(c) \/ CareRefused(c) \/ CarePanics(c)
  PROVE  Handles(c)
<1>1. /\ {"Reserved"} \in SUBSET Commands /\ {"Unregistered"} \in SUBSET Commands
      /\ {"UserLogin"} \in SUBSET Commands /\ Care \in SUBSET Commands
  BY DEF Commands
<1>2. CASE ProcReserved(c) \/ ProcUnregistered(c)
  BY <1>1, <1>2 DEF ProcReserved, ProcUnregistered, Handles
<1>3. CASE LoginAgain(c) \/ LoginRefused(c) \/ LoginLoadFails(c) \/ LoginWithoutDb(c)
  BY <1>1, <1>3 DEF LoginAgain, LoginRefused, LoginLoadFails, LoginWithoutDb, Handles
<1>4. CASE LoginLoads(c)
  BY <1>1, <1>4 DEF LoginLoads, Handles, Loads
<1>5. CASE CareKicked(c) \/ CareRefused(c) \/ CarePanics(c)
  BY <1>1, <1>5 DEF CareKicked, CareRefused, CarePanics, Cares, Handles
<1> QED BY <1>2, <1>3, <1>4, <1>5

LEMMA HandlesOrder ==
  ASSUME OrderInv, NEW c \in Conns, Handles(c),
         docs \in [Users -> UserDb \cup {None}]
  PROVE  OrderInv'
<1>1. PICK cmds \in SUBSET Commands : Receives(c, cmds)
  BY DEF Handles
<1>2. Types /\ session[c] \in Sessions /\ Open(c)
  BY <1>1 DEF OrderInv, Types, Receives, Open
<1>3. Leaves(c)
  <2>1. CASE Done(c, session[c]) BY <1>2, <2>1, DoneLeaves
  <2>2. CASE Kicked(c) BY <1>2, <2>2, KickedLeaves DEF Kicked
  <2>3. CASE Panics BY <1>2, <2>3, PanicLeaves
  <2>4. CASE Loads(c)
    <3>1. Body(c) \in Users /\ LoadUser(c, Found(Body(c)))
      BY <2>4 DEF Loads
    <3>2. Found(Body(c)) \in UserDb
      BY <3>1, FoundType
    <3> QED BY <1>2, <3>1, <3>2, LoadLeaves
  <2> QED BY <2>1, <2>2, <2>3, <2>4 DEF Handles
<1> QED BY <1>1, <1>3, HandledOrder

(* The two steps of a login that come after its message was taken.           *)
LEMMA LoginStampsOrder ==
  ASSUME OrderInv, NEW c \in Conns, LoginStamps(c), now \in 0..MaxTime,
         session[c].user \in Users
  PROVE  OrderInv'
<1> DEFINE s == [session[c] EXCEPT !.phase = "store", !.ready = TRUE,
                   !.dogs = DogDocs[session[c].user], !.doc.last = now]
<1>1. session[c] \in Sessions /\ UNCHANGED <<client, handled>>
  BY DEF OrderInv, Types, LoginStamps
<1>2. s \in Sessions /\ s.phase = "store"
  BY <1>1 DEF Sessions, Phases, Kennels, UserDb
<1>3. CASE Become(c, s)
  <2> HIDE DEF s
  <2>1. Types' /\ Local(c) /\ session'[c] = s /\ InOrder(c)'
    BY <1>1, <1>2, <1>3, Moves
  <2>2. Between(c)'
    BY <1>1, <1>2, <2>1 DEF LoginStamps, OrderInv, Between, Pending, Phase
  <2> QED BY <2>1, <2>2, Frame
<1>4. CASE End(c) BY <1>1, <1>4, Ends
<1> QED BY <1>3, <1>4 DEF LoginStamps

LEMMA LoginStoresOrder ==
  ASSUME OrderInv, NEW c \in Conns, LoginStores(c) PROVE OrderInv'
<1> DEFINE s == Drained(session[c])
<1>1. session[c] \in Sessions /\ UNCHANGED <<client, handled>> /\ Become(c, s)
  BY DEF OrderInv, Types, LoginStores, Done
<1>2. s \in Sessions /\ s.phase = "header" /\ s.chan = "empty"
  BY <1>1 DEF Drained, Sessions, Phases
<1> HIDE DEF s
<1>3. Types' /\ Local(c) /\ session'[c] = s /\ InOrder(c)'
  BY <1>1, <1>2, Moves
<1>4. Between(c)'
  BY <1>1, <1>2, <1>3 DEF LoginStores, OrderInv, Between, Pending, Phase
<1> QED BY <1>3, <1>4, Frame

-----------------------------------------------------------------------------
(* The documents.                                                            *)

(* What the player of a document owns, from the first document on.           *)
Owns(u) == IF FirstDocs[u] = None THEN FALSE ELSE FirstDocs[u].own

DocsOK ==
  /\ docs \in [Users -> UserDb \cup {None}] /\ now \in 0..MaxTime
  /\ \A u \in Users :
       /\ docs[u] # None => docs[u].own = Owns(u) /\ docs[u].last <= now
       /\ FirstDocs[u] # None => docs[u] # None

(* A login under way holds the document it has loaded, and no older login;   *)
(* a session that has logged in has a document.                              *)
Holds(c) ==
  /\ Phase(c) \in {"user", "store"} =>
       /\ session[c].user \in Users
       /\ session[c].doc.own = Owns(session[c].user)
       /\ session[c].seen.last <= now
  /\ Phase(c) = "store" => session[c].seen.last <= session[c].doc.last
                           /\ session[c].doc.last <= now
  /\ session[c].ready => session[c].user \in Users
  /\ session[c].ready /\ Phase(c) # "store" => docs[session[c].user] # None

ProcessOK ==
  /\ process \in [up : BOOLEAN, db : BOOLEAN, res : SUBSET Care, starts : 1..MaxStarts]
  /\ \A c \in Conns : Open(c) => process.up

IInv == OrderInv /\ DocsOK /\ ProcessOK /\ \A c \in Conns : Holds(c)
OnlyHere(c) ==
  \A d \in Conns \ {c} : session'[d] = session[d] \/ session'[d] = Closed

LEMMA ClosedHolds ==
  ASSUME NEW c \in Conns, session'[c] = Closed
  PROVE  Holds(c)' /\ ~Open(c)' /\ Phase(c)' = "closed"
<1>1. Closed.phase = "closed" /\ Closed.ready = FALSE
  BY DEF Closed, NewClient
<1> QED BY <1>1 DEF Holds, Open, Phase

(* A step of one connection, after which it holds what it should.            *)
LEMMA OneMoves ==
  ASSUME IInv, NEW c \in Conns, OnlyHere(c), OrderInv', DocsOK', Holds(c)', now' = now,
         \A u \in Users : docs[u] # None => docs'[u] # None,
         UNCHANGED process, Open(c)' => process.up
  PROVE  IInv'
<1>1. ASSUME NEW d \in Conns, d # c PROVE Holds(d)' /\ (Open(d)' => process.up)
  <2>1. CASE session'[d] = session[d]
    <3>1. Holds(d) /\ (Open(d) => process.up)
      BY DEF IInv, ProcessOK
    <3> QED BY <2>1, <3>1 DEF Holds, Open, Phase
  <2>2. CASE session'[d] = Closed
    BY <2>2, ClosedHolds
  <2> QED BY <1>1, <2>1, <2>2 DEF OnlyHere
<1>2. ProcessOK'
  BY <1>1 DEF IInv, ProcessOK
<1>3. \A d \in Conns : Holds(d)'
  BY <1>1
<1> QED BY <1>2, <1>3 DEF IInv

LEMMA SameDocs == ASSUME IInv, UNCHANGED <<docs, now>>
                  PROVE DocsOK' /\ \A u \in Users : docs[u] # None => docs'[u] # None
BY DEF IInv, DocsOK

(* A session that is in no login, and that keeps the user it has.            *)
LEMMA KeepsUser ==
  ASSUME IInv, NEW c \in Conns, NEW s, Become(c, s), UNCHANGED <<process, docs, now>>,
         s.user = session[c].user, s.ready = session[c].ready,
         s.phase \notin {"user", "store"}, Phase(c) # "store",
         s.phase \notin {"none", "closed"} => process.up, OrderInv'
  PROVE  IInv'
<1>1. session'[c] = s /\ OnlyHere(c)
  BY DEF IInv, OrderInv, Types, Become, OnlyHere
<1>2. Holds(c)
  BY DEF IInv
<1>3. Holds(c)'
  BY <1>1, <1>2 DEF Holds, Phase
<1>4. Open(c)' => process.up
  BY <1>1 DEF Open, Phase
<1> QED BY <1>1, <1>3, <1>4, SameDocs, OneMoves

LEMMA EndsHere ==
  ASSUME IInv, NEW c \in Conns, End(c), OrderInv', DocsOK', now' = now,
         UNCHANGED process, \A u \in Users : docs[u] # None => docs'[u] # None
  PROVE  IInv'
<1>1. session'[c] = Closed /\ OnlyHere(c)
  BY DEF IInv, OrderInv, Types, End, Become, OnlyHere
<1> QED BY <1>1, ClosedHolds, OneMoves

(* The documents and the sessions stay: only who sent what changes.          *)
LEMMA Elsewhere ==
  ASSUME IInv, OrderInv', UNCHANGED <<process, docs, session, now>> PROVE IInv'
BY DEF IInv, DocsOK, ProcessOK, Holds, Open, Phase

LEMMA ReaderStep ==
  ASSUME IInv, NEW c \in Conns, ReadHeader(c) \/ ReadBody(c) \/ ReadFails(c) PROVE IInv'
<1>1. Types /\ session[c] \in Sessions /\ process.up /\ Phase(c) # "store"
  BY DEF IInv, OrderInv, Types, ProcessOK, Open, ReadHeader, ReadBody, ReadFails
<1>2. CASE ReadHeader(c)
  <2> DEFINE s == [session[c] EXCEPT !.msg.cmd = Next1(c).cmd, !.phase = "body"]
  <2>1. Become(c, s) /\ UNCHANGED <<process, docs, now>>
    BY <1>2 DEF ReadHeader
  <2>2. /\ s.phase = "body" /\ s.user = session[c].user
        /\ s.ready = session[c].ready
    BY <1>1 DEF Sessions
  <2>3. OrderInv' BY <1>2, ReadHeaderOrder DEF IInv
  <2> HIDE DEF s
  <2> QED BY <1>1, <2>1, <2>2, <2>3, KeepsUser
<1>3. CASE ReadBody(c)
  <2> DEFINE s == [session[c] EXCEPT !.msg.body = Next1(c).body, !.chan = "msg",
                                     !.phase = "select"]
  <2>1. Become(c, s) /\ UNCHANGED <<process, docs, now>>
    BY <1>3 DEF ReadBody
  <2>2. /\ s.phase = "select" /\ s.user = session[c].user
        /\ s.ready = session[c].ready
    BY <1>1 DEF Sessions
  <2>3. OrderInv' BY <1>3, ReadBodyOrder DEF IInv
  <2> HIDE DEF s
  <2> QED BY <1>1, <2>1, <2>2, <2>3, KeepsUser
<1>4. CASE ReadFails(c)
  <2> DEFINE s == [session[c] EXCEPT !.chan = "nil", !.phase = "select"]
  <2>1. Become(c, s) /\ UNCHANGED <<process, docs, now>>
    BY <1>4 DEF ReadFails, Push
  <2>2. /\ s.phase = "select" /\ s.user = session[c].user
        /\ s.ready = session[c].ready
    BY <1>1 DEF Sessions
  <2>3. OrderInv' BY <1>4, ReadFailsOrder DEF IInv
  <2> HIDE DEF s
  <2> QED BY <1>1, <2>1, <2>2, <2>3, KeepsUser
<1> QED BY <1>2, <1>3, <1>4

LEMMA HandlerStep == ASSUME IInv, NEW c \in Conns, Handles(c) PROVE IInv'
<1>1. /\ UNCHANGED <<docs, now>> /\ Phase(c) = "select"
      /\ Types /\ session[c] \in Sessions
  BY DEF IInv, OrderInv, Types, Handles, Receives
<1>2. process.up
  BY <1>1 DEF IInv, ProcessOK, Open
<1>3. OrderInv'
  BY HandlesOrder DEF IInv, DocsOK
<1>4. CASE Done(c, session[c])
  <2> DEFINE s == Drained(session[c])
  <2>1. Become(c, s) /\ UNCHANGED process
    BY <1>4 DEF Done
  <2>2. /\ s.phase = "header" /\ s.user = session[c].user
        /\ s.ready = session[c].ready
    BY <1>1 DEF Drained, Sessions
  <2> HIDE DEF s
  <2> QED BY <1>1, <1>2, <1>3, <2>1, <2>2, KeepsUser
<1>5. CASE Kicked(c)
  BY <1>1, <1>3, <1>5, SameDocs, EndsHere DEF Kicked
<1>6. CASE Panics
  <2>1. \A d \in Conns : Open(d)' = FALSE /\ Holds(d)'
    <3>1. SUFFICES ASSUME NEW d \in Conns PROVE ~Open(d)' /\ Holds(d)'
      OBVIOUS
    <3>2. CASE Open(d)
      <4>1. session'[d] = Closed
        BY <1>6, <3>2 DEF Panics
      <4> QED BY <4>1, ClosedHolds
    <3>3. CASE ~Open(d)
      <4>1. session'[d] = session[d] /\ Holds(d)
        BY <1>6, <3>3 DEF Panics, IInv
      <4> QED BY <1>1, <3>3, <4>1 DEF Holds, Open, Phase
    <3> QED BY <3>2, <3>3
  <2>2. process' \in [up : BOOLEAN, db : BOOLEAN, res : SUBSET Care, starts : 1..MaxStarts]
    BY <1>6 DEF Panics, IInv, ProcessOK
  <2> QED BY <1>1, <1>3, <2>1, <2>2, SameDocs DEF IInv, ProcessOK
<1>7. CASE Loads(c)
  <2> DEFINE u == Body(c)
             f == Found(Body(c))
             s == [session[c] EXCEPT !.phase = "user", !.user = u,
                                     !.doc = f, !.seen = f]
  <2>1. u \in Users /\ UNCHANGED process /\ ~session[c].ready
    BY <1>7 DEF Loads
  <2>2. session'[c] = s /\ OnlyHere(c)
    BY <1>1, <1>7 DEF Loads, LoadUser, Become, Types, OnlyHere
  <2>3. /\ s.phase = "user" /\ s.user = u /\ s.doc = f /\ s.seen = f
        /\ s.ready = session[c].ready
    BY <1>1 DEF Sessions
  <2>4. f.own = Owns(u) /\ f.last <= now
    <3>1. CASE docs[u] = None
      <4>1. FirstDocs[u] = None /\ f = ZeroDb /\ 0 <= now
        BY <2>1, <3>1, DogAssumption DEF Found, IInv, DocsOK
      <4>2. Owns(u) = FALSE
        BY <4>1, Zenon DEF Owns
      <4>3. ZeroDb.own = FALSE /\ ZeroDb.last = 0
        BY DEF ZeroDb
      <4> HIDE DEF f, u
      <4> QED BY <4>1, <4>2, <4>3
    <3>2. CASE docs[u] # None
      BY <2>1, <3>2 DEF Found, IInv, DocsOK
    <3> QED BY <3>1, <3>2
  <2> HIDE DEF u, f, s
  <2>5. Holds(c)'
    BY <1>1, <2>1, <2>2, <2>3, <2>4 DEF Holds, Phase
  <2> QED BY <1>1, <1>2, <1>3, <2>1, <2>2, <2>5, SameDocs, OneMoves
<1> QED BY <1>4, <1>5, <1>6, <1>7 DEF Handles
LEMMA SelectStep ==
  ASSUME IInv, NEW c \in Conns, SelectNil(c) \/ ProcTimeout(c) PROVE IInv'
<1>1. End(c) /\ UNCHANGED <<process, docs, client, handled, now>>
  BY DEF SelectNil, ProcTimeout
<1>2. OrderInv'
  BY <1>1, Ends DEF IInv
<1> QED BY <1>1, <1>2, SameDocs, EndsHere

LEMMA StampStep == ASSUME IInv, NEW c \in Conns, LoginStamps(c) PROVE IInv'
<1> DEFINE s == [session[c] EXCEPT !.phase = "store", !.ready = TRUE,
                   !.dogs = DogDocs[session[c].user], !.doc.last = now]
<1>1. /\ Types /\ session[c] \in Sessions /\ Phase(c) = "user" /\ Holds(c)
      /\ UNCHANGED <<process, docs, now>>
  BY DEF IInv, OrderInv, Types, LoginStamps
<1>2. session[c].user \in Users /\ now \in 0..MaxTime /\ process.up
  BY <1>1 DEF Holds, IInv, DocsOK, ProcessOK, Open
<1>3. OrderInv'
  BY <1>2, LoginStampsOrder DEF IInv
<1>4. CASE Become(c, s)
  <2>1. session'[c] = s /\ OnlyHere(c)
    BY <1>1, <1>4 DEF Become, Types, OnlyHere
  <2>2. /\ s.phase = "store" /\ s.user = session[c].user
        /\ s.seen = session[c].seen /\ s.doc.own = session[c].doc.own
        /\ s.doc.last = now
    BY <1>1 DEF Sessions, UserDb
  <2> HIDE DEF s
  <2>3. Holds(c)'
    BY <1>1, <1>2, <2>1, <2>2 DEF Holds, Phase
  <2> QED BY <1>1, <1>2, <1>3, <2>1, <2>3, SameDocs, OneMoves
<1>5. CASE End(c)
  BY <1>1, <1>3, <1>5, SameDocs, EndsHere
<1> QED BY <1>4, <1>5 DEF LoginStamps

(* What a login writes is the player's, and not older than what it loaded.   *)
LEMMA StoredDocs ==
  ASSUME IInv, NEW c \in Conns, Phase(c) = "store", docs' \in {docs, Stored(c)}, now' = now
  PROVE  /\ DocsOK' /\ \A u \in Users : docs[u] # None => docs'[u] # None
         /\ docs' = Stored(c) => docs'[session[c].user] # None
<1> DEFINE w == session[c].user
           d == session[c].doc
<1>1. /\ w \in Users /\ d \in UserDb /\ d.own = Owns(w) /\ d.last <= now
  BY DEF IInv, OrderInv, Types, Sessions, Holds
<1>2. DocsOK /\ docs \in [Users -> UserDb \cup {None}] /\ d # None
  BY <1>1, DogAssumption DEF IInv, DocsOK
<1>3. CASE docs' = Stored(c)
  <2>1. docs' = [docs EXCEPT ![w] = d]
    BY <1>3 DEF Stored
  <2> HIDE DEF w, d
  <2>2. docs'[w] = d /\ \A u \in Users \ {w} : docs'[u] = docs[u]
    BY <1>1, <1>2, <2>1
  <2>3. docs' \in [Users -> UserDb \cup {None}]
    BY <1>1, <1>2, <2>1
  <2>4. DocsOK'
    BY <1>1, <1>2, <2>2, <2>3 DEF DocsOK
  <2> QED BY <1>1, <1>2, <2>2, <2>4 DEF w
<1>4. CASE docs' = docs
  <2>1. DocsOK'
    BY <1>2, <1>4 DEF DocsOK
  <2>2. docs' = Stored(c) => docs'[w] # None
    BY <1>3
  <2> QED BY <1>4, <2>1, <2>2
<1> QED BY <1>3, <1>4

LEMMA StoreStep ==
  ASSUME IInv, NEW c \in Conns, LoginStores(c) \/ LoginStoreFails(c) PROVE IInv'
<1>1. /\ Types /\ session[c] \in Sessions /\ Phase(c) = "store" /\ Holds(c)
      /\ UNCHANGED <<process, client, handled, now>> /\ docs' \in {docs, Stored(c)}
  BY DEF IInv, OrderInv, Types, LoginStores, LoginStoreFails, Done, Kicked
<1>2. /\ DocsOK' /\ \A u \in Users : docs[u] # None => docs'[u] # None
      /\ docs' = Stored(c) => docs'[session[c].user] # None
  BY <1>1, StoredDocs
<1>3. CASE LoginStores(c)
  <2> DEFINE s == Drained(session[c])
  <2>1. OrderInv' /\ process.up
    BY <1>1, <1>3, LoginStoresOrder DEF IInv, ProcessOK, Open
  <2>2. s.phase = "header" /\ s.user = session[c].user
    BY <1>1 DEF Drained, Sessions
  <2>3. session'[c] = s /\ OnlyHere(c) /\ docs' = Stored(c)
    BY <1>1, <1>3 DEF LoginStores, Done, Become, Types, OnlyHere
  <2>4. session[c].user \in Users
    BY <1>1 DEF Holds
  <2> HIDE DEF s
  <2>5. Holds(c)'
    BY <1>2, <2>2, <2>3, <2>4 DEF Holds, Phase
  <2> QED BY <1>1, <1>2, <2>1, <2>3, <2>5, OneMoves
<1>4. CASE LoginStoreFails(c)
  <2>1. End(c)
    BY <1>4 DEF LoginStoreFails, Kicked
  <2>2. OrderInv'
    BY <1>1, <2>1, Ends DEF IInv
  <2> QED BY <1>1, <1>2, <2>1, <2>2, EndsHere
<1> QED BY <1>3, <1>4

LEMMA WorldStep ==
  ASSUME IInv,
         \/ Start \/ Tick
         \/ \E c \in Conns : Connect(c) \/ HangUp(c) \/ \E p \in Requests[c] : Send(c, p)
  PROVE  IInv'
<1>1. CASE Start
  <2>1. OrderInv'
    BY <1>1 DEF Start, IInv, OrderInv, Types, InOrder, Between, Pending, Phase, Waiting, Next1
  <2>2. process' \in [up : BOOLEAN, db : BOOLEAN, res : SUBSET Care, starts : 1..MaxStarts]
    <3>1. process.starts + 1 \in 1..MaxStarts
      BY <1>1, DogAssumption DEF Start, IInv, ProcessOK
    <3>2. PICK d \in BOOLEAN, r \in ResChoices :
            process' = [up |-> TRUE, db |-> d, res |-> r, starts |-> process.starts + 1]
      BY <1>1 DEF Start, Started
    <3>3. r \in SUBSET Care
      BY DogAssumption
    <3> QED BY <3>1, <3>2, <3>3
  <2>3. \A c \in Conns : ~Open(c)
    BY <1>1 DEF Start, IInv, ProcessOK
  <2>4. UNCHANGED <<docs, session, now>>
    BY <1>1 DEF Start
  <2> QED BY <2>1, <2>2, <2>3, <2>4 DEF IInv, DocsOK, ProcessOK, Holds, Open, Phase
<1>2. CASE Tick
  <2>1. OrderInv'
    BY <1>2 DEF Tick, IInv, OrderInv, Types, InOrder, Between, Pending, Phase, Waiting, Next1
  <2>2. now' = now + 1 /\ now' \in 0..MaxTime /\ UNCHANGED <<process, docs, session>>
    BY <1>2, DogAssumption DEF Tick, IInv, DocsOK
  <2>3. DocsOK'
    BY <2>2 DEF IInv, DocsOK, UserDb
  <2>4. ASSUME NEW c \in Conns PROVE Holds(c)'
    <3>1. session[c] \in Sessions /\ Holds(c)
      BY DEF IInv, OrderInv, Types
    <3>2. session[c].seen.last \in Nat /\ session[c].doc.last \in Nat /\ now \in Nat
      BY <3>1, DogAssumption DEF Sessions, UserDb, IInv, DocsOK
    <3> QED BY <2>2, <3>1, <3>2 DEF Holds, Phase
  <2> QED BY <2>1, <2>2, <2>3, <2>4 DEF IInv, ProcessOK, Open, Phase
<1>3. ASSUME NEW c \in Conns, Connect(c) PROVE IInv'
  <2>1. /\ OrderInv' /\ Become(c, NewClient) /\ UNCHANGED <<process, docs, now>>
        /\ process.up
    BY <1>3, ConnectOrder DEF IInv, Connect
  <2>2. session'[c] = NewClient /\ OnlyHere(c)
    BY <2>1 DEF IInv, OrderInv, Types, Become, OnlyHere
  <2>3. NewClient.phase = "header" /\ NewClient.ready = FALSE
    BY DEF NewClient
  <2>4. Holds(c)'
    BY <2>2, <2>3 DEF Holds, Phase
  <2> QED BY <2>1, <2>2, <2>4, SameDocs, OneMoves
<1>4. ASSUME NEW c \in Conns, HangUp(c) PROVE IInv'
  <2>1. OrderInv' /\ UNCHANGED <<process, docs, session, now>>
    BY <1>4, HangUpOrder DEF IInv, HangUp
  <2> QED BY <2>1, Elsewhere
<1>5. ASSUME NEW c \in Conns, NEW p \in Requests[c], Send(c, p) PROVE IInv'
  <2>1. OrderInv' /\ UNCHANGED <<process, docs, session, now>>
    BY <1>5, SendOrder DEF IInv, Send
  <2> QED BY <2>1, Elsewhere
<1> QED BY <1>1, <1>2, <1>3, <1>4, <1>5

-----------------------------------------------------------------------------
LEMMA DogInit == Init => IInv
<1> SUFFICES ASSUME Init PROVE IInv
  OBVIOUS
<1>1. OrderInv
  <2>1. session \in [Conns -> Sessions]
    BY NewTypes DEF Init
  <2>2. client \in [Conns -> Clients] /\ handled \in [Conns -> Seq(Packets)]
    BY EmptySeq DEF Init, Clients
  <2>3. NotYet.phase = "none" /\ NotYet.chan = "empty"
    BY DEF NotYet, NewClient
  <2>4. \A c \in Conns : InOrder(c) /\ Between(c)
    BY <2>3 DEF Init, InOrder, Between, Pending, Phase
  <2> QED BY <2>1, <2>2, <2>4 DEF OrderInv, Types
<1>2. DocsOK
  <2>1. now = 0 /\ 0 \in 0..MaxTime /\ docs = FirstDocs
    BY DogAssumption DEF Init
  <2>2. ASSUME NEW u \in Users, docs[u] # None
        PROVE docs[u] \in UserDb /\ docs[u].own = Owns(u) /\ docs[u].last = 0
    <3>1. docs[u] \in [own : BOOLEAN, last : {0}] /\ FirstDocs[u] # None
      BY <2>1, <2>2, DogAssumption
    <3>2. Owns(u) = docs[u].own
      BY <2>1, <3>1, Zenon DEF Owns
    <3> QED BY <2>1, <3>1, <3>2 DEF UserDb
  <2>3. docs \in [Users -> UserDb \cup {None}]
    <3>1. \A u \in Users : docs[u] \in UserDb \cup {None}
      BY <2>2
    <3> QED BY <2>1, <3>1, DogAssumption
  <2> QED BY <2>1, <2>2, <2>3 DEF DocsOK
<1>3. ProcessOK
  <2>1. PICK d \in BOOLEAN, r \in ResChoices :
          process = [up |-> TRUE, db |-> d, res |-> r, starts |-> 1]
    BY DEF Init, Started
  <2>2. r \in SUBSET Care /\ 1 \in 1..MaxStarts
    BY DogAssumption
  <2> QED BY <2>1, <2>2 DEF ProcessOK
<1>4. \A c \in Conns : Holds(c)
  <2>1. NotYet.phase = "none" /\ NotYet.ready = FALSE
    BY DEF NotYet, NewClient
  <2> QED BY <2>1 DEF Init, Holds, Phase
<1> QED BY <1>1, <1>2, <1>3, <1>4 DEF IInv

LEMMA DogStep == IInv /\ [Next]_vars => IInv'
<1> SUFFICES ASSUME IInv, [Next]_vars PROVE IInv'
  OBVIOUS
<1>1. ASSUME NEW c \in Conns, Proc(c) PROVE IInv'
  <2>1. CASE ReadHeader(c) \/ ReadBody(c) \/ ReadFails(c)
    BY <2>1, ReaderStep
  <2>2. CASE SelectNil(c) \/ ProcTimeout(c)
    BY <2>2, SelectStep
  <2>3. CASE \/ ProcReserved(c) \/ ProcUnregistered(c) \/ LoginAgain(c)
             \/ LoginRefused(c) \/ LoginLoads(c) \/ LoginLoadFails(c)
             \/ LoginWithoutDb(c) \/ CareKicked(c) \/ CareRefused(c) \/ CarePanics(c)
    BY <2>3, HandlersShape, HandlerStep
  <2>4. CASE LoginStamps(c)
    BY <2>4, StampStep
  <2>5. CASE LoginStores(c) \/ LoginStoreFails(c)
    BY <2>5, StoreStep
  <2> QED BY <1>1, <2>1, <2>2, <2>3, <2>4, <2>5 DEF Proc
<1>2. CASE \/ Start \/ Tick
           \/ \E c \in Conns : Connect(c) \/ HangUp(c) \/ \E p \in Requests[c] : Send(c, p)
  BY <1>2, WorldStep
<1>3. CASE UNCHANGED vars
  BY <1>3 DEF vars, IInv, OrderInv, Types, InOrder, Between, Pending, Phase, Waiting,
     Next1, DocsOK, ProcessOK, Open, Holds
<1> QED BY <1>1, <1>2, <1>3 DEF Next

LEMMA DogInvariant == Spec => []IInv
BY DogInit, DogStep, PTL DEF Spec

-----------------------------------------------------------------------------
(* Sessions, documents and the process keep their types, and no session is   *)
(* open in a process that has died.                                          *)
THEOREM DogTypeCorrect == Spec => []TypeOK
<1>1. IInv => TypeOK
  <2> SUFFICES ASSUME IInv, NEW c \in Conns
      PROVE LET s == session[c] IN
            /\ s.phase \in Phases /\ s.chan \in {"empty", "msg", "nil"}
            /\ s.ready \in BOOLEAN /\ s.msg.cmd \in Commands
            /\ s.user \in Users \cup {None} /\ s.doc \in UserDb /\ s.seen \in UserDb
            /\ Open(c) => process.up
            /\ client[c].got \in 0..Len(client[c].sent)
    BY DEF IInv, DocsOK, ProcessOK, TypeOK, Phases
  <2>1. session[c] \in Sessions /\ client[c] \in Clients /\ InOrder(c)
    BY DEF IInv, OrderInv, Types
  <2>2. client[c].got \in 0..Len(client[c].sent)
    BY <2>1 DEF InOrder, Clients
  <2> QED BY <2>1, <2>2 DEF Sessions, IInv, ProcessOK
<1> QED BY <1>1, DogInvariant, PTL

(* Whatever is sent and whenever a connection or the process ends, a session *)
(* has served the packets of its client in their order, each once.           *)
THEOREM ServedInOrderAlways == Spec => []ServedInOrder
<1>1. IInv => ServedInOrder
  <2> SUFFICES ASSUME IInv, NEW c \in Conns
      PROVE /\ Len(handled[c]) <= Len(client[c].sent)
            /\ \A i \in DOMAIN handled[c] : handled[c][i] = client[c].sent[i]
    BY DEF ServedInOrder
  <2>1. InOrder(c) /\ handled[c] \in Seq(Packets) /\ client[c] \in Clients
    BY DEF IInv, OrderInv, Types
  <2> QED BY <2>1 DEF InOrder, Clients
<1> QED BY <1>1, DogInvariant, PTL

(* No session goes on after a login whose user is not in the database.       *)
THEOREM LoggedInIsStoredAlways == Spec => []LoggedInIsStored
<1>1. IInv => LoggedInIsStored
  BY DEF IInv, Holds, LoggedInIsStored
<1> QED BY <1>1, DogInvariant, PTL
(* A login keeps what it finds, and puts LastLogin back only over a session  *)
(* that has stored since it loaded.                                          *)
Keeps(u) ==
  /\ docs'[u] # None /\ docs'[u].own = docs[u].own
  /\ docs'[u].last < docs[u].last =>
       \E c \in Conns : /\ Phase(c) = "store" /\ session[c].user = u
                        /\ session[c].seen # docs[u]

LEMMA StoreKeeps ==
  ASSUME IInv, NEW c \in Conns, Phase(c) = "store", docs' = Stored(c), now' = now,
         NEW u \in Users, docs[u] # None
  PROVE  Keeps(u)
<1>1. DocsOK /\ DocsOK' /\ docs'[u] # None
  BY StoredDocs DEF IInv
<1>2. docs'[u].own = docs[u].own
  BY <1>1 DEF DocsOK
<1>3. CASE u = session[c].user
  <2>1. docs'[u] = session[c].doc
    BY <1>1, <1>3 DEF Stored, DocsOK
  <2>2. session[c].seen.last <= session[c].doc.last
    BY DEF IInv, Holds
  <2>3. docs[u] = session[c].seen => ~(docs'[u].last < docs[u].last)
    <3>1. session[c].seen.last \in Nat /\ session[c].doc.last \in Nat
      BY DogAssumption DEF IInv, OrderInv, Types, Sessions, UserDb
    <3> QED BY <2>1, <2>2, <3>1
  <2> QED BY <1>1, <1>2, <1>3, <2>3 DEF Keeps
<1>4. CASE u # session[c].user
  <2>1. docs'[u] = docs[u]
    BY <1>1, <1>4 DEF Stored, DocsOK
  <2>2. docs[u].last \in Nat
    BY <1>1, DogAssumption DEF DocsOK, UserDb
  <2> QED BY <1>1, <1>2, <2>1, <2>2 DEF Keeps
<1> QED BY <1>3, <1>4

LEMMA OnlyStoresWrite ==
  ASSUME [Next]_vars
  PROVE  docs' = docs \/ \E c \in Conns : /\ Phase(c) = "store" /\ docs' = Stored(c)
                                         /\ now' = now
<1>1. ASSUME NEW c \in Conns, Proc(c)
      PROVE docs' = docs \/ (Phase(c) = "store" /\ docs' = Stored(c) /\ now' = now)
  <2>1. CASE ReadHeader(c) \/ ReadBody(c) \/ ReadFails(c) \/ SelectNil(c) \/ ProcTimeout(c)
    BY <2>1 DEF ReadHeader, ReadBody, ReadFails, SelectNil, ProcTimeout
  <2>2. CASE \/ ProcReserved(c) \/ ProcUnregistered(c) \/ LoginAgain(c)
             \/ LoginRefused(c) \/ LoginLoads(c) \/ LoginLoadFails(c)
             \/ LoginWithoutDb(c) \/ CareKicked(c) \/ CareRefused(c) \/ CarePanics(c)
    BY <2>2, HandlersShape DEF Handles
  <2>3. CASE LoginStamps(c) \/ LoginStores(c) \/ LoginStoreFails(c)
    BY <2>3 DEF LoginStamps, LoginStores, LoginStoreFails
  <2> QED BY <1>1, <2>1, <2>2, <2>3 DEF Proc
<1>2. CASE \/ Start \/ Tick
           \/ \E c \in Conns : Connect(c) \/ HangUp(c) \/ \E p \in Requests[c] : Send(c, p)
  BY <1>2 DEF Start, Tick, Connect, HangUp, Send
<1>3. CASE UNCHANGED vars
  BY <1>3 DEF vars
<1> QED BY <1>1, <1>2, <1>3 DEF Next

(* A user's document stays, with what the player owns, whatever sessions,    *)
(* failures and panics come between the load of a login and its store.       *)
THEOREM DocumentKeptAlways == Spec => DocumentKept
<1>1. IInv /\ [Next]_vars =>
        [\A u \in Users :
           docs[u] # None =>
             /\ docs'[u] # None
             /\ docs'[u].own = docs[u].own
             /\ docs'[u].last < docs[u].last =>
                  \E c \in Conns : /\ Phase(c) = "store" /\ session[c].user = u
                                   /\ session[c].seen # docs[u]]_vars
  <2> SUFFICES ASSUME IInv, [Next]_vars, NEW u \in Users, docs[u] # None
      PROVE Keeps(u)
    BY DEF Keeps
  <2>1. CASE docs' = docs
    <3>1. docs[u].last \in Nat
      BY DogAssumption DEF IInv, DocsOK, UserDb
    <3> QED BY <2>1, <3>1 DEF Keeps
  <2>2. CASE docs' # docs
    BY <2>2, OnlyStoresWrite, StoreKeeps
  <2> QED BY <2>1, <2>2
<1> QED BY <1>1, DogInvariant, PTL DEF Spec, DocumentKept
=============================================================================
