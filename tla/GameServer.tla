----------------------------- MODULE GameServer -----------------------------
(* crazyassd: one goroutine (Proc) and one reader goroutine (readMsg) per    *)
(* websocket connection, the Online registry they share, the MongoDB store   *)
(* behind it, and the Tapjoy callbacks that credit hearts from outside.      *)
(*                                                                           *)
(* A step of a goroutine ends wherever another one can see or change what it *)
(* works on: a channel operation, the registry's mutex, a database call, and *)
(* each half of the decoding into the message buffer the two goroutines of a *)
(* connection share.                                                         *)
EXTENDS UserRecord, FiniteSets

CONSTANTS
  Conns,        \* websocket connections, each used once
  Users,        \* user ids
  NoUser,       \* the empty user id
  NoConn,       \* "no session" in the registry
  NoDoc,        \* "no document" in the database
  Owner,        \* the user id the device on a connection sends ("" for a new one)
  Grants,       \* HTTP callbacks that credit hearts
  GrantUser,    \* whom a callback credits
  GrantAmount,  \* and how many hearts it carries
  Requests,     \* what a client may send: [cmd, body]
  InitialDb,    \* the databases to start from
  IchanCap,     \* capacity of a session's internal channel (4 in the code)
  MaxRequests,  \* bound: requests per connection
  MaxInFlight,  \* bound: requests a client sends ahead of their replies
  MaxCrashes,   \* bound: crashes of the server
  DbFails       \* whether a database call may fail

ASSUME NamesAssumption ==
  NoUser \notin Users /\ NoConn \notin Conns /\ NoDoc \notin UserDb
ASSUME DataAssumption ==
  /\ Owner \in [Conns -> Users \cup {NoUser}]
  /\ GrantUser \in [Grants -> Users]
  /\ GrantAmount \in [Grants -> Nat]
  /\ \A r \in Requests : r.cmd \in Commands /\ r.body \in Bodies
  /\ InitialDb \subseteq [Users -> UserDb \cup {NoDoc}]
ASSUME BoundAssumption ==
  /\ IchanCap \in Nat \ {0} /\ MaxRequests \in Nat
  /\ MaxInFlight \in Nat \ {0} /\ MaxCrashes \in Nat
  /\ DbFails \in BOOLEAN

VARIABLES
  main,     \* where Proc is
  reader,   \* where readMsg is
  link,     \* the TCP connection
  inbox,    \* requests sent and not read yet
  cmsg,     \* Client.msg, which both goroutines use
  reqChan,  \* req_chan: capacity 1; a pointer to cmsg, or nil
  enable,   \* Client.enable
  user,     \* the embedded User: uid, ready, dirty, udb
  reply,    \* replyMsg's header, and what procMsg decided
  ichan,    \* Client.ichan
  online,   \* CAOnline.usermap
  db,       \* the user collection
  grant,    \* AddHeartAsync in each callback; base, as below, is history
  crashes,  \* crashes so far
  asked,    \* history: what each client has sent
  served,   \* history: what each session has handled
  answers,  \* history: the replies each client has got
  base      \* history: the document a session last loaded or stored

transport == <<link, inbox, cmsg, reqChan>>
history   == <<asked, served, answers, base>>
vars == <<main, reader, transport, enable, user, reply, ichan, online, db,
          grant, crashes, history>>

-----------------------------------------------------------------------------
MainStates == {"off", "top", "select", "dispatch", "handle", "insert", "store",
               "send", "exit", "close", "done"}
ReaderStates == {"off", "read", "decode", "push", "fail", "gone"}

UserStates  == [uid : Users \cup {NoUser}, ready : BOOLEAN, dirty : BOOLEAN,
                udb : UserDb]
LinkStates   == {"none", "up", "closed", "silent", "down"}
Messages    == [cmd : Commands, seq : Nat, body : Bodies]
Buffers     == [cmd : Commands \cup {0}, seq : Nat, body : Bodies]
Replies     == [cmd : Commands \cup {0}, seq : Nat, err : ErrorCodes, kick : BOOLEAN]
GrantStates == [pc : {"idle", "send", "load", "store", "done"},
                target : Conns \cup {NoConn},
                copy : UserDb, base : UserDb \cup {NoDoc}]

ZeroDoc == [heart |-> 0, stage |-> 0, lock |-> <<>>]
NewUser == [uid |-> NoUser, ready |-> FALSE, dirty |-> FALSE, udb |-> ZeroDoc]
NoGrant == [pc |-> "idle", target |-> NoConn, copy |-> ZeroDoc, base |-> NoDoc]
NoReply == [cmd |-> 0, seq |-> 0, err |-> kErrNone, kick |-> FALSE]

Init ==
  /\ main = [c \in Conns |-> "off"]
  /\ reader = [c \in Conns |-> "off"]
  /\ link = [c \in Conns |-> "none"]
  /\ inbox = [c \in Conns |-> <<>>]
  /\ cmsg = [c \in Conns |-> [cmd |-> 0, seq |-> 0, body |-> NoBody]]
  /\ reqChan = [c \in Conns |-> "empty"]
  /\ enable = [c \in Conns |-> FALSE]
  /\ user = [c \in Conns |-> NewUser]
  /\ reply = [c \in Conns |-> NoReply]
  /\ ichan = [c \in Conns |-> <<>>]
  /\ online = [u \in Users |-> NoConn]
  /\ db \in InitialDb
  /\ grant = [g \in Grants |-> NoGrant]
  /\ crashes = 0
  /\ asked = [c \in Conns |-> <<>>]
  /\ served = [c \in Conns |-> <<>>]
  /\ answers = [c \in Conns |-> <<>>]
  /\ base = [c \in Conns |-> NoDoc]

-----------------------------------------------------------------------------
(* The client's end of a connection.                                         *)

Connect(c) ==
  /\ main[c] = "off"
  /\ main' = [main EXCEPT ![c] = "top"]
  /\ reader' = [reader EXCEPT ![c] = "read"]
  /\ link' = [link EXCEPT ![c] = "up"]
  /\ enable' = [enable EXCEPT ![c] = TRUE]
  /\ UNCHANGED <<inbox, cmsg, reqChan, user, reply, ichan, online, db, grant,
                 crashes, history>>

(* Any request may come at any time: a purchase completed on the start       *)
(* screen takes the player to where he can play before login is answered.    *)
ClientSend(c) ==
  /\ link[c] = "up"
  /\ Len(asked[c]) < MaxRequests
  /\ Len(asked[c]) - Len(answers[c]) < MaxInFlight
  /\ \E r \in Requests :
       LET m == [cmd |-> r.cmd, seq |-> Len(asked[c]) + 1, body |-> r.body]
       IN /\ inbox' = [inbox EXCEPT ![c] = Append(@, m)]
          /\ asked' = [asked EXCEPT ![c] = Append(@, m)]
  /\ UNCHANGED <<main, reader, link, cmsg, reqChan, enable, user, reply, ichan,
                 online, db, grant, crashes, served, answers, base>>

(* The client closes the connection, or vanishes without a word.             *)
ClientLeave(c) ==
  /\ link[c] = "up"
  /\ \E how \in {"closed", "silent"} : link' = [link EXCEPT ![c] = how]
  /\ UNCHANGED <<main, reader, inbox, cmsg, reqChan, enable, user, reply, ichan,
                 online, db, grant, crashes, history>>

-----------------------------------------------------------------------------
(* readMsg.                                                                  *)

(* readPacket decodes into the shared buffer; the client's JSON puts the     *)
(* body before the command and the sequence number.                          *)
ReadBody(c) ==
  /\ reader[c] = "read" /\ link[c] # "down" /\ inbox[c] # <<>>
  /\ cmsg' = [cmsg EXCEPT ![c].body = MergeBody(@, Head(inbox[c]).body)]
  /\ reader' = [reader EXCEPT ![c] = "decode"]
  /\ UNCHANGED <<main, link, inbox, reqChan, enable, user, reply, ichan, online,
                 db, grant, crashes, history>>

ReadHeader(c) ==
  /\ reader[c] = "decode"
  /\ cmsg' = [cmsg EXCEPT ![c].cmd = Head(inbox[c]).cmd,
                          ![c].seq = Head(inbox[c]).seq]
  /\ inbox' = [inbox EXCEPT ![c] = Tail(@)]
  /\ reader' = [reader EXCEPT ![c] = "push"]
  /\ UNCHANGED <<main, link, reqChan, enable, user, reply, ichan, online, db,
                 grant, crashes, history>>

PushRequest(c) ==
  /\ reader[c] = "push" /\ reqChan[c] = "empty"
  /\ reqChan' = [reqChan EXCEPT ![c] = "msg"]
  /\ reader' = [reader EXCEPT ![c] = "read"]
  /\ UNCHANGED <<main, link, inbox, cmsg, enable, user, reply, ichan, online, db,
                 grant, crashes, history>>

(* A peer that closed may reset what it had sent; one that vanished is never *)
(* noticed by a read (TCP keepalive, which would notice later, is left out). *)
ReadError(c) ==
  /\ reader[c] = "read"
  /\ link[c] \in {"closed", "down"}
  /\ enable' = [enable EXCEPT ![c] = FALSE]
  /\ reader' = [reader EXCEPT ![c] = "fail"]
  /\ UNCHANGED <<main, transport, user, reply, ichan, online, db, grant, crashes,
                 history>>

PushNil(c) ==
  /\ reader[c] = "fail" /\ reqChan[c] = "empty"
  /\ reqChan' = [reqChan EXCEPT ![c] = "nil"]
  /\ reader' = [reader EXCEPT ![c] = "gone"]
  /\ UNCHANGED <<main, link, inbox, cmsg, enable, user, reply, ichan, online, db,
                 grant, crashes, history>>

Reader(c) == ReadBody(c) \/ ReadHeader(c) \/ PushRequest(c) \/ ReadError(c)
             \/ PushNil(c)

-----------------------------------------------------------------------------
(* Proc's loop.                                                              *)

Goto(c, s) == main' = [main EXCEPT ![c] = s]

TopOfLoop(c) ==
  /\ main[c] = "top"
  /\ \/ enable[c] /\ Goto(c, "select") /\ reply' = [reply EXCEPT ![c].err = kErrNone]
     \/ ~enable[c] /\ Goto(c, "exit") /\ UNCHANGED reply
  /\ UNCHANGED <<reader, transport, enable, user, ichan, online, db, grant,
                 crashes, history>>

TakeRequest(c) ==
  /\ main[c] = "select" /\ reqChan[c] # "empty"
  /\ Goto(c, IF reqChan[c] = "msg" THEN "dispatch" ELSE "top")
  /\ reqChan' = [reqChan EXCEPT ![c] = "empty"]
  /\ UNCHANGED <<reader, link, inbox, cmsg, enable, user, reply, ichan, online,
                 db, grant, crashes, history>>

TakeCreditWithRequestOnly(c) ==                                 \* a mutant
  /\ main[c] = "select" /\ ichan[c] # <<>> /\ reqChan[c] # "empty"
  /\ user' = [user EXCEPT ![c].udb = AddHeart(@, Head(ichan[c]))]
  /\ ichan' = [ichan EXCEPT ![c] = Tail(@)]
  /\ Goto(c, "top")
  /\ UNCHANGED <<reader, transport, enable, reply, online, db, grant, crashes,
                 history>>

(* procIMsg: the credit goes to memory; nothing marks the user dirty.        *)
TakeCredit(c) ==
  /\ main[c] = "select" /\ ichan[c] # <<>>
  /\ user' = [user EXCEPT ![c].udb = AddHeart(@, Head(ichan[c]))]
  /\ ichan' = [ichan EXCEPT ![c] = Tail(@)]
  /\ Goto(c, "top")
  /\ UNCHANGED <<reader, transport, enable, reply, online, db, grant, crashes,
                 history>>

procTimeoutStays(c) ==                                          \* a mutant
  /\ main[c] = "select" /\ reqChan[c] = "empty" /\ ichan[c] = <<>>
  /\ Goto(c, "top")
  /\ UNCHANGED <<reader, transport, enable, user, reply, ichan, online, db,
                 grant, crashes, history>>

procTimeout(c) ==
  /\ main[c] = "select" /\ reqChan[c] = "empty" /\ ichan[c] = <<>>
  /\ enable' = [enable EXCEPT ![c] = FALSE]
  /\ Goto(c, "top")
  /\ UNCHANGED <<reader, transport, user, reply, ichan, online, db, grant,
                 crashes, history>>

-----------------------------------------------------------------------------
(* procMsg, a step between every two uses of something shared.               *)

DispatchKeepsSeq(c) ==                                          \* a mutant
  /\ main[c] = "dispatch"
  /\ reply' = [reply EXCEPT ![c].cmd = cmsg[c].cmd, ![c].kick = FALSE]
  /\ Goto(c, "handle")
  /\ UNCHANGED <<reader, transport, enable, user, ichan, online, db, grant,
                 crashes, history>>

Dispatch(c) ==
  /\ main[c] = "dispatch"
  /\ reply' = [reply EXCEPT ![c] = [cmd |-> cmsg[c].cmd, seq |-> cmsg[c].seq,
                                    err |-> @.err, kick |-> FALSE]]
  /\ Goto(c, "handle")
  /\ UNCHANGED <<reader, transport, enable, user, ichan, online, db, grant,
                 crashes, history>>

Record(c) ==
  served' = [served EXCEPT ![c] =
               Append(@, [cmd |-> cmsg[c].cmd, body |-> cmsg[c].body,
                          seq |-> reply[c].seq])]

KickStranger(c) ==
  /\ main[c] = "handle" /\ ~user[c].ready /\ cmsg[c].cmd # kCmdUserLogin
  /\ reply' = [reply EXCEPT ![c].kick = TRUE]
  /\ Record(c)
  /\ Goto(c, "store")
  /\ UNCHANGED <<reader, transport, enable, user, ichan, online, db, grant,
                 crashes, asked, answers, base>>

Handle(c) ==
  /\ main[c] = "handle" /\ user[c].ready
  /\ LET out == Serve(cmsg[c].cmd, user[c].udb, cmsg[c].body)
     IN /\ user' = [user EXCEPT ![c].udb = out.udb, ![c].dirty = @ \/ out.dirty]
        /\ reply' = [reply EXCEPT ![c].err = out.err]
  /\ Record(c)
  /\ Goto(c, "store")
  /\ UNCHANGED <<reader, transport, enable, ichan, online, db, grant, crashes,
                 asked, answers, base>>

(* GenerateUniqueUserid: an id nobody has had.                               *)
Unused(u) == db[u] = NoDoc /\ \A c \in Conns : user[c].uid # u /\ Owner[c] # u
LoginId(c) == IF Owner[c] # NoUser THEN {Owner[c]} ELSE {u \in Users : Unused(u)}

LoginLoadRegistersOnError(c) ==                                 \* a mutant
  /\ main[c] = "handle" /\ ~user[c].ready /\ cmsg[c].cmd = kCmdUserLogin
  /\ \E u \in LoginId(c) : \E new \in {db[u] = NoDoc, DbFails} :
       LET doc == IF new \/ db[u] = NoDoc THEN userRegister ELSE db[u]
       IN user' = [user EXCEPT ![c] =
                     [uid |-> u, ready |-> TRUE, dirty |-> @.dirty \/ new,
                      udb |-> LoginRefill(doc)]]
          /\ base' = [base EXCEPT ![c] = db[u]]
  /\ Record(c)
  /\ Goto(c, "insert")
  /\ UNCHANGED <<reader, transport, enable, reply, ichan, online, db, grant,
                 crashes, asked, answers>>

(* Login, with Load: a user the database has never seen is registered.       *)
LoginLoad(c) ==
  /\ main[c] = "handle" /\ ~user[c].ready /\ cmsg[c].cmd = kCmdUserLogin
  /\ \E u \in LoginId(c) :
       LET new == db[u] = NoDoc
           doc == IF new THEN userRegister ELSE db[u]
       IN user' = [user EXCEPT ![c] =
                     [uid |-> u, ready |-> TRUE, dirty |-> @.dirty \/ new,
                      udb |-> LoginRefill(doc)]]
          /\ base' = [base EXCEPT ![c] = db[u]]
  /\ Record(c)
  /\ Goto(c, "insert")
  /\ UNCHANGED <<reader, transport, enable, reply, ichan, online, db, grant,
                 crashes, asked, answers>>

LoginLoadFails(c) ==
  /\ DbFails
  /\ main[c] = "handle" /\ ~user[c].ready /\ cmsg[c].cmd = kCmdUserLogin
  /\ reply' = [reply EXCEPT ![c].err = kErrReadDB, ![c].kick = TRUE]
  /\ Record(c)
  /\ Goto(c, "store")
  /\ UNCHANGED <<reader, transport, enable, user, ichan, online, db, grant,
                 crashes, asked, answers, base>>

InsertOnlineNoLocks(c) ==                                       \* a mutant
  /\ main[c] = "insert"
  /\ LET u == user[c].uid
     IN online' = IF online[u] = NoConn THEN [online EXCEPT ![u] = c] ELSE online
  /\ Goto(c, "store")
  /\ UNCHANGED <<reader, transport, enable, user, reply, ichan, db, grant,
                 crashes, history>>

(* InsertOnline, whose error the handler drops, and the rest of the handler. *)
InsertOnline(c) ==
  /\ main[c] = "insert"
  /\ LET u == user[c].uid
     IN online' = IF online[u] = NoConn THEN [online EXCEPT ![u] = c] ELSE online
  /\ user' = [user EXCEPT ![c].udb = FillLock(@)]
  /\ Goto(c, "store")
  /\ UNCHANGED <<reader, transport, enable, reply, ichan, db, grant, crashes,
                 history>>

(* Store, and the kick that a failure or the handler asked for.              *)
Store(c) ==
  /\ main[c] = "store"
  /\ IF user[c].dirty
     THEN /\ db' = [db EXCEPT ![user[c].uid] = user[c].udb]
          /\ base' = [base EXCEPT ![c] = user[c].udb]
     ELSE UNCHANGED <<db, base>>
  /\ enable' = [enable EXCEPT ![c] = @ /\ ~reply[c].kick]
  /\ Goto(c, "send")
  /\ UNCHANGED <<reader, transport, user, reply, ichan, online, grant, crashes,
                 asked, served, answers>>

StoreFailsSilently(c) ==                                        \* a mutant
  /\ DbFails
  /\ main[c] = "store" /\ user[c].dirty
  /\ Goto(c, "send")
  /\ UNCHANGED <<reader, transport, enable, user, reply, ichan, online, db,
                 grant, crashes, history>>

(* An upsert may report an error and still have been applied.                *)
StoreFails(c) ==
  /\ DbFails
  /\ main[c] = "store" /\ user[c].dirty
  /\ db' \in {db, [db EXCEPT ![user[c].uid] = user[c].udb]}
  /\ reply' = [reply EXCEPT ![c].err = kErrWriteDB, ![c].kick = TRUE]
  /\ enable' = [enable EXCEPT ![c] = FALSE]
  /\ Goto(c, "send")
  /\ UNCHANGED <<reader, transport, user, ichan, online, grant, crashes,
                 history>>

SendReply(c) ==
  /\ main[c] = "send"
  /\ answers' = IF link[c] = "up"
                THEN [answers EXCEPT ![c] = Append(@, reply[c])] ELSE answers
  /\ Goto(c, "top")
  /\ UNCHANGED <<reader, transport, enable, user, reply, ichan, online, db,
                 grant, crashes, asked, served, base>>

-----------------------------------------------------------------------------
(* The end of Proc.                                                          *)

UnregisterNothing(c) ==                                         \* a mutant
  /\ main[c] = "exit"
  /\ Goto(c, "close")
  /\ UNCHANGED <<reader, transport, enable, user, reply, ichan, online, db,
                 grant, crashes, history>>

(* CAOnline.Delete removes whatever the user id maps to.                     *)
Unregister(c) ==
  /\ main[c] = "exit"
  /\ online' = [u \in Users |-> IF u = user[c].uid THEN NoConn ELSE online[u]]
  /\ Goto(c, "close")
  /\ UNCHANGED <<reader, transport, enable, user, reply, ichan, db, grant,
                 crashes, history>>

CloseLeavesSocket(c) ==                                         \* a mutant
  /\ main[c] = "close"
  /\ Goto(c, "done")
  /\ UNCHANGED <<reader, transport, enable, user, reply, ichan, online, db,
                 grant, crashes, history>>

Close(c) ==
  /\ main[c] = "close"
  /\ link' = [link EXCEPT ![c] = "down"]
  /\ Goto(c, "done")
  /\ UNCHANGED <<reader, inbox, cmsg, reqChan, enable, user, reply, ichan,
                 online, db, grant, crashes, history>>

Main(c) ==
  \/ TopOfLoop(c) \/ TakeRequest(c) \/ TakeCredit(c) \/ procTimeout(c)
  \/ Dispatch(c) \/ KickStranger(c) \/ Handle(c) \/ LoginLoad(c)
  \/ LoginLoadFails(c) \/ InsertOnline(c) \/ Store(c) \/ StoreFails(c)
  \/ SendReply(c) \/ Unregister(c) \/ Close(c)

-----------------------------------------------------------------------------
(* AddHeartAsync, once per callback.                                         *)

GrantGoto(g, s) == grant' = [grant EXCEPT ![g].pc = s]

FindOnline(g) ==
  /\ grant[g].pc = "idle"
  /\ LET c == online[GrantUser[g]]
     IN grant' = [grant EXCEPT ![g].pc = IF c = NoConn THEN "load" ELSE "send",
                               ![g].target = c]
  /\ UNCHANGED <<main, reader, transport, enable, user, reply, ichan, online, db,
                 crashes, history>>

(* AddHeartAsyncOnline blocks while the session's channel is full.           *)
SendCredit(g) ==
  /\ grant[g].pc = "send" /\ Len(ichan[grant[g].target]) < IchanCap
  /\ ichan' = [ichan EXCEPT ![grant[g].target] = Append(@, GrantAmount[g])]
  /\ GrantGoto(g, "done")
  /\ UNCHANGED <<main, reader, transport, enable, user, reply, online, db,
                 crashes, history>>

GrantLoad(g) ==
  /\ grant[g].pc = "load"
  /\ LET doc == IF db[GrantUser[g]] = NoDoc THEN userRegister
                                            ELSE db[GrantUser[g]]
     IN grant' = [grant EXCEPT ![g].pc = "store",
                               ![g].copy = AddHeart(doc, GrantAmount[g]),
                               ![g].base = db[GrantUser[g]]]
  /\ UNCHANGED <<main, reader, transport, enable, user, reply, ichan, online, db,
                 crashes, history>>

GrantStore(g) ==
  /\ grant[g].pc = "store"
  /\ db' = [db EXCEPT ![GrantUser[g]] = grant[g].copy]
  /\ GrantGoto(g, "done")
  /\ UNCHANGED <<main, reader, transport, enable, user, reply, ichan, online,
                 crashes, history>>

GrantDbFailsStoresZero(g) ==                                    \* a mutant
  /\ DbFails
  /\ grant[g].pc = "load"
  /\ grant' = [grant EXCEPT ![g].pc = "store", ![g].base = db[GrantUser[g]],
                            ![g].copy = AddHeart(ZeroDoc, GrantAmount[g])]
  /\ UNCHANGED <<main, reader, transport, enable, user, reply, ichan, online, db,
                 crashes, history>>

GrantDbFails(g) ==
  /\ DbFails
  /\ grant[g].pc \in {"load", "store"}
  /\ GrantGoto(g, "done")
  /\ UNCHANGED <<main, reader, transport, enable, user, reply, ichan, online, db,
                 crashes, history>>

Callback(g) == FindOnline(g) \/ SendCredit(g) \/ GrantLoad(g) \/ GrantStore(g)
               \/ GrantDbFails(g)

-----------------------------------------------------------------------------
(* The process dies: goroutines, sessions and the registry with it.          *)

Alive(c) == main[c] \notin {"off", "done"}

Crash ==
  /\ crashes < MaxCrashes
  /\ crashes' = crashes + 1
  /\ main' = [c \in Conns |-> IF main[c] = "off" THEN "off" ELSE "done"]
  /\ reader' = [c \in Conns |-> IF main[c] = "off" THEN "off" ELSE "gone"]
  /\ link' = [c \in Conns |-> IF main[c] = "off" THEN "none" ELSE "down"]
  /\ ichan' = [c \in Conns |-> <<>>]
  /\ online' = [u \in Users |-> NoConn]
  /\ grant' = [g \in Grants |-> IF grant[g].pc = "idle" THEN grant[g]
                                ELSE [grant[g] EXCEPT !.pc = "done"]]
  /\ UNCHANGED <<inbox, cmsg, reqChan, enable, user, reply, db, history>>

(* Nothing is left to do: every connection is used up and at rest.           *)
Finished ==
  /\ \A c \in Conns : main[c] = "done" /\ reader[c] \in {"gone", "fail", "push"}
  /\ \A g \in Grants : grant[g].pc \in {"done", "send"}
  /\ UNCHANGED vars

Client(c) == Connect(c) \/ ClientSend(c) \/ ClientLeave(c)

Next ==
  \/ \E c \in Conns : Client(c) \/ Reader(c) \/ Main(c)
  \/ \E g \in Grants : Callback(g)
  \/ Crash
  \/ Finished

Spec == Init /\ [][Next]_vars

(* Weak fairness of each goroutine: the runtime schedules whatever can run,  *)
(* and the 300 s timer of the select does fire.  The client, the callbacks'  *)
(* arrival, failing databases and crashes owe nothing.                       *)
Fairness ==
  /\ \A c \in Conns : WF_vars(Main(c)) /\ WF_vars(Reader(c))
  /\ \A g \in Grants : WF_vars(grant[g].pc # "idle" /\ Callback(g))

FairSpec == Spec /\ Fairness

-----------------------------------------------------------------------------
(* Every variable has the type of its counterpart in the code.               *)
TypeOK ==
  /\ main \in [Conns -> MainStates]
  /\ reader \in [Conns -> ReaderStates]
  /\ link \in [Conns -> LinkStates]
  /\ inbox \in [Conns -> Seq(Messages)]
  /\ cmsg \in [Conns -> Buffers]
  /\ reqChan \in [Conns -> {"empty", "msg", "nil"}]
  /\ enable \in [Conns -> BOOLEAN]
  /\ user \in [Conns -> UserStates]
  /\ reply \in [Conns -> Replies]
  /\ ichan \in [Conns -> Seq(Nat)]
  /\ online \in [Users -> Conns \cup {NoConn}]
  /\ db \in [Users -> UserDb \cup {NoDoc}]
  /\ grant \in [Grants -> GrantStates]
  /\ crashes \in 0..MaxCrashes
  /\ asked \in [Conns -> Seq(Messages)]
  /\ served \in [Conns -> Seq(Messages)]
  /\ answers \in [Conns -> Seq(Replies)]
  /\ base \in [Conns -> UserDb \cup {NoDoc}]

(* Neither goroutine is caught off guard by the other: the reader finishes   *)
(* only a request it began, a request is handled only after a whole header   *)
(* was decoded, and a handler finds the six locks it indexes without a check *)
(* (client.go:188-194, 221; user.go:176-181, 277).                           *)
Awaited(c) == reader[c] = "push" \/ reqChan[c] = "msg"
              \/ main[c] \in {"dispatch", "handle"}

HandlersReady ==
  \A c \in Conns :
     /\ reader[c] = "decode" => inbox[c] # <<>>
     /\ Awaited(c) => cmsg[c].cmd \in Commands
     /\ main[c] = "insert" => user[c].ready
     /\ user[c].ready => user[c].uid \in Users
     /\ user[c].ready /\ main[c] \notin {"insert", "done"} =>
          user[c].udb.lock \in [Stages -> Nat]

(* The registry names only sessions that have logged in as that user and     *)
(* have not left Proc's last Delete behind: AddHeartAsync never finds a      *)
(* session that is already over (client.go:56-87, 177).                      *)
OnlineEntryLive ==
  \A u \in Users : online[u] # NoConn =>
     /\ main[online[u]] \in {"top", "select", "dispatch", "handle", "store",
                              "send", "exit"}
     /\ user[online[u]].ready
     /\ user[online[u]].uid = u

(* A session that rests between two requests, and has not been told to stop, *)
(* has nothing but credited hearts and login's own gifts that the database   *)
(* has not been given: every stage passed and every lock opened is in the    *)
(* document it last wrote (user.go:71-84, client.go:229-234).                *)
AtRest(c) == user[c].ready /\ enable[c] /\ main[c] \in {"top", "select"}

ProgressSaved ==
  \A c \in Conns : AtRest(c) =>
     /\ base[c] # NoDoc
     /\ user[c].udb.stage = base[c].stage
     /\ user[c].udb.lock = FillLock(base[c]).lock

(* When a reply is sent that neither kicks nor reports a failed write, the   *)
(* player's stage and locks are in the database, and so are the hearts,      *)
(* whatever failed before (client.go:229-243).  Hearts are told but not      *)
(* stored in one case: no request of the session has changed anything yet,   *)
(* and they are login's refill (user.go:118-121), or a Tapjoy callback has   *)
(* sent the session some (client.go:181).                                    *)
Credited(c) == \E g \in Grants : grant[g].target = c /\ grant[g].pc = "done"

AnsweredIsStored ==
  \A c \in Conns : main[c] = "send" /\ ~reply[c].kick =>
     /\ base[c] # NoDoc
     /\ user[c].udb.stage = base[c].stage
     /\ user[c].udb.lock = FillLock(base[c]).lock
     /\ \/ user[c].udb = base[c]
        \/ /\ ~user[c].dirty
           /\ \/ user[c].udb.heart = LoginRefill(base[c]).heart
              \/ Credited(c)

(* A player's document loses a stage only in a write from a copy that        *)
(* somebody else's write had made stale: alone, neither a session nor a      *)
(* callback ever takes progress back (user.go:57-84, 318-342).               *)
StaleCopy(u) ==
  \/ \E c \in Conns : /\ main[c] = "store" /\ main'[c] = "send"
                       /\ user[c].uid = u /\ base[c] # db[u]
  \/ \E g \in Grants : /\ grant[g].pc = "store" /\ grant'[g].pc = "done"
                        /\ GrantUser[g] = u /\ grant[g].base # db[u]
Regresses(old, new) == old # NoDoc /\ (new = NoDoc \/ new.stage < old.stage)

ProgressLostOnlyToStaleCopy ==
  [][\A u \in Users : Regresses(db[u], db'[u]) => StaleCopy(u)]_vars

(* Spending never mints hearts where the handler checks the balance first:   *)
(* StartPlay (user.go:202-228).                                              *)
StartPlayNeverMints ==
  [][\A c \in Conns :
       main[c] = "handle" /\ user[c].ready /\ cmsg[c].cmd = kCmdStartPlay
       /\ main'[c] = "store" => user'[c].udb.heart <= user[c].udb.heart]_vars

(* A client that waits for each reply gets the answer to the request it      *)
(* asked: what was handled is what was sent, in order, each once             *)
(* (client.go:151-197: one buffer for all requests of a connection).         *)
Wanted(m, b) == \A k \in BodyKeys : m.body[k] # Absent => b[k] = m.body[k]

ServedAsAsked ==
  \A c \in Conns :
     /\ Len(served[c]) <= Len(asked[c])
     /\ \A i \in DOMAIN served[c] :
          /\ served[c][i].cmd = asked[c][i].cmd
          /\ served[c][i].seq = asked[c][i].seq
          /\ Wanted(asked[c][i], served[c][i].body)

(* "whether of not user info is changed. true means should sync to db"       *)
(* (user.go:29-30): at rest, a user that differs from the stored document is *)
(* dirty.                                                                    *)
DirtyWhenChanged ==
  \A c \in Conns : AtRest(c) /\ user[c].udb # base[c] => user[c].dirty

(* A connection whose client is gone, politely or not, is left: the session  *)
(* deletes its registry entry and ends (client.go:160-177, 246-249).         *)
AbandonedSessionEnds ==
  \A c \in Conns : link[c] \in {"closed", "silent"} ~> main[c] = "done"

(* A callback that has started is over in the end, unless it waits for room  *)
(* in the channel of a session that has ended (user.go:314-342).             *)
CallbackEnds ==
  \A g \in Grants : grant[g].pc # "idle" ~>
     \/ grant[g].pc = "done"
     \/ grant[g].pc = "send" /\ main[grant[g].target] = "done"

(* The reader of an ended session ends too, unless it was left with a        *)
(* request in the channel that nobody will take (client.go:186-197).         *)
ReaderEnds ==
  \A c \in Conns : main[c] = "done" ~>
     reader[c] = "gone" \/ (reader[c] \in {"push", "fail"} /\ reqChan[c] = "msg")
=============================================================================
