-------------------------- MODULE GameServerProofs --------------------------
(* What holds of GameServer for all connections, users, requests, callbacks  *)
(* and bounds.                                                               *)
EXTENDS GameServer, UserRecordProofs

IInv == TypeOK /\ HandlersReady /\ OnlineEntryLive

-----------------------------------------------------------------------------
(* Types.                                                                    *)
LEMMA ZeroDocType == ZeroDoc \in UserDb
BY UintModAssumption DEF ZeroDoc, UserDb, Hearts, Locks

LEMMA InitType == Init => TypeOK
<1> SUFFICES ASSUME Init PROVE TypeOK OBVIOUS
<1>1. NoBody \in Bodies BY DEF NoBody, Bodies, BodyKeys, Absent
<1>2. [cmd |-> 0, seq |-> 0, body |-> NoBody] \in Buffers
  BY <1>1 DEF Buffers
<1>3. NewUser \in UserStates BY ZeroDocType DEF NewUser, UserStates
<1>4. NoReply \in Replies BY ErrorTypes DEF NoReply, Replies
<1>5. NoGrant \in GrantStates BY ZeroDocType DEF NoGrant, GrantStates
<1>6. db \in [Users -> UserDb \cup {NoDoc}] BY DataAssumption DEF Init
<1>7. \A S : <<>> \in Seq(S) OBVIOUS
<1> QED
  BY <1>2, <1>3, <1>4, <1>5, <1>6, <1>7, BoundAssumption
  DEF Init, TypeOK, MainStates, ReaderStates, LinkStates

LEMMA AppendNonEmpty ==
  ASSUME NEW S, NEW s \in Seq(S), NEW e \in S PROVE Append(s, e) # <<>>
<1>1. Len(Append(s, e)) = Len(s) + 1 OBVIOUS
<1>2. Len(s) \in Nat /\ Len(<<>>) = 0 OBVIOUS
<1> QED BY <1>1, <1>2

LEMMA WithError ==
  ASSUME NEW r \in Replies, NEW e \in ErrorCodes, NEW k \in BOOLEAN
  PROVE  /\ [r EXCEPT !.err = e] \in Replies
         /\ [r EXCEPT !.err = e, !.kick = k] \in Replies
BY DEF Replies

LEMMA ClientSendShape ==
  ASSUME IInv, NEW c \in Conns, ClientSend(c)
  PROVE  \E m \in Messages : /\ inbox' = [inbox EXCEPT ![c] = Append(@, m)]
                             /\ asked' = [asked EXCEPT ![c] = Append(@, m)]
<1>1. PICK r \in Requests :
        LET m == [cmd |-> r.cmd, seq |-> Len(asked[c]) + 1, body |-> r.body]
        IN /\ inbox' = [inbox EXCEPT ![c] = Append(@, m)]
           /\ asked' = [asked EXCEPT ![c] = Append(@, m)]
  BY DEF ClientSend
<1> DEFINE m == [cmd |-> r.cmd, seq |-> Len(asked[c]) + 1, body |-> r.body]
<1>2. Len(asked[c]) \in Nat BY DEF IInv, TypeOK
<1>3. m \in Messages BY <1>2, DataAssumption DEF Messages
<1> QED BY <1>1, <1>3

LEMMA ClientType ==
  ASSUME IInv, NEW c \in Conns, Client(c) PROVE TypeOK'
<1>1. ASSUME Connect(c) PROVE TypeOK'
  BY <1>1 DEF IInv, TypeOK, Connect, transport, history, MainStates,
              ReaderStates, LinkStates
<1>2. ASSUME ClientSend(c) PROVE TypeOK'
  <2>1. PICK m \in Messages : /\ inbox' = [inbox EXCEPT ![c] = Append(@, m)]
                              /\ asked' = [asked EXCEPT ![c] = Append(@, m)]
    BY <1>2, ClientSendShape
  <2>3. inbox' \in [Conns -> Seq(Messages)] /\ asked' \in [Conns -> Seq(Messages)]
    BY <2>1 DEF IInv, TypeOK
  <2> QED BY <1>2, <2>3 DEF IInv, TypeOK, ClientSend
<1>3. ASSUME ClientLeave(c) PROVE TypeOK'
  BY <1>3 DEF IInv, TypeOK, ClientLeave, history, LinkStates
<1> QED BY <1>1, <1>2, <1>3 DEF Client

LEMMA ReaderType ==
  ASSUME IInv, NEW c \in Conns, Reader(c) PROVE TypeOK'
<1> USE DEF IInv, TypeOK, transport, history, ReaderStates
<1>1. ASSUME ReadBody(c) PROVE TypeOK'
  <2>1. Head(inbox[c]) \in Messages BY <1>1 DEF ReadBody
  <2>2. MergeBody(cmsg[c].body, Head(inbox[c]).body) \in Bodies
    BY <2>1, MergeType DEF Messages, Buffers
  <2>3. cmsg' \in [Conns -> Buffers] BY <1>1, <2>2 DEF ReadBody, Buffers
  <2>4. reader' \in [Conns -> ReaderStates] BY <1>1 DEF ReadBody
  <2> QED BY <1>1, <2>3, <2>4 DEF ReadBody
<1>2. ASSUME ReadHeader(c) PROVE TypeOK'
  <2>1. inbox[c] # <<>> BY <1>2 DEF ReadHeader, HandlersReady
  <2>2. Head(inbox[c]) \in Messages /\ Tail(inbox[c]) \in Seq(Messages) BY <2>1
  <2>3. cmsg' \in [Conns -> Buffers]
    BY <1>2, <2>2 DEF ReadHeader, Buffers, Messages
  <2>4. inbox' \in [Conns -> Seq(Messages)] BY <1>2, <2>2 DEF ReadHeader
  <2>5. reader' \in [Conns -> ReaderStates] BY <1>2 DEF ReadHeader
  <2> QED BY <1>2, <2>3, <2>4, <2>5 DEF ReadHeader
<1>3. ASSUME PushRequest(c) PROVE TypeOK' BY <1>3 DEF PushRequest
<1>4. ASSUME ReadError(c) PROVE TypeOK' BY <1>4 DEF ReadError
<1>5. ASSUME PushNil(c) PROVE TypeOK' BY <1>5 DEF PushNil
<1> QED BY <1>1, <1>2, <1>3, <1>4, <1>5 DEF Reader

LEMMA RecordType ==
  ASSUME IInv, NEW c \in Conns, main[c] = "handle", Record(c)
  PROVE  served' \in [Conns -> Seq(Messages)]
<1> DEFINE m == [cmd |-> cmsg[c].cmd, body |-> cmsg[c].body, seq |-> reply[c].seq]
<1>1. m \in Messages
  BY DEF IInv, TypeOK, HandlersReady, Awaited, Buffers, Replies, Messages
<1> HIDE DEF m
<1>2. served' = [served EXCEPT ![c] = Append(@, m)] BY DEF Record, m
<1> QED BY <1>1, <1>2 DEF IInv, TypeOK

LEMMA LoopType ==
  ASSUME IInv, NEW c \in Conns,
         \/ TopOfLoop(c) \/ TakeRequest(c) \/ TakeCredit(c) \/ procTimeout(c)
         \/ Dispatch(c) \/ SendReply(c) \/ Unregister(c) \/ Close(c)
  PROVE  TypeOK'
<1> USE DEF IInv, TypeOK, transport, history, Goto, MainStates
<1>1. ASSUME TopOfLoop(c) PROVE TypeOK'
  <2>1. reply' \in [Conns -> Replies]
    <3>0. reply[c] \in Replies OBVIOUS
    <3>1. [reply[c] EXCEPT !.err = kErrNone] \in Replies
      BY <3>0, ErrorTypes, WithError
    <3> QED BY <1>1, <3>1 DEF TopOfLoop
  <2>2. main' \in [Conns -> MainStates] BY <1>1 DEF TopOfLoop
  <2> QED BY <1>1, <2>1, <2>2 DEF TopOfLoop
<1>2. ASSUME TakeRequest(c) PROVE TypeOK' BY <1>2 DEF TakeRequest
<1>3. ASSUME TakeCredit(c) PROVE TypeOK'
  <2>1. Head(ichan[c]) \in Nat /\ Tail(ichan[c]) \in Seq(Nat)
    BY <1>3 DEF TakeCredit
  <2>2. AddHeart(user[c].udb, Head(ichan[c])) \in UserDb
    <3>1. user[c].udb \in UserDb BY DEF UserStates
    <3>2. Head(ichan[c]) \in Int BY <2>1
    <3> QED BY <3>1, <3>2, AddHeartType
  <2>3. user' \in [Conns -> UserStates] BY <1>3, <2>2 DEF TakeCredit, UserStates
  <2>4. ichan' \in [Conns -> Seq(Nat)] BY <1>3, <2>1 DEF TakeCredit
  <2>5. main' \in [Conns -> MainStates] BY <1>3 DEF TakeCredit
  <2> QED BY <1>3, <2>3, <2>4, <2>5 DEF TakeCredit
<1>4. ASSUME procTimeout(c) PROVE TypeOK' BY <1>4 DEF procTimeout
<1>5. ASSUME Dispatch(c) PROVE TypeOK'
  <2>1. reply' \in [Conns -> Replies] BY <1>5 DEF Dispatch, Replies, Buffers
  <2>2. main' \in [Conns -> MainStates] BY <1>5 DEF Dispatch
  <2> QED BY <1>5, <2>1, <2>2 DEF Dispatch
<1>6. ASSUME SendReply(c) PROVE TypeOK' BY <1>6 DEF SendReply
<1>7. ASSUME Unregister(c) PROVE TypeOK' BY <1>7 DEF Unregister
<1>8. ASSUME Close(c) PROVE TypeOK' BY <1>8 DEF Close, LinkStates
<1> QED BY <1>1, <1>2, <1>3, <1>4, <1>5, <1>6, <1>7, <1>8

LEMMA HandlerType ==
  ASSUME IInv, NEW c \in Conns,
         KickStranger(c) \/ Handle(c) \/ LoginLoad(c) \/ LoginLoadFails(c)
  PROVE  TypeOK'
<1> USE DEF IInv, TypeOK, transport, history, Goto, MainStates
<1>1. ASSUME KickStranger(c) PROVE TypeOK'
  <2>1. reply' \in [Conns -> Replies] BY <1>1 DEF KickStranger, Replies
  <2>2. served' \in [Conns -> Seq(Messages)] BY <1>1, RecordType DEF KickStranger
  <2>3. main' \in [Conns -> MainStates] BY <1>1 DEF KickStranger
  <2> QED BY <1>1, <2>1, <2>2, <2>3 DEF KickStranger
<1>2. ASSUME Handle(c) PROVE TypeOK'
  <2> DEFINE out == Serve(cmsg[c].cmd, user[c].udb, cmsg[c].body)
  <2>1. cmsg[c].cmd \in Commands /\ cmsg[c].body \in Bodies /\ user[c].udb \in Ready
    BY <1>2 DEF Handle, HandlersReady, Awaited, Buffers, UserStates, Ready
  <2>2. out \in Outcome BY <2>1, ServeType
  <2>3. /\ user' = [user EXCEPT ![c].udb = out.udb, ![c].dirty = @ \/ out.dirty]
        /\ reply' = [reply EXCEPT ![c].err = out.err]
    BY <1>2 DEF Handle
  <2> HIDE DEF out
  <2>4. user' \in [Conns -> UserStates]
    <3>1. out.udb \in UserDb /\ out.dirty \in BOOLEAN BY <2>2 DEF Outcome
    <3>2. user[c] \in UserStates OBVIOUS
    <3>3. (user[c].dirty \/ out.dirty) \in BOOLEAN OBVIOUS
    <3> DEFINE dirt == user[c].dirty \/ out.dirty
    <3>4. user' = [user EXCEPT ![c] = [user[c] EXCEPT !.udb = out.udb, !.dirty = dirt]]
      BY <2>3
    <3>5. dirt \in BOOLEAN BY <3>3
    <3> HIDE DEF dirt
    <3>6. [user[c] EXCEPT !.udb = out.udb, !.dirty = dirt] \in UserStates
      BY <3>1, <3>2, <3>5 DEF UserStates
    <3> QED BY <3>4, <3>6
  <2>5. reply' \in [Conns -> Replies]
    <3>1. out.err \in ErrorCodes BY <2>2 DEF Outcome
    <3> QED BY <2>3, <3>1 DEF Replies
  <2>6. served' \in [Conns -> Seq(Messages)] BY <1>2, RecordType DEF Handle
  <2>7. main' \in [Conns -> MainStates] BY <1>2 DEF Handle
  <2> QED BY <1>2, <2>4, <2>5, <2>6, <2>7 DEF Handle
<1>3. ASSUME LoginLoad(c) PROVE TypeOK'
  <2>1. PICK u \in LoginId(c) :
          /\ user' = [user EXCEPT ![c] =
                [uid |-> u, ready |-> TRUE, dirty |-> @.dirty \/ db[u] = NoDoc,
                 udb |-> LoginRefill(IF db[u] = NoDoc THEN userRegister ELSE db[u])]]
          /\ base' = [base EXCEPT ![c] = db[u]]
    BY <1>3 DEF LoginLoad
  <2>2. u \in Users BY DataAssumption DEF LoginId
  <2> DEFINE doc == LoginRefill(IF db[u] = NoDoc THEN userRegister ELSE db[u])
  <2>3. doc \in UserDb BY <2>2, DocTypes
  <2> HIDE DEF doc
  <2>4. user' \in [Conns -> UserStates] BY <2>1, <2>2, <2>3 DEF doc, UserStates
  <2>5. base' \in [Conns -> UserDb \cup {NoDoc}] BY <2>1, <2>2
  <2>6. served' \in [Conns -> Seq(Messages)] BY <1>3, RecordType DEF LoginLoad
  <2>7. main' \in [Conns -> MainStates] BY <1>3 DEF LoginLoad
  <2> QED BY <1>3, <2>4, <2>5, <2>6, <2>7 DEF LoginLoad
<1>4. ASSUME LoginLoadFails(c) PROVE TypeOK'
  <2>1. reply' \in [Conns -> Replies]
    <3>1. reply[c] \in Replies OBVIOUS
    <3>2. [reply[c] EXCEPT !.err = kErrReadDB, !.kick = TRUE] \in Replies
      BY <3>1, ErrorTypes, WithError
    <3> QED BY <1>4, <3>2 DEF LoginLoadFails
  <2>2. served' \in [Conns -> Seq(Messages)] BY <1>4, RecordType DEF LoginLoadFails
  <2>3. main' \in [Conns -> MainStates] BY <1>4 DEF LoginLoadFails
  <2> QED BY <1>4, <2>1, <2>2, <2>3 DEF LoginLoadFails
<1> QED BY <1>1, <1>2, <1>3, <1>4

LEMMA SaveType ==
  ASSUME IInv, NEW c \in Conns, InsertOnline(c) \/ Store(c) \/ StoreFails(c)
  PROVE  TypeOK'
<1> USE DEF IInv, TypeOK, transport, history, Goto, MainStates
<1>1. ASSUME InsertOnline(c) PROVE TypeOK'
  <2>1. FillLock(user[c].udb) \in UserDb BY DocTypes DEF UserStates
  <2>2. user' \in [Conns -> UserStates] BY <1>1, <2>1 DEF InsertOnline, UserStates
  <2>3. online' \in [Users -> Conns \cup {NoConn}] BY <1>1 DEF InsertOnline
  <2>4. main' \in [Conns -> MainStates] BY <1>1 DEF InsertOnline
  <2> QED BY <1>1, <2>2, <2>3, <2>4 DEF InsertOnline
<1>2. user[c].udb \in UserDb BY DEF UserStates
<1>3. ASSUME Store(c) PROVE TypeOK'
  <2>1. /\ db' \in [Users -> UserDb \cup {NoDoc}]
        /\ base' \in [Conns -> UserDb \cup {NoDoc}]
    BY <1>2, <1>3 DEF Store
  <2>2. enable' \in [Conns -> BOOLEAN] BY <1>3 DEF Store, Replies
  <2>3. main' \in [Conns -> MainStates] BY <1>3 DEF Store
  <2> QED BY <1>3, <2>1, <2>2, <2>3 DEF Store
<1>4. ASSUME StoreFails(c) PROVE TypeOK'
  <2>1. db' \in [Users -> UserDb \cup {NoDoc}] BY <1>2, <1>4 DEF StoreFails
  <2>2. reply' \in [Conns -> Replies]
    <3>1. reply[c] \in Replies OBVIOUS
    <3>2. [reply[c] EXCEPT !.err = kErrWriteDB, !.kick = TRUE] \in Replies
      BY <3>1, ErrorTypes, WithError
    <3> QED BY <1>4, <3>2 DEF StoreFails
  <2>3. main' \in [Conns -> MainStates] BY <1>4 DEF StoreFails
  <2>4. enable' \in [Conns -> BOOLEAN] BY <1>4 DEF StoreFails
  <2> QED BY <1>4, <2>1, <2>2, <2>3, <2>4 DEF StoreFails
<1> QED BY <1>1, <1>3, <1>4

LEMMA CallbackType ==
  ASSUME IInv, NEW g \in Grants, Callback(g) PROVE TypeOK'
<1> USE DEF IInv, TypeOK, transport, history, GrantGoto
<1>1. GrantUser[g] \in Users /\ GrantAmount[g] \in Nat BY DataAssumption
<1>2. ASSUME FindOnline(g) PROVE TypeOK'
  <2> DEFINE t == online[GrantUser[g]]
             to == IF t = NoConn THEN "load" ELSE "send"
  <2>0. t \in Conns \cup {NoConn} /\ to \in {"load", "send"} BY <1>1
  <2>a. grant' = [grant EXCEPT ![g].pc = to, ![g].target = t]
    BY <1>2 DEF FindOnline
  <2> HIDE DEF t, to
  <2>1. grant' \in [Grants -> GrantStates]
    <3>1. [grant[g] EXCEPT !.pc = to, !.target = t] \in GrantStates
      BY <2>0 DEF GrantStates
    <3> QED BY <2>a, <3>1
  <2> QED BY <1>2, <2>1 DEF FindOnline
<1>3. ASSUME SendCredit(g) PROVE TypeOK'
  <2>1. grant' \in [Grants -> GrantStates] BY <1>3 DEF SendCredit, GrantStates
  <2>2. ichan' \in [Conns -> Seq(Nat)]
    <3>1. \A q \in Seq(Nat) : Append(q, GrantAmount[g]) \in Seq(Nat) BY <1>1
    <3> QED BY <1>3, <3>1 DEF SendCredit
  <2> QED BY <1>3, <2>1, <2>2 DEF SendCredit
<1>4. ASSUME GrantLoad(g) PROVE TypeOK'
  <2> DEFINE doc == IF db[GrantUser[g]] = NoDoc THEN userRegister ELSE db[GrantUser[g]]
  <2>1. AddHeart(doc, GrantAmount[g]) \in UserDb
    <3>1. doc \in UserDb BY <1>1, DocTypes
    <3>2. GrantAmount[g] \in Int BY <1>1
    <3> HIDE DEF doc
    <3> QED BY <3>1, <3>2, AddHeartType
  <2>2. grant' = [grant EXCEPT ![g].pc = "store",
                               ![g].copy = AddHeart(doc, GrantAmount[g]),
                               ![g].base = db[GrantUser[g]]]
    BY <1>4 DEF GrantLoad
  <2> HIDE DEF doc
  <2>3. grant' \in [Grants -> GrantStates]
    <3>1. [grant[g] EXCEPT !.pc = "store", !.copy = AddHeart(doc, GrantAmount[g]),
                           !.base = db[GrantUser[g]]] \in GrantStates
      BY <1>1, <2>1 DEF GrantStates
    <3> QED BY <2>2, <3>1
  <2> QED BY <1>4, <2>3 DEF GrantLoad
<1>5. ASSUME GrantStore(g) PROVE TypeOK'
  <2>1. grant' \in [Grants -> GrantStates] BY <1>5 DEF GrantStore, GrantStates
  <2>2. db' \in [Users -> UserDb \cup {NoDoc}] BY <1>5 DEF GrantStore, GrantStates
  <2> QED BY <1>5, <2>1, <2>2 DEF GrantStore
<1>6. ASSUME GrantDbFails(g) PROVE TypeOK'
  <2>1. grant' \in [Grants -> GrantStates] BY <1>6 DEF GrantDbFails, GrantStates
  <2> QED BY <1>6, <2>1 DEF GrantDbFails
<1> QED BY <1>2, <1>3, <1>4, <1>5, <1>6 DEF Callback

LEMMA CrashType == ASSUME IInv, Crash PROVE TypeOK'
<1> USE DEF IInv, TypeOK, history
<1>1. grant' \in [Grants -> GrantStates]
  <2>1. \A r \in GrantStates : [r EXCEPT !.pc = "done"] \in GrantStates
    BY DEF GrantStates
  <2>2. grant' = [g \in Grants |-> IF grant[g].pc = "idle" THEN grant[g]
                                   ELSE [grant[g] EXCEPT !.pc = "done"]]
    BY DEF Crash
  <2>3. \A g \in Grants : grant'[g] \in GrantStates BY <2>1, <2>2
  <2> QED BY <2>2, <2>3
<1>2. crashes' \in 0..MaxCrashes BY BoundAssumption DEF Crash
<1>3. main' \in [Conns -> MainStates] BY DEF Crash, MainStates
<1>4. reader' \in [Conns -> ReaderStates] BY DEF Crash, ReaderStates
<1>5. link' \in [Conns -> LinkStates] BY DEF Crash, LinkStates
<1>6. ichan' \in [Conns -> Seq(Nat)] BY DEF Crash
<1> QED BY <1>1, <1>2, <1>3, <1>4, <1>5, <1>6 DEF Crash

LEMMA NextType == ASSUME IInv, [Next]_vars PROVE TypeOK'
<1>1. ASSUME UNCHANGED vars PROVE TypeOK'
  BY <1>1 DEF IInv, TypeOK, vars, transport, history
<1>2. ASSUME NEW c \in Conns, Main(c) PROVE TypeOK'
  BY <1>2, LoopType, HandlerType, SaveType DEF Main
<1> QED
  BY <1>1, <1>2, ClientType, ReaderType, CallbackType, CrashType DEF Next, Finished

-----------------------------------------------------------------------------
(* The handshake between the two goroutines of a connection.                 *)
LEMMA InitHandlers == Init => HandlersReady
BY DEF Init, HandlersReady, Awaited, NewUser

LEMMA ReaderHandlers ==
  ASSUME IInv, NEW c \in Conns, Client(c) \/ Reader(c) PROVE HandlersReady'
<1> USE DEF IInv, TypeOK, transport, history, HandlersReady, Awaited
<1>1. ASSUME Connect(c) PROVE HandlersReady' BY <1>1 DEF Connect
<1>2. ASSUME ClientSend(c) PROVE HandlersReady'
  <2>1. PICK m \in Messages : inbox' = [inbox EXCEPT ![c] = Append(@, m)]
    BY <1>2, ClientSendShape
  <2>2. Append(inbox[c], m) # <<>>
    <3>1. inbox[c] \in Seq(Messages) OBVIOUS
    <3> QED BY <3>1, AppendNonEmpty
  <2>3. \A d \in Conns : inbox[d] # <<>> => inbox'[d] # <<>> BY <2>1, <2>2
  <2> QED BY <1>2, <2>3 DEF ClientSend
<1>3. ASSUME ClientLeave(c) PROVE HandlersReady' BY <1>3 DEF ClientLeave
<1>4. ASSUME ReadBody(c) PROVE HandlersReady'
  <2>1. \A d \in Conns : cmsg'[d].cmd = cmsg[d].cmd BY <1>4 DEF ReadBody, Buffers
  <2> QED BY <1>4, <2>1 DEF ReadBody
<1>5. ASSUME ReadHeader(c) PROVE HandlersReady'
  <2>0. inbox[c] # <<>> BY <1>5 DEF ReadHeader
  <2>a. Head(inbox[c]) \in Messages BY <2>0
  <2>1. Head(inbox[c]).cmd \in Commands BY <2>a DEF Messages
  <2>2. cmsg'[c].cmd \in Commands BY <1>5, <2>1 DEF ReadHeader, Buffers
  <2> QED BY <1>5, <2>2 DEF ReadHeader
<1>6. ASSUME PushRequest(c) PROVE HandlersReady' BY <1>6 DEF PushRequest
<1>7. ASSUME ReadError(c) PROVE HandlersReady' BY <1>7 DEF ReadError
<1>8. ASSUME PushNil(c) PROVE HandlersReady' BY <1>8 DEF PushNil
<1> QED BY <1>1, <1>2, <1>3, <1>4, <1>5, <1>6, <1>7, <1>8 DEF Client, Reader

LEMMA MainHandlers ==
  ASSUME IInv, NEW c \in Conns, Main(c) PROVE HandlersReady'
<1> USE DEF IInv, TypeOK, transport, history, HandlersReady, Awaited, Goto
<1>1. ASSUME TopOfLoop(c) PROVE HandlersReady' BY <1>1 DEF TopOfLoop
<1>2. ASSUME TakeRequest(c) PROVE HandlersReady' BY <1>2 DEF TakeRequest
<1>3. ASSUME TakeCredit(c) PROVE HandlersReady'
  <2>1. user[c].udb \in UserDb /\ Head(ichan[c]) \in Int
    BY <1>3 DEF UserStates, TakeCredit
  <2>2. AddHeart(user[c].udb, Head(ichan[c])).lock = user[c].udb.lock
    BY <2>1, AddHeartType
  <2>3. /\ user'[c].udb.lock = user[c].udb.lock
        /\ user'[c].uid = user[c].uid /\ user'[c].ready = user[c].ready
    BY <1>3, <2>2 DEF TakeCredit, UserStates
  <2> QED BY <1>3, <2>3 DEF TakeCredit
<1>4. ASSUME procTimeout(c) PROVE HandlersReady' BY <1>4 DEF procTimeout
<1>5. ASSUME Dispatch(c) PROVE HandlersReady' BY <1>5 DEF Dispatch
<1>6. ASSUME KickStranger(c) PROVE HandlersReady' BY <1>6 DEF KickStranger
<1>7. ASSUME Handle(c) PROVE HandlersReady'
  <2> DEFINE out == Serve(cmsg[c].cmd, user[c].udb, cmsg[c].body)
  <2>1. cmsg[c].cmd \in Commands /\ cmsg[c].body \in Bodies /\ user[c].udb \in Ready
    BY <1>7 DEF Handle, Buffers, UserStates, Ready
  <2>2. out.udb.lock \in [Stages -> Nat] BY <2>1, ServeType DEF Ready
  <2>3. user' = [user EXCEPT ![c].udb = out.udb, ![c].dirty = @ \/ out.dirty]
    BY <1>7 DEF Handle
  <2> HIDE DEF out
  <2>4. /\ user'[c].udb.lock \in [Stages -> Nat]
        /\ user'[c].uid = user[c].uid /\ user'[c].ready = user[c].ready
        /\ \A d \in Conns : d # c => user'[d] = user[d]
    BY <2>2, <2>3 DEF UserStates
  <2>5. /\ main' = [main EXCEPT ![c] = "store"]
        /\ UNCHANGED <<reader, inbox, cmsg, reqChan>>
    BY <1>7 DEF Handle
  <2> QED BY <2>4, <2>5
<1>8. ASSUME LoginLoad(c) PROVE HandlersReady'
  <2>1. PICK u \in LoginId(c), v \in [dirty : BOOLEAN, udb : UserDb] :
          user' = [user EXCEPT ![c] = [uid |-> u, ready |-> TRUE,
                                       dirty |-> v.dirty, udb |-> v.udb]]
    <3>1. PICK u \in LoginId(c) :
            user' = [user EXCEPT ![c] =
              [uid |-> u, ready |-> TRUE, dirty |-> @.dirty \/ db[u] = NoDoc,
               udb |-> LoginRefill(IF db[u] = NoDoc THEN userRegister ELSE db[u])]]
      BY <1>8 DEF LoginLoad
    <3>2. u \in Users BY DataAssumption DEF LoginId
    <3> DEFINE doc == LoginRefill(IF db[u] = NoDoc THEN userRegister ELSE db[u])
               dirt == user[c].dirty \/ db[u] = NoDoc
    <3>3. doc \in UserDb BY <3>2, DocTypes
    <3>4. dirt \in BOOLEAN OBVIOUS
    <3>5. user' = [user EXCEPT ![c] = [uid |-> u, ready |-> TRUE,
                                       dirty |-> dirt, udb |-> doc]]
      BY <3>1
    <3> HIDE DEF doc, dirt
    <3>6. [dirty |-> dirt, udb |-> doc] \in [dirty : BOOLEAN, udb : UserDb]
      BY <3>3, <3>4
    <3> QED BY <3>5, <3>6
  <2>2. u \in Users BY DataAssumption DEF LoginId
  <2>3. user'[c].uid \in Users /\ user'[c].ready
        /\ \A d \in Conns : d # c => user'[d] = user[d]
    BY <2>1, <2>2
  <2>4. /\ main' = [main EXCEPT ![c] = "insert"]
        /\ UNCHANGED <<reader, inbox, cmsg, reqChan>>
    BY <1>8 DEF LoginLoad
  <2> QED BY <2>3, <2>4
<1>9. ASSUME LoginLoadFails(c) PROVE HandlersReady' BY <1>9 DEF LoginLoadFails
<1>10. ASSUME InsertOnline(c) PROVE HandlersReady'
  <2>1. FillLock(user[c].udb).lock \in [Stages -> Nat] BY DocTypes DEF UserStates
  <2>2. /\ user'[c].udb.lock \in [Stages -> Nat]
        /\ user'[c].uid = user[c].uid /\ user'[c].ready = user[c].ready
        /\ \A d \in Conns : d # c => user'[d] = user[d]
    BY <1>10, <2>1 DEF InsertOnline, UserStates
  <2> QED BY <1>10, <2>2 DEF InsertOnline
<1>11. ASSUME Store(c) PROVE HandlersReady' BY <1>11 DEF Store
<1>12. ASSUME StoreFails(c) PROVE HandlersReady' BY <1>12 DEF StoreFails
<1>13. ASSUME SendReply(c) PROVE HandlersReady' BY <1>13 DEF SendReply
<1>14. ASSUME Unregister(c) PROVE HandlersReady' BY <1>14 DEF Unregister
<1>15. ASSUME Close(c) PROVE HandlersReady' BY <1>15 DEF Close
<1> QED
  BY <1>1, <1>2, <1>3, <1>4, <1>5, <1>6, <1>7, <1>8, <1>9, <1>10, <1>11, <1>12,
     <1>13, <1>14, <1>15 DEF Main

LEMMA NextHandlers == ASSUME IInv, [Next]_vars PROVE HandlersReady'
<1> USE DEF IInv, transport, history, HandlersReady, Awaited
<1>1. ASSUME UNCHANGED vars PROVE HandlersReady' BY <1>1 DEF vars
<1>2. ASSUME NEW g \in Grants, Callback(g) PROVE HandlersReady'
  BY <1>2 DEF Callback, FindOnline, SendCredit, GrantLoad, GrantStore, GrantDbFails
<1>3. ASSUME Crash PROVE HandlersReady' BY <1>3 DEF Crash
<1> QED BY <1>1, <1>2, <1>3, ReaderHandlers, MainHandlers DEF Next, Finished

-----------------------------------------------------------------------------
(* The registry.                                                             *)
LEMMA InitOnline == Init => OnlineEntryLive
BY DEF Init, OnlineEntryLive

Registered == {"top", "select", "dispatch", "handle", "store", "send", "exit"}

(* A step that leaves the registry alone, keeps logged-in users who they are *)
(* and moves no registered session out of Proc, keeps its entries live.      *)
LEMMA QuietStep ==
  ASSUME IInv, TypeOK', UNCHANGED online,
         \A d \in Conns : main[d] \in Registered /\ user[d].ready =>
            /\ main'[d] \in Registered /\ user'[d].ready
            /\ user'[d].uid = user[d].uid
  PROVE  OnlineEntryLive'
<1> SUFFICES ASSUME NEW u \in Users, online'[u] # NoConn
             PROVE  /\ main'[online'[u]] \in Registered
                    /\ user'[online'[u]].ready
                    /\ user'[online'[u]].uid = u
  BY DEF OnlineEntryLive, Registered
<1>1. online'[u] = online[u] /\ online[u] \in Conns BY DEF IInv, TypeOK
<1>2. /\ main[online[u]] \in Registered
      /\ user[online[u]].ready /\ user[online[u]].uid = u
  BY <1>1 DEF IInv, OnlineEntryLive, Registered
<1> QED BY <1>1, <1>2

LEMMA MainOnline ==
  ASSUME IInv, NEW c \in Conns, Main(c), TypeOK' PROVE OnlineEntryLive'
<1> USE DEF IInv, TypeOK, transport, history, Goto
<1> DEFINE Calm == \A d \in Conns : main[d] \in Registered /\ user[d].ready =>
                      /\ main'[d] \in Registered /\ user'[d].ready
                      /\ user'[d].uid = user[d].uid
<1>1. ASSUME \/ TopOfLoop(c) \/ TakeRequest(c) \/ procTimeout(c) \/ Dispatch(c)
             \/ KickStranger(c) \/ LoginLoadFails(c) \/ Store(c) \/ StoreFails(c)
             \/ SendReply(c) \/ Close(c)
      PROVE  OnlineEntryLive'
  <2>1. UNCHANGED <<online, user>>
    BY <1>1 DEF TopOfLoop, TakeRequest, procTimeout, Dispatch, KickStranger,
                LoginLoadFails, Store, StoreFails, SendReply, Close
  <2>2. \A d \in Conns : main[d] \in Registered => main'[d] \in Registered
    BY <1>1 DEF TopOfLoop, TakeRequest, procTimeout, Dispatch, KickStranger,
                LoginLoadFails, Store, StoreFails, SendReply, Close, Registered
  <2> QED BY <2>1, <2>2, QuietStep
<1>2. ASSUME TakeCredit(c) PROVE OnlineEntryLive'
  <2>1. UNCHANGED online BY <1>2 DEF TakeCredit
  <2>2. \A d \in Conns : user'[d].uid = user[d].uid /\ user'[d].ready = user[d].ready
    BY <1>2 DEF TakeCredit, UserStates
  <2>3. \A d \in Conns : main[d] \in Registered => main'[d] \in Registered
    BY <1>2 DEF TakeCredit, Registered
  <2> QED BY <2>1, <2>2, <2>3, QuietStep
<1>3. ASSUME Handle(c) PROVE OnlineEntryLive'
  <2>1. UNCHANGED online BY <1>3 DEF Handle
  <2>2. \A d \in Conns : user'[d].uid = user[d].uid /\ user'[d].ready = user[d].ready
    BY <1>3 DEF Handle, UserStates
  <2>3. \A d \in Conns : main[d] \in Registered => main'[d] \in Registered
    BY <1>3 DEF Handle, Registered
  <2> QED BY <2>1, <2>2, <2>3, QuietStep
<1>4. ASSUME LoginLoad(c) PROVE OnlineEntryLive'
  <2>1. UNCHANGED online /\ ~user[c].ready BY <1>4 DEF LoginLoad
  <2>2. \A d \in Conns : d # c => user'[d] = user[d] /\ main'[d] = main[d]
    BY <1>4 DEF LoginLoad
  <2> QED BY <2>1, <2>2, QuietStep
<1>5. ASSUME InsertOnline(c) PROVE OnlineEntryLive'
  <2>1. user[c].ready /\ user[c].uid \in Users
    BY <1>5 DEF InsertOnline, HandlersReady
  <2>2. \A d \in Conns : user'[d].uid = user[d].uid /\ user'[d].ready = user[d].ready
    BY <1>5 DEF InsertOnline, UserStates
  <2>3. main' = [main EXCEPT ![c] = "store"] BY <1>5 DEF InsertOnline
  <2>4. \A v \in Users : online'[v] = online[v] \/ (v = user[c].uid /\ online'[v] = c)
    BY <1>5, <2>1 DEF InsertOnline
  <2> SUFFICES ASSUME NEW v \in Users, online'[v] # NoConn
               PROVE  /\ main'[online'[v]] \in Registered
                      /\ user'[online'[v]].ready
                      /\ user'[online'[v]].uid = v
    BY DEF OnlineEntryLive, Registered
  <2>6. CASE online'[v] = c /\ v = user[c].uid
    BY <2>1, <2>2, <2>3, <2>6 DEF Registered
  <2>7. CASE online'[v] = online[v]
    <3>1. /\ online[v] \in Conns /\ main[online[v]] \in Registered
          /\ user[online[v]].ready /\ user[online[v]].uid = v
      BY <2>7 DEF OnlineEntryLive, Registered
    <3> QED BY <2>2, <2>3, <2>7, <3>1 DEF Registered
  <2> QED BY <2>4, <2>6, <2>7
<1>6. ASSUME Unregister(c) PROVE OnlineEntryLive'
  <2>1. UNCHANGED user /\ main' = [main EXCEPT ![c] = "close"] BY <1>6 DEF Unregister
  <2>2. \A v \in Users : online'[v] # NoConn =>
           online'[v] = online[v] /\ v # user[c].uid
    BY <1>6 DEF Unregister
  <2> SUFFICES ASSUME NEW v \in Users, online'[v] # NoConn
               PROVE  /\ main'[online'[v]] \in Registered
                      /\ user'[online'[v]].ready
                      /\ user'[online'[v]].uid = v
    BY DEF OnlineEntryLive, Registered
  <2>3. /\ online[v] \in Conns /\ main[online[v]] \in Registered
        /\ user[online[v]].ready /\ user[online[v]].uid = v
    BY <2>2 DEF OnlineEntryLive, Registered
  <2>4. online[v] # c BY <2>2, <2>3
  <2> QED BY <2>1, <2>2, <2>3, <2>4
<1> QED BY <1>1, <1>2, <1>3, <1>4, <1>5, <1>6 DEF Main

LEMMA NextOnline == ASSUME IInv, [Next]_vars, TypeOK' PROVE OnlineEntryLive'
<1>1. ASSUME UNCHANGED vars PROVE OnlineEntryLive'
  BY <1>1, QuietStep DEF vars
<1>2. ASSUME NEW c \in Conns, Client(c) \/ Reader(c) PROVE OnlineEntryLive'
  <2>1. UNCHANGED <<online, user>>
    BY <1>2 DEF Client, Connect, ClientSend, ClientLeave, Reader, ReadBody,
                ReadHeader, PushRequest, ReadError, PushNil
  <2>2. \A d \in Conns : main[d] \in Registered => main'[d] \in Registered
    BY <1>2 DEF Client, Connect, ClientSend, ClientLeave, Reader, ReadBody,
                ReadHeader, PushRequest, ReadError, PushNil, Registered, IInv, TypeOK
  <2> QED BY <2>1, <2>2, QuietStep
<1>3. ASSUME NEW g \in Grants, Callback(g) PROVE OnlineEntryLive'
  <2>1. UNCHANGED <<online, user, main>>
    BY <1>3 DEF Callback, FindOnline, SendCredit, GrantLoad, GrantStore, GrantDbFails
  <2> QED BY <2>1, QuietStep
<1>4. ASSUME Crash PROVE OnlineEntryLive' BY <1>4 DEF Crash, OnlineEntryLive
<1> QED BY <1>1, <1>2, <1>3, <1>4, MainOnline DEF Next, Finished

-----------------------------------------------------------------------------
LEMMA Inductive == Spec => []IInv
<1>1. Init => IInv BY InitType, InitHandlers, InitOnline DEF IInv
<1>2. IInv /\ [Next]_vars => IInv'
  BY NextType, NextHandlers, NextOnline DEF IInv
<1> QED BY <1>1, <1>2, PTL DEF Spec

(* Every variable keeps its type, whatever is sent and whatever fails: in    *)
(* particular hearts stay a uint32 (user.go:132-142).                        *)
THEOREM TypeCorrect == Spec => []TypeOK
BY Inductive, PTL DEF IInv

(* Whatever the interleaving of the two goroutines of a connection, a        *)
(* handler runs on a decoded request and on six locks.                       *)
THEOREM HandlersReadyAlways == Spec => []HandlersReady
BY Inductive, PTL DEF IInv

(* Whatever the interleaving of logins, endings, callbacks and crashes, the  *)
(* registry names no session that has deleted its entry or that belongs to   *)
(* another user (client.go:56-87, 177).                                      *)
THEOREM RegistryIsLive == Spec => []OnlineEntryLive
BY Inductive, PTL DEF IInv
=============================================================================
