------------------------ MODULE GameServerSaveProofs ------------------------
(* What GameServer saves, and what it charges, for all connections, users,   *)
(* requests, callbacks and bounds.                                           *)
EXTENDS GameServerProofs

(* The document a session last wrote or read has its stage and its locks; on *)
(* the way in from Login the locks may still have to be filled in.           *)
Saved(c) ==
  /\ base[c] # NoDoc
  /\ user[c].udb.stage = base[c].stage
  /\ user[c].udb.lock = FillLock(base[c]).lock
Fillable(c) ==
  /\ base[c] # NoDoc
  /\ user[c].udb.stage = base[c].stage
  /\ FillLock(user[c].udb).lock = FillLock(base[c]).lock

Settled == {"top", "select", "dispatch", "handle", "send"}

(* A session that was not told to stop is saved, or dirty and about to be.   *)
Kept(c) ==
  user[c].ready /\ enable[c] =>
    /\ main[c] \in Settled => Saved(c)
    /\ main[c] = "store" => user[c].dirty \/ Saved(c)
    /\ main[c] = "insert" => user[c].dirty \/ Fillable(c)

(* What a dirty session answers without a kick has been stored.              *)
Told(c) == main[c] = "send" /\ user[c].dirty /\ ~reply[c].kick => base[c] = user[c].udb

(* Nobody has logged in on a connection that is not made.                    *)
Unmade(c) == main[c] = "off" => ~user[c].ready

SaveInv == \A c \in Conns : Kept(c) /\ Told(c) /\ Unmade(c)

-----------------------------------------------------------------------------
(* Handlers that leave the user clean leave the document alone.              *)
LEMMA ServeClean ==
  ASSUME NEW d \in Ready, NEW b \in Bodies, NEW k \in Commands
  PROVE  ~Serve(k, d, b).dirty => Serve(k, d, b).udb = d
<1> USE DEF Changed, Unchanged, Refused
<1>1. ~ProcIAPAddHeart(d, b).dirty => ProcIAPAddHeart(d, b).udb = d
  BY DEF ProcIAPAddHeart
<1>2. ~ProcStartPlay(d, b).dirty => ProcStartPlay(d, b).udb = d
  BY DEF ProcStartPlay
<1>3. ~ProcEndPlay(d, b).dirty => ProcEndPlay(d, b).udb = d
  BY DEF ProcEndPlay
<1>4. ~ProcEventLock(d, b).dirty => ProcEventLock(d, b).udb = d
  BY DEF ProcEventLock
<1>5. ~ProcUseItem(d, b).dirty => ProcUseItem(d, b).udb = d
  BY DEF ProcUseItem
<1>6. Unchanged(d).udb = d OBVIOUS
<1> QED
  BY <1>1, <1>2, <1>3, <1>4, <1>5, <1>6
  DEF Serve, Commands, kCmdUserLogin, kCmdStartPlay, kCmdEndPlay,
      kCmdIAPAddHeart, kCmdEventLock, kCmdUseItem

(* Hearts that are there can be taken without wrapping around.               *)
LEMMA SpendWhatIsThere ==
  ASSUME NEW d \in UserDb, NEW p \in Nat, p <= d.heart
  PROVE  UseHeart(d, p).heart <= d.heart
<1>1. d.heart \in Nat /\ d.heart < UintMod BY UintModAssumption DEF UserDb, Hearts
<1>2. d.heart + (-p) \in 0..(UintMod - 1) BY <1>1, UintModAssumption
<1>3. (d.heart + (-p)) % UintMod = d.heart + (-p)
  BY <1>2, UintModAssumption
<1>4. UseHeart(d, p).heart = d.heart + (-p)
  BY <1>3 DEF UseHeart, AddHeart, UserDb
<1> QED BY <1>1, <1>4

LEMMA StartPlayCharges ==
  ASSUME NEW d \in Ready, NEW b \in Bodies
  PROVE  Serve(kCmdStartPlay, d, b).udb.heart <= d.heart
<1>0. d \in UserDb /\ d.heart \in Nat BY DEF Ready, UserDb, Hearts
<1>1. Serve(kCmdStartPlay, d, b) = ProcStartPlay(d, b)
  BY DEF Serve, kCmdUserLogin, kCmdStartPlay, kCmdEndPlay, kCmdIAPAddHeart,
         kCmdEventLock, kCmdUseItem
<1>2. ASSUME Has(b, {"stageid"}), d.heart >= StageHeartConfig[b["stageid"]]
      PROVE  UseHeart(d, StageHeartConfig[b["stageid"]]).heart <= d.heart
  <2>1. b["stageid"] \in Stages BY <1>2 DEF Bodies, BodyKeys, Has, Absent
  <2>2. StageHeartConfig[b["stageid"]] \in Nat BY <2>1, TablesType
  <2> QED BY <1>0, <1>2, <2>2, SpendWhatIsThere
<1>3. ProcStartPlay(d, b).udb = d
      \/ /\ Has(b, {"stageid"}) /\ ~(d.heart < StageHeartConfig[b["stageid"]])
         /\ ProcStartPlay(d, b).udb = UseHeart(d, StageHeartConfig[b["stageid"]])
  BY DEF ProcStartPlay, Changed, Refused
<1>4. ASSUME Has(b, {"stageid"}), ~(d.heart < StageHeartConfig[b["stageid"]])
      PROVE  d.heart >= StageHeartConfig[b["stageid"]]
  <2>1. b["stageid"] \in Stages BY <1>4 DEF Bodies, BodyKeys, Has, Absent
  <2>2. StageHeartConfig[b["stageid"]] \in Nat BY <2>1, TablesType
  <2> QED BY <1>0, <1>4, <2>2
<1> QED BY <1>0, <1>1, <1>2, <1>3, <1>4

-----------------------------------------------------------------------------
(* A step that leaves the document of a session and its base alone, and does *)
(* not take an unsaved session to where it should be saved.                  *)
LEMMA FrameKept ==
  ASSUME NEW c \in Conns, Kept(c), user'[c] = user[c], base'[c] = base[c],
         enable'[c] => enable[c],
         \/ main'[c] = main[c]
         \/ main[c] \in Settled /\ main'[c] \in Settled
         \/ main'[c] \in {"exit", "close", "done"}
         \/ ~user[c].ready
  PROVE  Kept(c)'
BY DEF Kept, Saved, Fillable, Settled

LEMMA FrameTold ==
  ASSUME NEW c \in Conns, Told(c), user'[c] = user[c], base'[c] = base[c],
         main'[c] = "send" => main[c] = "send" /\ reply'[c] = reply[c]
  PROVE  Told(c)'
BY DEF Told

(* The actions of a session leave the others alone.                          *)
LEMMA OthersKeep ==
  ASSUME TypeOK, SaveInv, NEW c \in Conns, Main(c), NEW d \in Conns, d # c
  PROVE  Kept(d)' /\ Told(d)' /\ Unmade(d)'
<1>1. /\ user'[d] = user[d] /\ base'[d] = base[d] /\ enable'[d] = enable[d]
      /\ main'[d] = main[d] /\ reply'[d] = reply[d]
  BY DEF TypeOK, Main, TopOfLoop, TakeRequest, TakeCredit, procTimeout, Dispatch,
         KickStranger, Handle, LoginLoad, LoginLoadFails, InsertOnline, Store,
         StoreFails, SendReply, Unregister, Close, Goto, transport, history
<1> QED BY <1>1, FrameKept, FrameTold DEF SaveInv, Unmade

(* Proc is under way and stays so.                                           *)
LEMMA MainUnmade ==
  ASSUME TypeOK, NEW c \in Conns, Main(c) PROVE Unmade(c)'
<1>1. main'[c] # "off"
  BY DEF TypeOK, Main, TopOfLoop, TakeRequest, TakeCredit, procTimeout, Dispatch,
         KickStranger, Handle, LoginLoad, LoginLoadFails, InsertOnline, Store,
         StoreFails, SendReply, Unregister, Close, Goto
<1> QED BY <1>1 DEF Unmade

(* The steps of Proc that change neither the document nor its base.          *)
LEMMA PlainKeeps ==
  ASSUME IInv, SaveInv, NEW c \in Conns,
         \/ TopOfLoop(c) \/ TakeRequest(c) \/ procTimeout(c) \/ Dispatch(c)
         \/ KickStranger(c) \/ LoginLoadFails(c) \/ SendReply(c)
         \/ Unregister(c) \/ Close(c)
  PROVE  Kept(c)' /\ Told(c)'
<1>1. user' = user /\ base' = base
  BY DEF TopOfLoop, TakeRequest, procTimeout, Dispatch, KickStranger,
         LoginLoadFails, SendReply, Unregister, Close, history
<1>2. enable'[c] => enable[c]
  BY DEF TopOfLoop, TakeRequest, procTimeout, Dispatch, KickStranger,
         LoginLoadFails, SendReply, Unregister, Close, IInv, TypeOK
<1>3. \/ main[c] \in Settled /\ main'[c] \in Settled
      \/ main'[c] \in {"exit", "close", "done"}
      \/ ~user[c].ready
  BY DEF TopOfLoop, TakeRequest, procTimeout, Dispatch, KickStranger,
         LoginLoadFails, SendReply, Unregister, Close, Goto, Settled, IInv, TypeOK
<1>4. main'[c] # "send"
  BY DEF TopOfLoop, TakeRequest, procTimeout, Dispatch, KickStranger,
         LoginLoadFails, SendReply, Unregister, Close, Goto, IInv, TypeOK
<1> QED BY <1>1, <1>2, <1>3, <1>4, FrameKept, FrameTold DEF SaveInv

LEMMA CreditKeeps ==
  ASSUME IInv, SaveInv, NEW c \in Conns, TakeCredit(c) PROVE Kept(c)' /\ Told(c)'
<1> USE DEF IInv, TypeOK, Goto, history
<1>1. user[c].udb \in UserDb /\ Head(ichan[c]) \in Int
  BY DEF UserStates, TakeCredit
<1>2. /\ AddHeart(user[c].udb, Head(ichan[c])).lock = user[c].udb.lock
      /\ AddHeart(user[c].udb, Head(ichan[c])).stage = user[c].udb.stage
  BY <1>1, AddHeartType
<1>3. /\ user'[c].udb.lock = user[c].udb.lock
      /\ user'[c].udb.stage = user[c].udb.stage
      /\ user'[c].ready = user[c].ready
  BY <1>2 DEF TakeCredit, UserStates
<1>4. /\ main[c] = "select" /\ main'[c] = "top"
      /\ base' = base /\ enable' = enable
  BY DEF TakeCredit
<1> QED BY <1>3, <1>4 DEF SaveInv, Kept, Saved, Settled, Told

LEMMA HandleKeeps ==
  ASSUME IInv, SaveInv, NEW c \in Conns, Handle(c) PROVE Kept(c)' /\ Told(c)'
<1> USE DEF IInv, TypeOK, Goto
<1> DEFINE out == Serve(cmsg[c].cmd, user[c].udb, cmsg[c].body)
<1>1. cmsg[c].cmd \in Commands /\ cmsg[c].body \in Bodies /\ user[c].udb \in Ready
  BY DEF Handle, HandlersReady, Awaited, Buffers, UserStates, Ready
<1>2. ~out.dirty => out.udb = user[c].udb BY <1>1, ServeClean
<1>3. user' = [user EXCEPT ![c].udb = out.udb, ![c].dirty = @ \/ out.dirty]
  BY DEF Handle
<1> HIDE DEF out
<1>4. /\ user'[c].ready = user[c].ready
      /\ ~user'[c].dirty => user'[c].udb = user[c].udb
  BY <1>2, <1>3 DEF UserStates
<1>5. /\ main[c] = "handle" /\ main'[c] = "store"
      /\ base' = base /\ enable' = enable
  BY DEF Handle
<1> QED BY <1>4, <1>5 DEF SaveInv, Kept, Saved, Settled, Told

LEMMA LoginKeeps ==
  ASSUME IInv, SaveInv, NEW c \in Conns, LoginLoad(c) PROVE Kept(c)' /\ Told(c)'
<1> USE DEF IInv, TypeOK, Goto
<1>1. PICK u \in LoginId(c) :
        /\ user' = [user EXCEPT ![c] =
              [uid |-> u, ready |-> TRUE, dirty |-> @.dirty \/ db[u] = NoDoc,
               udb |-> LoginRefill(IF db[u] = NoDoc THEN userRegister ELSE db[u])]]
        /\ base' = [base EXCEPT ![c] = db[u]]
  BY DEF LoginLoad
<1>2. u \in Users BY DataAssumption DEF LoginId
<1>3. main'[c] = "insert" BY DEF LoginLoad
<1>4. base'[c] = db[u] BY <1>1
<1>5. CASE db[u] = NoDoc
  <2>1. user'[c].dirty BY <1>1, <1>5
  <2> QED BY <1>3, <2>1 DEF Kept, Settled, Told
<1>6. CASE db[u] # NoDoc
  <2>1. db[u] \in UserDb BY <1>2, <1>6
  <2>2. user'[c].udb = LoginRefill(db[u]) BY <1>1, <1>6
  <2>3. /\ LoginRefill(db[u]).stage = db[u].stage
        /\ LoginRefill(db[u]).lock = db[u].lock
    BY <2>1 DEF LoginRefill, UserDb
  <2>4. FillLock(user'[c].udb).lock = FillLock(db[u]).lock
    <3>1. \A d \in UserDb : FillLock(d).lock = IF d.lock = <<>> THEN FreshLock ELSE d.lock
      BY DEF FillLock, UserDb
    <3>2. LoginRefill(db[u]) \in UserDb BY <2>1, DocTypes
    <3> QED BY <2>1, <2>2, <2>3, <3>1, <3>2
  <2> QED BY <1>3, <1>4, <1>6, <2>2, <2>3, <2>4 DEF Kept, Fillable, Settled, Told
<1> QED BY <1>5, <1>6

LEMMA InsertKeeps ==
  ASSUME IInv, SaveInv, NEW c \in Conns, InsertOnline(c) PROVE Kept(c)' /\ Told(c)'
<1> USE DEF IInv, TypeOK, Goto, history
<1>1. user[c].udb \in UserDb BY DEF UserStates
<1>2. FillLock(user[c].udb).stage = user[c].udb.stage
  BY <1>1 DEF FillLock, UserDb
<1>3. /\ user'[c].udb = FillLock(user[c].udb)
      /\ user'[c].ready = user[c].ready /\ user'[c].dirty = user[c].dirty
  BY DEF InsertOnline, UserStates
<1>4. /\ main[c] = "insert" /\ main'[c] = "store"
      /\ base' = base /\ enable' = enable
  BY DEF InsertOnline
<1> QED BY <1>2, <1>3, <1>4 DEF SaveInv, Kept, Saved, Fillable, Settled, Told

LEMMA StoreKeeps ==
  ASSUME IInv, SaveInv, NEW c \in Conns, Store(c) PROVE Kept(c)' /\ Told(c)'
<1> USE DEF IInv, TypeOK, Goto
<1>1. /\ main[c] = "store" /\ main'[c] = "send" /\ user' = user
      /\ enable'[c] => enable[c]
  BY DEF Store
<1>2. CASE user[c].dirty
  <2>1. base'[c] = user[c].udb BY <1>2 DEF Store
  <2>2. user[c].udb \in UserDb BY DEF UserStates
  <2>3. base'[c] # NoDoc BY <2>1, <2>2, NamesAssumption
  <2>4. user[c].ready => FillLock(user[c].udb).lock = user[c].udb.lock
    <3>1. ASSUME user[c].ready PROVE user[c].udb.lock # <<>>
      <4>1. user[c].udb.lock \in [Stages -> Nat] BY <1>1, <3>1 DEF HandlersReady
      <4>2. DOMAIN user[c].udb.lock = Stages BY <4>1
      <4>3. 1 \in Stages BY DEF Stages, StageHeartConfig
      <4>4. 1 \notin DOMAIN <<>> OBVIOUS
      <4> QED BY <4>2, <4>3, <4>4
    <3> QED BY <3>1 DEF FillLock
  <2> QED BY <1>1, <2>1, <2>3, <2>4 DEF Kept, Saved, Settled, Told
<1>3. CASE ~user[c].dirty
  <2>1. base' = base BY <1>3 DEF Store
  <2> QED BY <1>1, <1>3, <2>1 DEF SaveInv, Kept, Saved, Settled, Told
<1> QED BY <1>2, <1>3

LEMMA StoreFailsKeeps ==
  ASSUME IInv, SaveInv, NEW c \in Conns, StoreFails(c) PROVE Kept(c)' /\ Told(c)'
<1>1. ~enable'[c] BY DEF StoreFails, IInv, TypeOK
<1>2. reply'[c].kick BY DEF StoreFails, IInv, TypeOK, Replies
<1> QED BY <1>1, <1>2 DEF Kept, Told

-----------------------------------------------------------------------------
LEMMA InitSaves == Init => SaveInv
BY DEF Init, SaveInv, Kept, Told, Unmade, NewUser

LEMMA StepSaves == ASSUME IInv, SaveInv, [Next]_vars PROVE SaveInv'
<1>1. ASSUME UNCHANGED <<user, base, main, reply>>,
             \A c \in Conns : enable'[c] => enable[c]
      PROVE  SaveInv'
  BY <1>1, FrameKept, FrameTold DEF SaveInv, Unmade
<1>2. ASSUME UNCHANGED vars PROVE SaveInv'
  BY <1>1, <1>2 DEF vars, history
<1>3. ASSUME NEW c \in Conns, Main(c) PROVE SaveInv'
  <2>1. Kept(c)' /\ Told(c)'
    BY <1>3, PlainKeeps, CreditKeeps, HandleKeeps, LoginKeeps, InsertKeeps,
       StoreKeeps, StoreFailsKeeps DEF Main
  <2>2. Unmade(c)' BY <1>3, MainUnmade DEF IInv
  <2> QED BY <1>3, <2>1, <2>2, OthersKeep DEF SaveInv, IInv
<1>4. ASSUME NEW c \in Conns, Reader(c) PROVE SaveInv'
  <2>1. UNCHANGED <<user, base, main, reply>>
    BY <1>4 DEF Reader, ReadBody, ReadHeader, PushRequest, ReadError, PushNil, history
  <2>2. \A d \in Conns : enable'[d] => enable[d]
    BY <1>4 DEF Reader, ReadBody, ReadHeader, PushRequest, ReadError, PushNil,
                IInv, TypeOK
  <2> QED BY <1>1, <2>1, <2>2
<1>5. ASSUME NEW c \in Conns, Client(c) PROVE SaveInv'
  <2>1. CASE Connect(c)
    <3>1. ~user[c].ready BY <2>1 DEF Connect, SaveInv, Unmade
    <3>2. user' = user /\ base' = base /\ reply' = reply /\ main'[c] = "top"
      BY <2>1 DEF Connect, history, IInv, TypeOK
    <3>3. \A d \in Conns : d # c => main'[d] = main[d] /\ enable'[d] = enable[d]
      BY <2>1 DEF Connect, IInv, TypeOK
    <3>4. Kept(c)' /\ Told(c)' /\ Unmade(c)'
      BY <3>1, <3>2 DEF Kept, Told, Unmade
    <3>5. ASSUME NEW d \in Conns, d # c PROVE Kept(d)' /\ Told(d)' /\ Unmade(d)'
      BY <3>2, <3>3, <3>5, FrameKept, FrameTold DEF SaveInv, Unmade
    <3> QED BY <3>4, <3>5 DEF SaveInv
  <2>2. CASE ClientSend(c) \/ ClientLeave(c)
    <3>1. UNCHANGED <<user, base, main, reply, enable>>
      BY <2>2 DEF ClientSend, ClientLeave, history
    <3> QED BY <1>1, <3>1
  <2> QED BY <1>5, <2>1, <2>2 DEF Client
<1>6. ASSUME NEW g \in Grants, Callback(g) PROVE SaveInv'
  <2>1. UNCHANGED <<user, base, main, reply, enable>>
    BY <1>6 DEF Callback, FindOnline, SendCredit, GrantLoad, GrantStore,
                GrantDbFails, history
  <2> QED BY <1>1, <2>1
<1>7. ASSUME Crash PROVE SaveInv'
  <2>1. user' = user BY <1>7 DEF Crash
  <2>2. \A c \in Conns : main'[c] = IF main[c] = "off" THEN "off" ELSE "done"
    BY <1>7 DEF Crash
  <2> QED BY <2>1, <2>2 DEF SaveInv, Kept, Told, Unmade, Settled
<1> QED BY <1>2, <1>3, <1>4, <1>5, <1>6, <1>7 DEF Next, Finished

LEMMA SaveInductive == Spec => []SaveInv
<1>1. Init => SaveInv BY InitSaves
<1>2. IInv /\ SaveInv /\ [Next]_vars => SaveInv' BY StepSaves
<1> QED BY <1>1, <1>2, Inductive, PTL DEF Spec

-----------------------------------------------------------------------------
(* A session that has changed nothing still has what it loaded, but for the  *)
(* gifts of login and the hearts of callbacks.                               *)
Gifted(c) == user[c].udb.heart = LoginRefill(base[c]).heart \/ Credited(c)
Loaded(c) ==
  user[c].ready /\ ~user[c].dirty /\ main[c] # "done" =>
    /\ main[c] = "insert" => base[c] # NoDoc /\ user[c].udb = LoginRefill(base[c])
    /\ main[c] # "insert" => Saved(c) /\ Gifted(c)

(* Hearts in a session's channel come from a callback that is over, and a    *)
(* stranger is never answered but with a kick.                               *)
Delivered(c) == ichan[c] # <<>> => Credited(c)
Answering(c) == main[c] \in {"store", "send"} /\ ~reply[c].kick => user[c].ready

TellInv == \A c \in Conns : Loaded(c) /\ Delivered(c) /\ Answering(c)

(* A callback that is over stays so.                                         *)
LEMMA CreditedStays ==
  ASSUME TypeOK, [Next]_vars, NEW c \in Conns, Credited(c) PROVE Credited(c)'
<1>1. PICK g \in Grants : grant[g].target = c /\ grant[g].pc = "done"
  BY DEF Credited
<1>2. grant'[g] = grant[g]
  <2>1. ASSUME NEW d \in Conns, Client(d) \/ Reader(d) \/ Main(d)
        PROVE  grant' = grant
    BY <2>1 DEF Client, Connect, ClientSend, ClientLeave, Reader, ReadBody,
         ReadHeader, PushRequest, ReadError, PushNil, Main, TopOfLoop, TakeRequest,
         TakeCredit, procTimeout, Dispatch, KickStranger, Handle, LoginLoad,
         LoginLoadFails, InsertOnline, Store, StoreFails, SendReply, Unregister, Close
  <2>2. ASSUME NEW h \in Grants, Callback(h) PROVE grant'[g] = grant[g]
    <3>1. h # g
      BY <1>1, <2>2 DEF Callback, FindOnline, SendCredit, GrantLoad, GrantStore,
                        GrantDbFails
    <3> QED
      BY <2>2, <3>1 DEF Callback, FindOnline, SendCredit, GrantLoad, GrantStore,
                        GrantDbFails, GrantGoto, TypeOK
  <2>3. Crash => grant'[g] = grant[g]
    <3>1. ASSUME Crash PROVE grant'[g] = [grant[g] EXCEPT !.pc = "done"]
      BY <1>1, <3>1 DEF Crash
    <3>2. [grant[g] EXCEPT !.pc = "done"] = grant[g]
      BY <1>1 DEF TypeOK, GrantStates
    <3> QED BY <3>1, <3>2
  <2>4. UNCHANGED vars => grant' = grant BY DEF vars
  <2> QED BY <2>1, <2>2, <2>3, <2>4 DEF Next, Finished
<1> QED BY <1>1, <1>2 DEF Credited

(* A step that leaves the document and its base alone, and does not let an   *)
(* unfinished login pass for a finished one.                                 *)
LEMMA FrameLoaded ==
  ASSUME NEW c \in Conns, Loaded(c), Credited(c) => Credited(c)',
         user'[c] = user[c], base'[c] = base[c],
         main'[c] = "done" \/ (main[c] # "done" /\ main[c] # "insert" /\ main'[c] # "insert")
         \/ main'[c] = main[c]
  PROVE  Loaded(c)'
BY DEF Loaded, Gifted, Saved

LEMMA FrameAnswering ==
  ASSUME NEW c \in Conns, Answering(c), user[c].ready => user'[c].ready,
         \/ main'[c] \notin {"store", "send"}
         \/ /\ main[c] \in {"store", "send"}
            /\ ~reply'[c].kick => ~reply[c].kick
  PROVE  Answering(c)'
BY DEF Answering

LEMMA FrameDelivered ==
  ASSUME NEW c \in Conns, Delivered(c), Credited(c) => Credited(c)',
         ichan'[c] # <<>> => ichan[c] # <<>>
  PROVE  Delivered(c)'
BY DEF Delivered

LEMMA OthersTell ==
  ASSUME TypeOK, TellInv, NEW c \in Conns, Main(c), NEW d \in Conns, d # c
  PROVE  Loaded(d)' /\ Delivered(d)' /\ Answering(d)'
<1>1. /\ user'[d] = user[d] /\ base'[d] = base[d] /\ main'[d] = main[d]
      /\ reply'[d] = reply[d] /\ ichan'[d] = ichan[d]
  BY DEF TypeOK, Main, TopOfLoop, TakeRequest, TakeCredit, procTimeout, Dispatch,
         KickStranger, Handle, LoginLoad, LoginLoadFails, InsertOnline, Store,
         StoreFails, SendReply, Unregister, Close, Goto, transport, history
<1>2. Credited(d) => Credited(d)' BY CreditedStays DEF Next
<1> QED
  BY <1>1, <1>2, FrameLoaded, FrameDelivered, FrameAnswering DEF TellInv

LEMMA PlainTells ==
  ASSUME IInv, TellInv, NEW c \in Conns, Credited(c) => Credited(c)',
         \/ TopOfLoop(c) \/ TakeRequest(c) \/ procTimeout(c) \/ Dispatch(c)
         \/ KickStranger(c) \/ LoginLoadFails(c) \/ SendReply(c)
         \/ Unregister(c) \/ Close(c) \/ StoreFails(c)
  PROVE  Loaded(c)' /\ Delivered(c)' /\ Answering(c)'
<1> USE DEF IInv, TypeOK, Goto
<1>1. user' = user /\ ichan' = ichan
  BY DEF TopOfLoop, TakeRequest, procTimeout, Dispatch, KickStranger,
         LoginLoadFails, SendReply, Unregister, Close, StoreFails
<1>2. base' = base
  BY DEF TopOfLoop, TakeRequest, procTimeout, Dispatch, KickStranger, history,
         LoginLoadFails, SendReply, Unregister, Close, StoreFails
<1>3. main[c] \notin {"done", "insert"} /\ main'[c] # "insert"
  BY DEF TopOfLoop, TakeRequest, procTimeout, Dispatch, KickStranger,
         LoginLoadFails, SendReply, Unregister, Close, StoreFails
<1>4. main'[c] \notin {"store", "send"} \/ reply'[c].kick
  BY DEF TopOfLoop, TakeRequest, procTimeout, Dispatch, KickStranger, Replies,
         LoginLoadFails, SendReply, Unregister, Close, StoreFails
<1>5. Loaded(c)' BY <1>1, <1>2, <1>3, FrameLoaded DEF TellInv
<1>6. Delivered(c)' BY <1>1, FrameDelivered DEF TellInv
<1>7. Answering(c)' BY <1>4 DEF Answering
<1> QED BY <1>5, <1>6, <1>7

LEMMA CreditTells ==
  ASSUME IInv, TellInv, NEW c \in Conns, Credited(c) => Credited(c)', TakeCredit(c)
  PROVE  Loaded(c)' /\ Delivered(c)' /\ Answering(c)'
<1> USE DEF IInv, TypeOK, Goto, history
<1>1. user[c].udb \in UserDb /\ Head(ichan[c]) \in Int
  BY DEF UserStates, TakeCredit
<1>2. /\ AddHeart(user[c].udb, Head(ichan[c])).lock = user[c].udb.lock
      /\ AddHeart(user[c].udb, Head(ichan[c])).stage = user[c].udb.stage
  BY <1>1, AddHeartType
<1>3. /\ user'[c].udb.lock = user[c].udb.lock
      /\ user'[c].udb.stage = user[c].udb.stage
      /\ user'[c].ready = user[c].ready /\ user'[c].dirty = user[c].dirty
  BY <1>2 DEF TakeCredit, UserStates
<1>4. /\ main[c] = "select" /\ main'[c] = "top" /\ base' = base
  BY DEF TakeCredit
<1>5. Credited(c)' BY DEF TakeCredit, TellInv, Delivered
<1>6. Loaded(c)' BY <1>3, <1>4, <1>5 DEF TellInv, Loaded, Saved, Gifted
<1> QED BY <1>4, <1>5, <1>6 DEF Delivered, Answering

LEMMA HandleTells ==
  ASSUME IInv, TellInv, NEW c \in Conns, Credited(c) => Credited(c)', Handle(c)
  PROVE  Loaded(c)' /\ Delivered(c)' /\ Answering(c)'
<1> USE DEF IInv, TypeOK, Goto
<1> DEFINE out == Serve(cmsg[c].cmd, user[c].udb, cmsg[c].body)
<1>1. cmsg[c].cmd \in Commands /\ cmsg[c].body \in Bodies /\ user[c].udb \in Ready
  BY DEF Handle, HandlersReady, Awaited, Buffers, UserStates, Ready
<1>2. ~out.dirty => out.udb = user[c].udb BY <1>1, ServeClean
<1>3. user' = [user EXCEPT ![c].udb = out.udb, ![c].dirty = @ \/ out.dirty]
  BY DEF Handle
<1> HIDE DEF out
<1>4. /\ user'[c].ready = user[c].ready
      /\ ~user'[c].dirty => ~user[c].dirty /\ user'[c].udb = user[c].udb
  BY <1>2, <1>3 DEF UserStates
<1>5. /\ main[c] = "handle" /\ main'[c] = "store" /\ user[c].ready
      /\ base' = base /\ ichan' = ichan
  BY DEF Handle
<1>6. Loaded(c)' BY <1>4, <1>5 DEF TellInv, Loaded, Saved, Gifted
<1>7. Delivered(c)' BY <1>5, FrameDelivered DEF TellInv
<1> QED BY <1>4, <1>5, <1>6, <1>7 DEF Answering

LEMMA LoginTells ==
  ASSUME IInv, TellInv, NEW c \in Conns, Credited(c) => Credited(c)', LoginLoad(c)
  PROVE  Loaded(c)' /\ Delivered(c)' /\ Answering(c)'
<1> USE DEF IInv, TypeOK, Goto
<1>1. PICK u \in LoginId(c) :
        /\ user' = [user EXCEPT ![c] =
              [uid |-> u, ready |-> TRUE, dirty |-> @.dirty \/ db[u] = NoDoc,
               udb |-> LoginRefill(IF db[u] = NoDoc THEN userRegister ELSE db[u])]]
        /\ base' = [base EXCEPT ![c] = db[u]]
  BY DEF LoginLoad
<1>2. main'[c] = "insert" /\ ichan' = ichan BY DEF LoginLoad
<1>3. /\ base'[c] = db[u]
      /\ db[u] = NoDoc => user'[c].dirty
      /\ db[u] # NoDoc => user'[c].udb = LoginRefill(db[u])
  BY <1>1
<1>4. Loaded(c)' BY <1>2, <1>3 DEF Loaded
<1>5. Delivered(c)' BY <1>2, FrameDelivered DEF TellInv
<1> QED BY <1>2, <1>4, <1>5 DEF Answering

LEMMA InsertTells ==
  ASSUME IInv, TellInv, NEW c \in Conns, Credited(c) => Credited(c)', InsertOnline(c)
  PROVE  Loaded(c)' /\ Delivered(c)' /\ Answering(c)'
<1> USE DEF IInv, TypeOK, Goto, history
<1>1. /\ main[c] = "insert" /\ main'[c] = "store" /\ base' = base /\ ichan' = ichan
  BY DEF InsertOnline
<1>2. /\ user'[c].udb = FillLock(user[c].udb)
      /\ user'[c].ready = user[c].ready /\ user'[c].dirty = user[c].dirty
  BY DEF InsertOnline, UserStates
<1>3. user[c].ready BY <1>1 DEF HandlersReady
<1>4. ASSUME base[c] # NoDoc, user[c].udb = LoginRefill(base[c])
      PROVE  /\ FillLock(user[c].udb).stage = base[c].stage
             /\ FillLock(user[c].udb).lock = FillLock(base[c]).lock
             /\ FillLock(user[c].udb).heart = LoginRefill(base[c]).heart
  <2>1. base[c] \in UserDb BY <1>4
  <2>2. user[c].udb \in UserDb BY DEF UserStates
  <2>3. /\ user[c].udb.stage = base[c].stage
        /\ user[c].udb.lock = base[c].lock
    BY <1>4, <2>1 DEF LoginRefill, UserDb
  <2>4. \A d \in UserDb : /\ FillLock(d).stage = d.stage /\ FillLock(d).heart = d.heart
                          /\ FillLock(d).lock = IF d.lock = <<>> THEN FreshLock ELSE d.lock
    BY DEF FillLock, UserDb
  <2> QED BY <1>4, <2>1, <2>2, <2>3, <2>4
<1>5. Loaded(c)' BY <1>1, <1>2, <1>4 DEF TellInv, Loaded, Saved, Gifted
<1>6. Delivered(c)' BY <1>1, FrameDelivered DEF TellInv
<1> QED BY <1>1, <1>2, <1>3, <1>5, <1>6 DEF Answering

LEMMA StoreTells ==
  ASSUME IInv, TellInv, NEW c \in Conns, Credited(c) => Credited(c)', Store(c)
  PROVE  Loaded(c)' /\ Delivered(c)' /\ Answering(c)'
<1> USE DEF IInv, TypeOK, Goto
<1>1. /\ main[c] = "store" /\ main'[c] = "send" /\ user' = user /\ ichan' = ichan
      /\ reply' = reply
      /\ ~user[c].dirty => base' = base
  BY DEF Store
<1>2. Loaded(c)' BY <1>1, FrameLoaded DEF TellInv, Loaded
<1>3. Delivered(c)' BY <1>1, FrameDelivered DEF TellInv
<1> QED BY <1>1, <1>2, <1>3, FrameAnswering DEF TellInv

LEMMA InitTells == Init => TellInv
BY DEF Init, TellInv, Loaded, Delivered, Answering, NewUser

LEMMA StepTells == ASSUME IInv, SaveInv, TellInv, [Next]_vars PROVE TellInv'
<1>0. \A c \in Conns : Credited(c) => Credited(c)' BY CreditedStays DEF IInv
<1>1. ASSUME UNCHANGED <<user, base, main, reply, ichan>> PROVE TellInv'
  BY <1>0, <1>1, FrameLoaded, FrameDelivered, FrameAnswering DEF TellInv
<1>2. ASSUME UNCHANGED vars PROVE TellInv'
  BY <1>1, <1>2 DEF vars, history
<1>3. ASSUME NEW c \in Conns, Main(c) PROVE TellInv'
  <2>1. Loaded(c)' /\ Delivered(c)' /\ Answering(c)'
    BY <1>0, <1>3, PlainTells, CreditTells, HandleTells, LoginTells, InsertTells,
       StoreTells DEF Main
  <2> QED BY <1>3, <2>1, OthersTell DEF TellInv, IInv
<1>4. ASSUME NEW c \in Conns, Reader(c) PROVE TellInv'
  <2>1. UNCHANGED <<user, base, main, reply, ichan>>
    BY <1>4 DEF Reader, ReadBody, ReadHeader, PushRequest, ReadError, PushNil, history
  <2> QED BY <1>1, <2>1
<1>5. ASSUME NEW c \in Conns, Client(c) PROVE TellInv'
  <2>1. CASE Connect(c)
    <3>1. ~user[c].ready BY <2>1 DEF Connect, SaveInv, Unmade
    <3>2. /\ user' = user /\ base' = base /\ reply' = reply /\ ichan' = ichan
          /\ main'[c] = "top"
      BY <2>1 DEF Connect, history, IInv, TypeOK
    <3>3. \A d \in Conns : d # c => main'[d] = main[d]
      BY <2>1 DEF Connect, IInv, TypeOK
    <3>4. Loaded(c)' /\ Answering(c)' BY <3>1, <3>2 DEF Loaded, Answering
    <3>5. ASSUME NEW d \in Conns PROVE Delivered(d)'
      BY <1>0, <3>2, FrameDelivered DEF TellInv
    <3>6. ASSUME NEW d \in Conns, d # c PROVE Loaded(d)' /\ Answering(d)'
      BY <1>0, <3>2, <3>3, <3>6, FrameLoaded, FrameAnswering DEF TellInv
    <3> QED BY <3>4, <3>5, <3>6 DEF TellInv
  <2>2. CASE ClientSend(c) \/ ClientLeave(c)
    <3>1. UNCHANGED <<user, base, main, reply, ichan>>
      BY <2>2 DEF ClientSend, ClientLeave, history
    <3> QED BY <1>1, <3>1
  <2> QED BY <1>5, <2>1, <2>2 DEF Client
<1>6. ASSUME NEW g \in Grants, Callback(g) PROVE TellInv'
  <2>1. CASE SendCredit(g)
    <3>1. UNCHANGED <<user, base, main, reply>> BY <2>1 DEF SendCredit, history
    <3>2. /\ grant'[g].target = grant[g].target /\ grant'[g].pc = "done"
          /\ \A d \in Conns : d # grant[g].target => ichan'[d] = ichan[d]
      BY <2>1 DEF SendCredit, GrantGoto, IInv, TypeOK, GrantStates
    <3>3. ASSUME NEW d \in Conns PROVE Delivered(d)'
      <4>1. CASE d = grant[g].target BY <3>2, <4>1 DEF Delivered, Credited
      <4>2. CASE d # grant[g].target
        BY <1>0, <3>2, <4>2, FrameDelivered DEF TellInv
      <4> QED BY <4>1, <4>2
    <3>4. ASSUME NEW d \in Conns PROVE Loaded(d)' /\ Answering(d)'
      BY <1>0, <3>1, FrameLoaded, FrameAnswering DEF TellInv
    <3> QED BY <3>3, <3>4 DEF TellInv
  <2>2. CASE FindOnline(g) \/ GrantLoad(g) \/ GrantStore(g) \/ GrantDbFails(g)
    <3>1. UNCHANGED <<user, base, main, reply, ichan>>
      BY <2>2 DEF FindOnline, GrantLoad, GrantStore, GrantDbFails, history
    <3> QED BY <1>1, <3>1
  <2> QED BY <1>6, <2>1, <2>2 DEF Callback
<1>7. ASSUME Crash PROVE TellInv'
  <2>1. user' = user BY <1>7 DEF Crash
  <2>2. \A c \in Conns : /\ main'[c] = IF main[c] = "off" THEN "off" ELSE "done"
                         /\ ichan'[c] = <<>>
    BY <1>7 DEF Crash
  <2> QED BY <2>1, <2>2 DEF SaveInv, TellInv, Loaded, Delivered, Answering, Unmade
<1> QED BY <1>2, <1>3, <1>4, <1>5, <1>6, <1>7 DEF Next, Finished

(* Every reply that neither kicks nor reports a failed write leaves with the *)
(* player's stage and locks in the database, and his hearts too unless they  *)
(* are gifts to a session that has changed nothing (client.go:229-243).      *)
THEOREM AnsweredIsStoredAlways == Spec => []AnsweredIsStored
<1>1. ASSUME IInv, SaveInv, TellInv PROVE AnsweredIsStored
  <2> SUFFICES ASSUME NEW c \in Conns, main[c] = "send", ~reply[c].kick
               PROVE  /\ Saved(c)
                      /\ \/ user[c].udb = base[c]
                         \/ ~user[c].dirty /\ Gifted(c)
    BY DEF AnsweredIsStored, Saved, Gifted
  <2>1. user[c].ready BY <1>1 DEF TellInv, Answering
  <2>2. CASE ~user[c].dirty BY <1>1, <2>1, <2>2 DEF TellInv, Loaded
  <2>3. CASE user[c].dirty
    <3>1. base[c] = user[c].udb BY <1>1, <2>3 DEF SaveInv, Told
    <3>2. user[c].udb \in UserDb /\ user[c].udb.lock \in [Stages -> Nat]
      BY <1>1, <2>1 DEF IInv, TypeOK, UserStates, HandlersReady
    <3>3. user[c].udb.lock # <<>>
      <4>1. DOMAIN user[c].udb.lock = Stages BY <3>2
      <4>2. 1 \in Stages BY DEF Stages, StageHeartConfig
      <4>3. 1 \notin DOMAIN <<>> OBVIOUS
      <4> QED BY <4>1, <4>2, <4>3
    <3>4. base[c] # NoDoc BY <3>1, <3>2, NamesAssumption
    <3> QED BY <3>1, <3>3, <3>4 DEF Saved, FillLock
  <2> QED BY <2>2, <2>3
<1>2. Init => TellInv BY InitTells
<1>3. IInv /\ SaveInv /\ TellInv /\ [Next]_vars => TellInv' BY StepTells
<1> QED BY <1>1, <1>2, <1>3, SaveInductive, Inductive, PTL DEF Spec

(* A session at rest has no stage and no lock that the document it last      *)
(* wrote lacks, however many requests, credits and callbacks came before     *)
(* (user.go:71-84, client.go:229-234).                                       *)
THEOREM ProgressSavedAlways == Spec => []ProgressSaved
<1>1. SaveInv => ProgressSaved
  BY DEF SaveInv, Kept, Saved, Settled, ProgressSaved, AtRest
<1> QED BY <1>1, SaveInductive, PTL

(* StartPlay never mints hearts: the balance it checked covers the price it  *)
(* takes, whatever stage and whatever body it was given (user.go:202-228).   *)
THEOREM StartPlayNeverMintsAlways == Spec => StartPlayNeverMints
<1> DEFINE Charges == \A c \in Conns :
       main[c] = "handle" /\ user[c].ready /\ cmsg[c].cmd = kCmdStartPlay
       /\ main'[c] = "store" => user'[c].udb.heart <= user[c].udb.heart
<1>1. ASSUME IInv, Next PROVE Charges
  <2> SUFFICES ASSUME NEW c \in Conns, main[c] = "handle", user[c].ready,
                      cmsg[c].cmd = kCmdStartPlay, main'[c] = "store"
               PROVE  user'[c].udb.heart <= user[c].udb.heart
    OBVIOUS
  <2>1. cmsg[c].body \in Bodies /\ user[c].udb \in Ready
    BY <1>1 DEF IInv, TypeOK, HandlersReady, Buffers, UserStates, Ready
  <2>2. ASSUME Handle(c) PROVE user'[c].udb.heart <= user[c].udb.heart
    <3>1. user'[c].udb = Serve(kCmdStartPlay, user[c].udb, cmsg[c].body).udb
      BY <1>1, <2>2 DEF Handle, IInv, TypeOK, UserStates
    <3> QED BY <2>1, <3>1, StartPlayCharges
  <2>3. ASSUME NEW d \in Conns, Main(d), ~Handle(c) PROVE FALSE
    BY <1>1, <2>3
       DEF IInv, TypeOK, Main, TopOfLoop, TakeRequest, TakeCredit, procTimeout,
           Dispatch, KickStranger, Handle, LoginLoad, LoginLoadFails,
           InsertOnline, Store, StoreFails, SendReply, Unregister, Close, Goto
  <2>4. ASSUME NEW d \in Conns, Client(d) \/ Reader(d) PROVE FALSE
    BY <1>1, <2>4
       DEF IInv, TypeOK, Client, Connect, ClientSend, ClientLeave, Reader,
           ReadBody, ReadHeader, PushRequest, ReadError, PushNil
  <2>5. ASSUME NEW g \in Grants, Callback(g) PROVE FALSE
    BY <2>5 DEF Callback, FindOnline, SendCredit, GrantLoad, GrantStore,
                GrantDbFails
  <2>6. ~Crash /\ ~Finished BY DEF Crash, Finished
  <2> QED BY <1>1, <2>2, <2>3, <2>4, <2>5, <2>6 DEF Next
<1>2. IInv /\ [Next]_vars => [Charges]_vars BY <1>1
<1> QED BY <1>2, Inductive, PTL DEF Spec, StartPlayNeverMints

-----------------------------------------------------------------------------
(* Stages are never taken back: not by a handler, and so not by a copy over  *)
(* the document it was made from.                                            *)
LEMMA ServeGrows ==
  ASSUME NEW d \in Ready, NEW b \in Bodies, NEW k \in Commands
  PROVE  Serve(k, d, b).udb.stage >= d.stage
<1> USE DEF Changed, Unchanged, Refused
<1>0. d \in UserDb /\ d.stage \in Nat /\ d.stage >= d.stage BY DEF Ready, UserDb
<1>1. ProcIAPAddHeart(d, b).udb.stage = d.stage
  BY <1>0 DEF ProcIAPAddHeart, AddHeart, UserDb
<1>2. ProcStartPlay(d, b).udb.stage = d.stage
  BY <1>0 DEF ProcStartPlay, UseHeart, AddHeart, UserDb
<1>3. ProcEndPlay(d, b).udb.stage >= d.stage
  BY <1>0 DEF ProcEndPlay, UserDb
<1>4. ProcEventLock(d, b).udb.stage = d.stage
  BY <1>0 DEF ProcEventLock, UseHeart, AddHeart, UserDb
<1>5. ProcUseItem(d, b).udb.stage = d.stage
  BY <1>0 DEF ProcUseItem, UseHeart, AddHeart, UserDb
<1>6. Unchanged(d).udb.stage = d.stage OBVIOUS
<1> QED
  BY <1>0, <1>1, <1>2, <1>3, <1>4, <1>5, <1>6
  DEF Serve, Commands, kCmdUserLogin, kCmdStartPlay, kCmdEndPlay,
      kCmdIAPAddHeart, kCmdEventLock, kCmdUseItem

Ahead(doc, from) == from # NoDoc => from.stage <= doc.stage

(* Every copy of a document, a session's or a callback's, is ahead of what   *)
(* it was made from, and a stranger has nothing to store.                    *)
GrowInv ==
  /\ \A c \in Conns : /\ user[c].ready => Ahead(user[c].udb, base[c])
                      /\ user[c].dirty => user[c].ready
  /\ \A g \in Grants : grant[g].pc = "store" => Ahead(grant[g].copy, grant[g].base)

LEMMA GrowFrame ==
  ASSUME GrowInv, UNCHANGED <<user, base>>,
         \A g \in Grants : grant'[g] = grant[g] \/ grant'[g].pc # "store"
  PROVE  GrowInv'
BY DEF GrowInv, Ahead

LEMMA InitGrows == Init => GrowInv
BY DEF Init, GrowInv, NewUser, NoGrant

LEMMA MainGrows ==
  ASSUME IInv, GrowInv, NEW c \in Conns, Main(c) PROVE GrowInv'
<1> USE DEF IInv, TypeOK
<1>0. grant' = grant
  BY DEF Main, TopOfLoop, TakeRequest, TakeCredit, procTimeout, Dispatch,
         KickStranger, Handle, LoginLoad, LoginLoadFails, InsertOnline, Store,
         StoreFails, SendReply, Unregister, Close
<1>1. ASSUME \/ TopOfLoop(c) \/ TakeRequest(c) \/ procTimeout(c) \/ Dispatch(c)
             \/ KickStranger(c) \/ LoginLoadFails(c) \/ StoreFails(c)
             \/ SendReply(c) \/ Unregister(c) \/ Close(c)
      PROVE  GrowInv'
  <2>1. UNCHANGED <<user, base>>
    BY <1>1 DEF TopOfLoop, TakeRequest, procTimeout, Dispatch, KickStranger,
                LoginLoadFails, StoreFails, SendReply, Unregister, Close, history
  <2> QED BY <1>0, <2>1, GrowFrame
<1>2. ASSUME /\ \A d \in Conns : d # c => user'[d] = user[d] /\ base'[d] = base[d]
             /\ user'[c].ready => Ahead(user'[c].udb, base'[c])
             /\ user'[c].dirty => user'[c].ready
      PROVE  GrowInv'
  <2>1. \A d \in Conns : /\ user'[d].ready => Ahead(user'[d].udb, base'[d])
                         /\ user'[d].dirty => user'[d].ready
    BY <1>2 DEF GrowInv
  <2> QED BY <1>0, <2>1 DEF GrowInv, Ahead
<1>3. ASSUME TakeCredit(c) PROVE GrowInv'
  <2>1. user[c].udb \in UserDb /\ Head(ichan[c]) \in Int
    BY <1>3 DEF UserStates, TakeCredit
  <2>2. AddHeart(user[c].udb, Head(ichan[c])).stage = user[c].udb.stage
    BY <2>1, AddHeartType
  <2>3. /\ user'[c].udb.stage = user[c].udb.stage
        /\ user'[c].ready = user[c].ready /\ user'[c].dirty = user[c].dirty
        /\ base' = base /\ \A d \in Conns : d # c => user'[d] = user[d]
    BY <1>3, <2>2 DEF TakeCredit, UserStates, history
  <2> QED BY <1>2, <2>3 DEF GrowInv, Ahead
<1>4. ASSUME Handle(c) PROVE GrowInv'
  <2> DEFINE out == Serve(cmsg[c].cmd, user[c].udb, cmsg[c].body)
  <2>1. cmsg[c].cmd \in Commands /\ cmsg[c].body \in Bodies /\ user[c].udb \in Ready
    BY <1>4 DEF Handle, HandlersReady, Awaited, Buffers, UserStates, Ready
  <2>2. out.udb.stage >= user[c].udb.stage /\ out.udb \in UserDb
    BY <2>1, ServeGrows, ServeType DEF Ready
  <2>3. user' = [user EXCEPT ![c].udb = out.udb, ![c].dirty = @ \/ out.dirty]
    BY <1>4 DEF Handle
  <2> HIDE DEF out
  <2>4. /\ user'[c].udb = out.udb /\ user'[c].ready /\ base' = base
        /\ \A d \in Conns : d # c => user'[d] = user[d]
    BY <1>4, <2>3 DEF Handle, UserStates
  <2>5. Ahead(out.udb, base[c])
    <3>1. user[c].udb.stage \in Nat /\ out.udb.stage \in Nat
      BY <2>2 DEF UserStates, UserDb
    <3>2. base[c] # NoDoc => base[c].stage \in Nat BY DEF UserDb
    <3> QED BY <1>4, <2>2, <3>1, <3>2 DEF Handle, GrowInv, Ahead
  <2> QED BY <1>2, <2>4, <2>5
<1>5. ASSUME LoginLoad(c) PROVE GrowInv'
  <2>1. PICK u \in LoginId(c) :
          /\ user' = [user EXCEPT ![c] =
                [uid |-> u, ready |-> TRUE, dirty |-> @.dirty \/ db[u] = NoDoc,
                 udb |-> LoginRefill(IF db[u] = NoDoc THEN userRegister ELSE db[u])]]
          /\ base' = [base EXCEPT ![c] = db[u]]
    BY <1>5 DEF LoginLoad
  <2>2. u \in Users BY DataAssumption DEF LoginId
  <2>3. Ahead(user'[c].udb, base'[c])
    <3>1. db[u] # NoDoc => db[u] \in UserDb BY <2>2
    <3>2. db[u] # NoDoc => LoginRefill(db[u]).stage = db[u].stage /\ db[u].stage \in Nat
      BY <3>1 DEF LoginRefill, UserDb
    <3>3. base'[c] = db[u] BY <2>1
    <3>4. db[u] # NoDoc => user'[c].udb = LoginRefill(db[u]) BY <2>1
    <3> QED BY <3>2, <3>3, <3>4 DEF Ahead
  <2>4. user'[c].ready /\ \A d \in Conns : d # c => user'[d] = user[d] /\ base'[d] = base[d]
    BY <2>1
  <2> QED BY <1>2, <2>3, <2>4
<1>6. ASSUME InsertOnline(c) PROVE GrowInv'
  <2>1. user[c].udb \in UserDb BY DEF UserStates
  <2>2. FillLock(user[c].udb).stage = user[c].udb.stage BY <2>1 DEF FillLock, UserDb
  <2>3. /\ user'[c].udb.stage = user[c].udb.stage
        /\ user'[c].ready = user[c].ready /\ user'[c].dirty = user[c].dirty
        /\ base' = base /\ \A d \in Conns : d # c => user'[d] = user[d]
    BY <1>6, <2>2 DEF InsertOnline, UserStates, history
  <2> QED BY <1>2, <2>3 DEF GrowInv, Ahead
<1>7. ASSUME Store(c) PROVE GrowInv'
  <2>1. user' = user BY <1>7 DEF Store
  <2>2. base'[c] = base[c] \/ base'[c] = user[c].udb BY <1>7 DEF Store
  <2>3. user[c].udb.stage \in Nat BY DEF UserStates, UserDb
  <2>4. \A d \in Conns : d # c => base'[d] = base[d] BY <1>7 DEF Store
  <2> QED BY <1>2, <2>1, <2>2, <2>3, <2>4 DEF GrowInv, Ahead
<1> QED BY <1>1, <1>3, <1>4, <1>5, <1>6, <1>7 DEF Main

LEMMA CallbackGrows ==
  ASSUME IInv, GrowInv, NEW g \in Grants, Callback(g) PROVE GrowInv'
<1> USE DEF IInv, TypeOK, GrantGoto
<1>0. UNCHANGED <<user, base>>
  BY DEF Callback, FindOnline, SendCredit, GrantLoad, GrantStore, GrantDbFails,
         history
<1>1. ASSUME FindOnline(g) \/ SendCredit(g) \/ GrantStore(g) \/ GrantDbFails(g)
      PROVE  GrowInv'
  <2>1. \A h \in Grants : grant'[h] = grant[h] \/ grant'[h].pc # "store"
    BY <1>1 DEF FindOnline, SendCredit, GrantStore, GrantDbFails, GrantStates
  <2> QED BY <1>0, <2>1, GrowFrame
<1>2. ASSUME GrantLoad(g) PROVE GrowInv'
  <2> DEFINE old == db[GrantUser[g]]
  <2>1. GrantUser[g] \in Users /\ GrantAmount[g] \in Int BY DataAssumption
  <2>2. \A h \in Grants : h # g => grant'[h] = grant[h] BY <1>2 DEF GrantLoad
  <2>3. /\ grant'[g].base = old
        /\ old # NoDoc => grant'[g].copy = AddHeart(old, GrantAmount[g])
    BY <1>2 DEF GrantLoad, GrantStates
  <2>4. old # NoDoc => old \in UserDb BY <2>1
  <2>5. old # NoDoc => /\ AddHeart(old, GrantAmount[g]).stage = old.stage
                       /\ old.stage \in Nat
    BY <2>1, <2>4, AddHeartType DEF UserDb
  <2>6. Ahead(grant'[g].copy, grant'[g].base) BY <2>3, <2>5 DEF Ahead
  <2> QED BY <1>0, <2>2, <2>6 DEF GrowInv, Ahead
<1> QED BY <1>1, <1>2 DEF Callback

LEMMA StepGrows == ASSUME IInv, GrowInv, [Next]_vars PROVE GrowInv'
<1>1. ASSUME UNCHANGED vars PROVE GrowInv'
  BY <1>1, GrowFrame DEF vars, history
<1>2. ASSUME NEW c \in Conns, Client(c) \/ Reader(c) PROVE GrowInv'
  <2>1. UNCHANGED <<user, base, grant>>
    BY <1>2 DEF Client, Connect, ClientSend, ClientLeave, Reader, ReadBody,
                ReadHeader, PushRequest, ReadError, PushNil, history
  <2> QED BY <2>1, GrowFrame
<1>3. ASSUME Crash PROVE GrowInv'
  <2>1. UNCHANGED <<user, base>> BY <1>3 DEF Crash, history
  <2>2. \A g \in Grants : grant'[g] = grant[g] \/ grant'[g].pc # "store"
    BY <1>3 DEF Crash, IInv, TypeOK, GrantStates
  <2> QED BY <2>1, <2>2, GrowFrame
<1> QED BY <1>1, <1>2, <1>3, MainGrows, CallbackGrows DEF Next, Finished

(* The database changes in three places only; each of them writes a copy     *)
(* that is ahead of what it was made from, so a stage is lost only where the *)
(* document is no longer what the copy was made from.                        *)
LEMMA WriteShape ==
  ASSUME IInv, Next, NEW u \in Users, db'[u] # db[u]
  PROVE  \/ \E c \in Conns : /\ main[c] = "store" /\ main'[c] = "send"
                             /\ user[c].dirty
                             /\ user[c].uid = u /\ db'[u] = user[c].udb
         \/ \E g \in Grants : /\ grant[g].pc = "store" /\ grant'[g].pc = "done"
                              /\ GrantUser[g] = u /\ db'[u] = grant[g].copy
<1> USE DEF IInv, TypeOK
<1>1. ASSUME NEW c \in Conns, Main(c)
      PROVE  /\ main[c] = "store" /\ main'[c] = "send" /\ user[c].dirty
             /\ user[c].uid = u /\ db'[u] = user[c].udb
  <2>1. Store(c) \/ StoreFails(c)
    BY <1>1 DEF Main, TopOfLoop, TakeRequest, TakeCredit, procTimeout, Dispatch,
         KickStranger, Handle, LoginLoad, LoginLoadFails, InsertOnline,
         SendReply, Unregister, Close
  <2> QED BY <2>1 DEF Store, StoreFails, Goto
<1>2. ASSUME NEW g \in Grants, Callback(g)
      PROVE  /\ grant[g].pc = "store" /\ grant'[g].pc = "done"
             /\ GrantUser[g] = u /\ db'[u] = grant[g].copy
  <2>1. GrantStore(g)
    BY <1>2 DEF Callback, FindOnline, SendCredit, GrantLoad, GrantDbFails
  <2>2. grant[g] \in GrantStates OBVIOUS
  <2>3. grant'[g].pc = "done" BY <2>1, <2>2 DEF GrantStore, GrantGoto, GrantStates
  <2> QED BY <2>1, <2>3 DEF GrantStore
<1>3. ASSUME NEW c \in Conns, Client(c) \/ Reader(c) PROVE FALSE
  BY <1>3 DEF Client, Connect, ClientSend, ClientLeave, Reader, ReadBody,
              ReadHeader, PushRequest, ReadError, PushNil
<1>4. ~Crash /\ ~Finished BY DEF Crash, Finished, vars
<1> QED BY <1>1, <1>2, <1>3, <1>4 DEF Next

(* A document loses a stage only to a copy that another write had made       *)
(* stale, whatever fails and whoever writes at the same time                 *)
(* (user.go:57-84, 318-342).                                                 *)
THEOREM ProgressLostOnlyToStaleCopyAlways == Spec => ProgressLostOnlyToStaleCopy
<1> DEFINE Lost == \A u \in Users : Regresses(db[u], db'[u]) => StaleCopy(u)
<1>1. ASSUME IInv, GrowInv, Next PROVE Lost
  <2> SUFFICES ASSUME NEW u \in Users, Regresses(db[u], db'[u]), ~StaleCopy(u)
               PROVE  FALSE
    OBVIOUS
  <2>1. db[u] # NoDoc /\ db[u].stage \in Nat
    BY <1>1 DEF Regresses, IInv, TypeOK, UserDb
  <2>2. db'[u] # db[u] BY <2>1 DEF Regresses
  <2>3. ASSUME NEW c \in Conns, main[c] = "store", main'[c] = "send",
               user[c].dirty, user[c].uid = u, db'[u] = user[c].udb
        PROVE  FALSE
    <3>1. base[c] = db[u] BY <2>3 DEF StaleCopy
    <3>2. user[c].udb \in UserDb BY <1>1 DEF IInv, TypeOK, UserStates
    <3>3. db[u].stage <= user[c].udb.stage
      BY <1>1, <2>1, <2>3, <3>1 DEF GrowInv, Ahead
    <3>4. user[c].udb # NoDoc /\ user[c].udb.stage \in Nat
      BY <3>2, NamesAssumption DEF UserDb
    <3> QED BY <2>1, <2>3, <3>3, <3>4 DEF Regresses
  <2>4. ASSUME NEW g \in Grants, grant[g].pc = "store", grant'[g].pc = "done",
               GrantUser[g] = u, db'[u] = grant[g].copy
        PROVE  FALSE
    <3>1. grant[g].base = db[u] BY <2>4 DEF StaleCopy
    <3>2. grant[g].copy \in UserDb BY <1>1 DEF IInv, TypeOK, GrantStates
    <3>3. db[u].stage <= grant[g].copy.stage
      BY <1>1, <2>1, <2>4, <3>1 DEF GrowInv, Ahead
    <3>4. grant[g].copy # NoDoc /\ grant[g].copy.stage \in Nat
      BY <3>2, NamesAssumption DEF UserDb
    <3> QED BY <2>1, <2>4, <3>3, <3>4 DEF Regresses
  <2> QED BY <1>1, <2>2, <2>3, <2>4, WriteShape
<1>2. Init => GrowInv BY InitGrows
<1>3. IInv /\ GrowInv /\ [Next]_vars => GrowInv' BY StepGrows
<1>4. IInv /\ GrowInv /\ [Next]_vars => [Lost]_vars BY <1>1
<1> QED BY <1>2, <1>3, <1>4, Inductive, PTL DEF Spec, ProgressLostOnlyToStaleCopy
=============================================================================
