------------------------------ MODULE GameClient ------------------------------
(* The game client's side of a session: MyDelegate, which matches replies to *)
(* requests, the five scenes that send and wait, and the hearts bought in    *)
(* the shop, against a server that serves the requests of a connection one   *)
(* by one, and goes on with what it had received when the client has left    *)
(* (its inside is GameServer's subject).                                     *)
(*                                                                           *)
(* A handler runs to its end on the UI thread: a touch, a timer, a message   *)
(* or a notification of the store.  The text boxes shown while waiting are   *)
(* not touchable, so every button works while a request is out.              *)
EXTENDS UserRecord

CONSTANTS
  Girls,             \* the stages on the selection screen, 1..6 in the code
  NETWORK_TIMEOUT,   \* ticks before CheckRecv gives up (10)
  SCHEDULE_TIMEOUT,  \* ticks a scene's timer repeats (15)
  FirstDocs,         \* the documents a known player may start with
  Devices,           \* to start from: whether the device has saved a user id
  Queued,            \* and how many purchases its queue holds from before
  PurchaseHearts,    \* the hearts of the product
  MaxAttempts,       \* bound: connections the client opens
  MaxSends,          \* bound: requests on the first connection; each
                     \* further one has one less
  MaxBuys            \* bound: purchases

ASSUME ClientAssumption ==
  /\ Girls \subseteq Stages /\ 1 \in Girls
  /\ NETWORK_TIMEOUT \in Nat \ {0} /\ SCHEDULE_TIMEOUT \in Nat
  /\ NETWORK_TIMEOUT <= SCHEDULE_TIMEOUT
  /\ FirstDocs \subseteq UserDb /\ FirstDocs # {} /\ Devices \subseteq BOOLEAN
  /\ Queued \subseteq Nat
  /\ \A d \in FirstDocs : d.lock # <<>>
  /\ PurchaseHearts \in Nat
  /\ MaxAttempts \in Nat /\ MaxSends \in Nat /\ MaxBuys \in Nat \ {0}

VARIABLES
  scene,     \* the running scene and its members
  delegate,  \* MyDelegate
  user,      \* User::CurrentUser()
  gotostart, \* gotostartscene
  shop,      \* iap_, in_iap_ and the scene the helper would call back
  pending,   \* transactions the payment queue of the system holds
  conn, up, down,  \* the websocket and what is under way on it
  sess,            \* the server: the session on this connection, ...
  docs,            \* ... all documents, ...
  old,             \* ... and what it may still serve of connections left
  attempts,        \* connections opened
  tally            \* history: what was entered and used without being
                   \* charged for, and what excuses it

net == <<conn, up, down>>
server == <<sess, docs, old>>
vars == <<scene, delegate, user, gotostart, shop, pending, net, server,
          attempts, tally>>

Scenes == {"start", "game", "play", "event", "shop"}

(* login: 0 to open, 1 to log in, 2 logged in, 3 refused.  ready: BtnPlay is *)
(* enabled.  poll: ticks left.  cmd and prop: PlayScene's cmd_ and           *)
(* property_state_.  won: 1 after EndPlay was sent, 2 when it pops up.       *)
(* want: history, the stage GameScene last asked for.                        *)
NewScene(at) == [at |-> at, stage |-> 1, login |-> 0, ready |-> FALSE, poll |-> 0,
                 cmd |-> 0, prop |-> -1, back |-> FALSE, won |-> 0, want |-> 0]
FreshDelegate == [freed |-> FALSE, target |-> "start", here |-> TRUE,
                  flag |-> FALSE, count |-> 0, seq |-> 1, last |-> 0]
(* unpaid: entries less charges, and owed: those of one stage.  strays:      *)
(* entries of another stage than the one last asked for.  unheard: purchases *)
(* that took the player on before the login was answered.  unfinished: those *)
(* announced by an app that died before it took them off the queue.          *)
NoTally == [unpaid |-> 0, owed |-> [s \in Girls |-> 0], strays |-> 0,
            strangers |-> 0, items |-> 0, itemsPaid |-> 0, refused |-> 0,
            bought |-> 0, credited |-> 0, overtaken |-> 0, opens |-> 0,
            unheard |-> 0, unfinished |-> 0, err |-> kErrNone]
NewUser == [uid |-> 0, heart |-> 0, stage |-> 1, lock |-> FreshLock]
ClosedShop == [iap |-> FALSE, busy |-> FALSE, target |-> "none"]

(* The server's User of a connection; uid 0 before the login.                *)
NoSession == [uid |-> 0, udb |-> userRegister, dirty |-> FALSE]

(* A reply's Heart may not fit the client's int (the JSON library of         *)
(* cocos2d-x; a value out of range is read as the same 32 bits).             *)
asInt(h) == IF h < UintMod \div 2 THEN h ELSE h - UintMod

-----------------------------------------------------------------------------
(* Scenes and the delegate.                                                  *)

ScheduleAgain(s) == [s EXCEPT !.poll = @ + SCHEDULE_TIMEOUT + 1] \* a mutant
Schedule(s) == IF s.poll = 0 THEN [s EXCEPT !.poll = SCHEDULE_TIMEOUT + 1] ELSE s

(* replaceScene: the timers of the old scene go with it, and a delegate that *)
(* would call it back is left with a pointer to nothing.                     *)
Leave(d) == [d EXCEPT !.here = FALSE]

Transmitted(c, f, d) ==
  IF conn = "open"
  THEN Append(up, [cmd |-> c, seq |-> d.seq, uid |-> user.uid, body |-> f])
  ELSE up
Transmit(c, f, d) == up' = Transmitted(c, f, d)

MaySend(d) == d.seq + attempts <= MaxSends + 1

SendServerKeepsFlag(c, f, d, tgt) ==                            \* a mutant
  /\ MaySend(d) /\ Transmit(c, f, d)
  /\ delegate' = [d EXCEPT !.last = d.seq, !.seq = @ + 1, !.count = 0,
                           !.target = tgt, !.here = tgt # "none"]
SendServer(c, f, d, tgt) ==
  /\ MaySend(d) /\ Transmit(c, f, d)
  /\ delegate' = [d EXCEPT !.last = d.seq, !.seq = @ + 1, !.flag = FALSE,
                           !.count = 0, !.target = tgt, !.here = tgt # "none"]

Body(f) == [k \in BodyKeys |-> IF k \in DOMAIN f THEN f[k] ELSE Absent]

(* The connection is given up.  Its session on the server is not: that may   *)
(* still serve the requests q that were under way to it.                     *)
GiveUp(q) ==
  /\ old' = IF conn = "open" /\ q # <<>>
            THEN old \cup {[no |-> attempts, sess |-> sess, up |-> q]} ELSE old
  /\ up' = <<>> /\ down' = <<>> /\ sess' = NoSession

(* CAWS::Release, a new StartScene, and its onEnter: a new CAWS.             *)
Restart ==
  /\ attempts < MaxAttempts
  /\ attempts' = attempts + 1
  /\ scene' = Schedule(NewScene("start"))
  /\ delegate' = FreshDelegate
  /\ gotostart' = FALSE
  /\ conn' = "connecting" /\ GiveUp(up)

(* GotoStartSceneIfError.                                                    *)
GotoStartSceneIfError ==
  gotostart /\ Restart /\ UNCHANGED <<user, shop, pending, docs, tally>>

Goto(at) ==
  /\ scene' = NewScene(at)
  /\ delegate' = Leave(delegate)
  /\ UNCHANGED <<user, gotostart, pending, net, server, attempts, tally>>

(* PlayScene::create leaves cmd_ as the memory it got has it.                *)
GotoPlay(i) ==
  /\ \E garbage \in {0, kCmdEndPlay, kCmdUseItem} :
       scene' = [NewScene("play") EXCEPT !.stage = i, !.cmd = garbage]
  /\ delegate' = Leave(delegate)
  /\ UNCHANGED <<user, gotostart, shop, pending, net, server, attempts>>

Init ==
  /\ scene = Schedule(NewScene("start"))
  /\ delegate = FreshDelegate
  /\ \E known \in Devices :
       /\ user = [NewUser EXCEPT !.uid = IF known THEN 1 ELSE 0]
       /\ docs \in IF known THEN {<<d>> : d \in FirstDocs} ELSE {<<>>}
  /\ gotostart = FALSE
  /\ shop = ClosedShop /\ pending \in Queued
  /\ conn = "connecting" /\ up = <<>> /\ down = <<>>
  /\ sess = NoSession /\ old = {}
  /\ attempts = 1
  /\ tally = [NoTally EXCEPT !.bought = pending]

-----------------------------------------------------------------------------
(* The websocket's callbacks.                                                *)

(* Only StartScene has a CAOpen; but whatever scene has sent since, into a   *)
(* socket that was not open, has the flag set for it.                        *)
onOpen ==
  /\ conn = "connecting"
  /\ conn' = "open"
  /\ IF delegate.target = "none" THEN UNCHANGED delegate
     ELSE delegate' = [delegate EXCEPT !.flag = TRUE]
  /\ scene' = IF delegate.target = "start" THEN [scene EXCEPT !.login = 1] ELSE scene
  /\ tally' = IF delegate.target \in {"start", "none"} THEN tally
              ELSE [tally EXCEPT !.opens = @ + 1]
  /\ UNCHANGED <<user, gotostart, shop, pending, up, down, server, attempts>>

(* onClose and onError: the delegate deletes itself; CAWS still points to it.*)
onClose ==
  /\ conn \in {"connecting", "open", "kicked"}
  /\ conn' = "closed" /\ GiveUp(up)
  /\ gotostart' = TRUE
  /\ delegate' = [delegate EXCEPT !.freed = TRUE]
  /\ UNCHANGED <<scene, user, shop, pending, docs, attempts, tally>>

Heart(r) == IF r.bare THEN 0 ELSE asInt(r.doc.heart)
Stage(r) == IF r.bare THEN 1 ELSE r.doc.stage

(* CARecv of the scene that asked: what it does to the player, ...           *)
Heard(u, at, r) ==
  CASE r.err # kErrNone -> u
    [] r.err = kErrNone /\ at = "start" ->
         [uid |-> IF u.uid = 0 THEN r.uid ELSE u.uid,
          heart |-> Heart(r), stage |-> Stage(r), lock |-> r.doc.lock]
    [] r.err = kErrNone /\ at = "event" ->
         [u EXCEPT !.heart = Heart(r),
                   !.lock = IF r.bare THEN [@ EXCEPT ![1] = 1]
                            ELSE [@ EXCEPT ![r.sid] = r.doc.lock[r.sid]]]
    [] r.err = kErrNone /\ (at = "game" \/ (at = "play" /\ r.cmd = kCmdEndPlay)) ->
         [u EXCEPT !.heart = Heart(r), !.stage = Stage(r)]
    [] r.err = kErrNone /\ at = "play" /\ r.cmd # kCmdEndPlay ->
         [u EXCEPT !.heart = Heart(r)]

(* ... and to the scene itself.                                              *)
Told(s, r) ==
  CASE s.at = "start" -> [s EXCEPT !.login = IF r.err = kErrNone THEN 2 ELSE 3]
    [] s.at = "play" /\ r.err = kErrNone -> [s EXCEPT !.cmd = r.cmd]
    [] OTHER -> s

Deliver(r) ==
  LET at == delegate.target
  IN IF at = "none" THEN UNCHANGED <<delegate, scene, user, gotostart, tally>>
     ELSE /\ delegate' = [delegate EXCEPT !.flag = TRUE]
          /\ scene' = IF delegate.here THEN Told(scene, r) ELSE scene
          /\ user' = Heard(user, at, r)
          /\ gotostart' = (gotostart \/ (r.err # kErrNone /\ at \in {"game", "event"}))
          /\ tally' = [tally EXCEPT !.err = r.err,
                         !.refused = @ + (IF at = "play" /\ r.err # kErrNone THEN 1 ELSE 0)]

onMessageAnySeq ==                                              \* a mutant
  /\ down # <<>> /\ down' = Tail(down)
  /\ Deliver(Head(down))
  /\ UNCHANGED <<shop, pending, conn, up, server, attempts>>
onMessage ==
  /\ down # <<>> /\ down' = Tail(down)
  /\ IF Head(down).seq = delegate.last THEN Deliver(Head(down))
     ELSE UNCHANGED <<delegate, scene, user, gotostart, tally>>
  /\ UNCHANGED <<shop, pending, conn, up, server, attempts>>

-----------------------------------------------------------------------------
(* The scene's timer: CheckRecv, and with it CARecvDone or CARecvTimeout.    *)
(* StartScene alone ignores what CheckRecv returns.                          *)

Ticking == scene.poll > 0
Unpolled(s) == [s EXCEPT !.poll = 0]
Rest == <<shop, pending, conn, down, server, attempts>>

StartDone ==
  /\ Ticking /\ delegate.flag /\ scene.at = "start"
  /\ \/ GotoStartSceneIfError
     \/ /\ ~gotostart /\ scene.login = 1
        /\ SendServer(kCmdUserLogin, NoBody, delegate, "start")
        /\ scene' = Schedule(Unpolled(scene))
        /\ UNCHANGED <<user, gotostart, tally, Rest>>
     \/ /\ ~gotostart /\ scene.login # 1
        /\ scene' = IF scene.login = 2 THEN [Unpolled(scene) EXCEPT !.ready = TRUE]
                                       ELSE [scene EXCEPT !.poll = @ - 1]
        /\ UNCHANGED <<delegate, up, user, gotostart, tally, Rest>>

GameDone ==
  /\ Ticking /\ delegate.flag /\ scene.at = "game"
  /\ \/ GotoStartSceneIfError
     \/ /\ ~gotostart
        /\ GotoPlay(scene.stage)
        /\ tally' = [tally EXCEPT !.unpaid = @ + 1, !.owed[scene.stage] = @ + 1,
                         !.strays = @ + (IF scene.stage = scene.want THEN 0 ELSE 1)]

(* PlayScene acts on cmd_, which a refused request has not touched.          *)
ActOnCmd(s) ==
  CASE s.cmd = kCmdEndPlay -> [s EXCEPT !.back = TRUE]
    [] s.cmd = kCmdUseItem -> [s EXCEPT !.prop = -1]
    [] OTHER -> s
PlayDoneKeepsPolling ==                                         \* a mutant
  /\ Ticking /\ delegate.flag /\ scene.at = "play"
  /\ scene' = [ActOnCmd(scene) EXCEPT !.poll = @ - 1]
  /\ tally' = IF scene.cmd = kCmdUseItem THEN [tally EXCEPT !.items = @ + 1] ELSE tally
  /\ UNCHANGED <<delegate, up, user, gotostart, Rest>>
PlayDone ==
  /\ Ticking /\ delegate.flag /\ scene.at = "play"
  /\ scene' = Unpolled(ActOnCmd(scene))
  /\ tally' = IF scene.cmd = kCmdUseItem THEN [tally EXCEPT !.items = @ + 1] ELSE tally
  /\ UNCHANGED <<delegate, up, user, gotostart, Rest>>

EventDone ==
  /\ Ticking /\ delegate.flag /\ scene.at = "event"
  /\ \/ GotoStartSceneIfError
     \/ /\ ~gotostart
        /\ scene' = Unpolled(scene)
        /\ UNCHANGED <<delegate, up, user, gotostart, tally, Rest>>

Wait ==
  /\ Ticking /\ ~delegate.flag /\ delegate.count + 1 < NETWORK_TIMEOUT
  /\ delegate' = [delegate EXCEPT !.count = @ + 1]
  /\ scene' = [scene EXCEPT !.poll = @ - 1]
  /\ UNCHANGED <<up, user, gotostart, tally, Rest>>

CARecvTimeoutIgnored ==                                         \* a mutant
  /\ Ticking /\ ~delegate.flag /\ delegate.count + 1 >= NETWORK_TIMEOUT
  /\ delegate' = [delegate EXCEPT !.count = @ + 1]
  /\ scene' = [scene EXCEPT !.poll = @ - 1]
  /\ UNCHANGED <<up, user, gotostart, tally, Rest>>

CARecvTimeout ==
  /\ Ticking /\ ~delegate.flag /\ delegate.count + 1 >= NETWORK_TIMEOUT
  /\ \/ /\ scene.at = "start" /\ (gotostart \/ scene.login \in {0, 1})
        /\ Restart
        /\ UNCHANGED <<user, shop, pending, docs, tally>>
     \/ /\ \/ scene.at = "start" /\ ~gotostart /\ scene.login \notin {0, 1}
           \/ scene.at # "start"
        /\ delegate' = [delegate EXCEPT !.count = @ + 1]
        /\ scene' = IF scene.at = "start" THEN [scene EXCEPT !.poll = @ - 1]
                                          ELSE Unpolled(scene)
        /\ UNCHANGED <<up, user, gotostart, tally, Rest>>

Tick == StartDone \/ GameDone \/ PlayDone \/ EventDone \/ Wait \/ CARecvTimeout

-----------------------------------------------------------------------------
(* Buttons.                                                                  *)

(* SendServer from a scene, and the timer that waits for the answer.         *)
Ask(c, f, s) ==
  /\ SendServer(c, f, delegate, s.at)
  /\ scene' = Schedule(s)
  /\ UNCHANGED <<user, gotostart, tally, Rest>>

StartBtnPlay ==
  /\ scene.at = "start" /\ scene.ready
  /\ GotoStartSceneIfError \/ (~gotostart /\ Goto("game") /\ UNCHANGED shop)

OnBtnGirl ==
  /\ scene.at = "game"
  /\ \E i \in Girls \ {scene.stage} : scene' = [scene EXCEPT !.stage = i]
  /\ UNCHANGED <<delegate, up, user, gotostart, tally, Rest>>

GameBtnPlay ==
  /\ scene.at = "game"
  /\ \/ GotoStartSceneIfError
     \/ /\ ~gotostart /\ user.heart >= StageHeartConfig[scene.stage]
        /\ Ask(kCmdStartPlay, Body([stageid |-> scene.stage]),
               [scene EXCEPT !.want = scene.stage])

(* The selection screen numbers the third and the sixth girl the other way.  *)
EventStage(i) == CASE i = 3 -> 6 [] i = 6 -> 3 [] OTHER -> i
GameBtnEvent ==
  /\ scene.at = "game" /\ scene.stage < user.stage
  /\ scene' = [NewScene("event") EXCEPT !.stage = EventStage(scene.stage)]
  /\ delegate' = Leave(delegate)
  /\ UNCHANGED <<up, user, gotostart, tally, Rest>>

(* ProductList registers for the store's transactions the first time.        *)
GotoShop ==
  /\ \/ scene.at = "game"
     \/ (scene.at = "event" /\ user.heart < 12)
  /\ Goto("shop")
  /\ shop' = [shop EXCEPT !.iap = TRUE]

EventBtnYes ==
  /\ scene.at = "event" /\ user.heart >= 12
  /\ Ask(kCmdEventLock, Body([stageid |-> scene.stage,
                              eventid |-> user.lock[scene.stage] + 1]), scene)

(* onBtnBack of EventScene and PlayScene; PlayScene's onPanelSecond after a  *)
(* lost round; its onPopBack once the end of the game has been answered.     *)
BackToGame ==
  /\ scene.at \in {"event", "play"}
  /\ Goto("game") /\ UNCHANGED shop

PlayBtnStartPlay ==
  /\ scene.at = "play" /\ GotoStartSceneIfError

UseFingerOrReplay ==
  /\ scene.at = "play" /\ scene.won = 0
  /\ \E item \in {7, scene.stage} :
       Ask(kCmdUseItem, Body([itemid |-> item]), [scene EXCEPT !.prop = item])

SendEndPlay ==
  /\ scene.at = "play" /\ scene.won = 0
  /\ Ask(kCmdEndPlay, Body([stageid |-> scene.stage, pass |-> 1]),
         [scene EXCEPT !.won = 1])

onBtnClothesEarly ==                                            \* a mutant
  /\ scene.at = "play" /\ scene.won \in {0, 1}
  /\ scene' = [scene EXCEPT !.won = 2]
  /\ user' = [user EXCEPT !.stage = scene.stage + 1]
  /\ UNCHANGED <<delegate, up, gotostart, tally, Rest>>

(* The last garment: the player's stage is set to the one after this.        *)
onBtnClothes ==
  /\ scene.at = "play" /\ scene.won = 1
  /\ scene' = [scene EXCEPT !.won = 2]
  /\ user' = [user EXCEPT !.stage = scene.stage + 1]
  /\ UNCHANGED <<delegate, up, gotostart, tally, Rest>>

-----------------------------------------------------------------------------
(* The shop.                                                                 *)

(* ProductBuy says no while the list has not come, and yes for a product the *)
(* list lacks.                                                               *)
onBtnSale ==
  /\ scene.at = "shop" /\ ~shop.busy
  /\ \E says \in BOOLEAN, n \in {0, 1} :
       /\ n = 1 => says /\ tally.bought < MaxBuys
       /\ pending' = pending + n
       /\ tally' = [tally EXCEPT !.bought = @ + n]
       /\ shop' = [shop EXCEPT !.busy = says, !.target = "here"]
  /\ UNCHANGED <<scene, delegate, user, gotostart, net, server, attempts>>

Gone(target) == IF target = "none" THEN "none" ELSE "gone"
ShopBtnBack ==
  /\ scene.at = "shop" /\ ~shop.busy
  /\ Goto("game")
  /\ shop' = [shop EXCEPT !.target = Gone(@)]

(* A transaction completes, in whatever scene the player has got to.         *)
Credit ==
  /\ pending > 0 /\ shop.iap
  /\ SendServer(kCmdIAPAddHeart, Body([addheart |-> PurchaseHearts]), delegate, "none")
  /\ user' = [user EXCEPT !.heart = @ + PurchaseHearts]
  /\ shop' = [shop EXCEPT !.busy = FALSE, !.target = Gone(@)]
  /\ tally' = IF scene.at = "start" /\ scene.login # 2
              THEN [tally EXCEPT !.unheard = @ + 1] ELSE tally
  /\ UNCHANGED <<gotostart, conn, down, server, attempts>>

CAProductByNotifyStays ==                                       \* a mutant
  Credit /\ pending' = pending - 1 /\ UNCHANGED scene
CAProductByNotifyUnfinished ==                                  \* a mutant
  Credit /\ UNCHANGED pending /\ scene' = NewScene("game")
CAProductByNotify ==
  Credit /\ pending' = pending - 1 /\ scene' = NewScene("game")

ProductFailed ==
  /\ pending > 0 /\ shop.iap
  /\ pending' = pending - 1
  /\ tally' = [tally EXCEPT !.bought = @ - 1]
  /\ shop' = [shop EXCEPT !.busy = FALSE]
  /\ UNCHANGED <<scene, delegate, user, gotostart, net, server, attempts>>

-----------------------------------------------------------------------------
(* The server.                                                               *)

(* What it takes the next request of q for: its reader may have decoded the  *)
(* one behind it, or that one's body, over it.                               *)
Readings(q) ==
  {[m |-> Head(q), clean |-> TRUE]} \cup
  IF Len(q) < 2 THEN {}
  ELSE {[m |-> q[2], clean |-> FALSE],
        [m |-> [Head(q) EXCEPT !.body = MergeBody(@, q[2].body)], clean |-> FALSE]}

(* What a session s becomes by a request: an id that is new is the next      *)
(* document's, and a document once changed is written after every request.   *)
First(s, m) == s.uid = 0 /\ m.cmd = kCmdUserLogin
Asker(s, m) ==
  CASE s.uid # 0 -> s.uid
    [] s.uid = 0 /\ m.uid # 0 -> m.uid
    [] OTHER -> Len(docs) + 1
Result(s, m) ==
  CASE s.uid # 0 -> Serve(m.cmd, s.udb, m.body)
    [] s.uid = 0 /\ m.uid # 0 -> Unchanged(FillLock(LoginRefill(docs[m.uid])))
    [] OTHER -> Changed(FillLock(LoginRefill(userRegister)))
Served(s, m) == [uid |-> Asker(s, m), udb |-> Result(s, m).udb,
                 dirty |-> s.dirty \/ Result(s, m).dirty]
Stored(s) ==
  CASE ~s.dirty -> docs
    [] s.dirty /\ s.uid <= Len(docs) -> [docs EXCEPT ![s.uid] = s.udb]
    [] OTHER -> Append(docs, s.udb)
Fallible(s, m) == First(s, m) \/ (s.uid # 0 /\ Served(s, m).dirty)

Reply(m, err, u, doc, bare) ==
  [cmd |-> m.cmd, seq |-> m.seq, err |-> err, uid |-> u, doc |-> doc,
   sid |-> m.body["stageid"], bare |-> bare]

Answer(r) == down' = Append(down, r) /\ up' = Tail(up)

ServeUser(m) ==
  /\ sess.uid # 0 \/ First(sess, m)
  /\ sess' = Served(sess, m) /\ docs' = Stored(Served(sess, m))
  /\ Answer(Reply(m, Result(sess, m).err, Asker(sess, m), Result(sess, m).udb, FALSE))
  /\ UNCHANGED <<conn, old>>

ServeStranger(m) ==
  /\ sess.uid = 0 /\ ~First(sess, m)
  /\ Answer(Reply(m, kErrNone, 0, userRegister, TRUE))
  /\ conn' = "kicked"
  /\ UNCHANGED server

(* A database call fails, applied or not: the user is kicked.                *)
ServeFails(m) ==
  /\ Fallible(sess, m)
  /\ docs' \in {docs, Stored(Served(sess, m))}
  /\ Answer(Reply(m, kErrWriteDB, sess.uid, userRegister, TRUE))
  /\ conn' = "kicked"
  /\ UNCHANGED <<sess, old>>

One(b) == IF b THEN 1 ELSE 0
Count(rd, r) ==
  LET ok == sess.uid # 0 /\ r.err = kErrNone /\ r.bare = FALSE
  IN tally' = [tally EXCEPT
       !.overtaken = @ + One(~rd.clean),
       !.strangers = @ + One(r.bare /\ r.err = kErrNone),
       !.unpaid = @ - One(ok /\ r.cmd = kCmdStartPlay),
       !.owed = [s \in Girls |-> @[s] - One(ok /\ r.cmd = kCmdStartPlay /\ s = r.sid)],
       !.itemsPaid = @ + One(ok /\ r.cmd = kCmdUseItem),
       !.credited = @ + One(sess.uid # 0 /\ r.cmd = kCmdIAPAddHeart)]

ServeNext ==
  /\ conn = "open" /\ up # <<>>
  /\ \E rd \in Readings(up) :
       /\ ServeStranger(rd.m) \/ ServeUser(rd.m) \/ ServeFails(rd.m)
       /\ Count(rd, down'[Len(down')])
  /\ UNCHANGED <<scene, delegate, user, gotostart, shop, pending, attempts>>

(* The same for a connection the client has left: nobody hears the answer.   *)
(* After a kick nothing more of it is served.  A request that is never       *)
(* served was lost with the connection.                                      *)
Going(o, s) == IF Len(o.up) = 1 THEN {} ELSE {[o EXCEPT !.sess = s, !.up = Tail(@)]}
ServeOld ==
  /\ \E o \in old : \E rd \in Readings(o.up) :
       LET t == Served(o.sess, rd.m)
       IN /\ \/ /\ o.sess.uid # 0 \/ First(o.sess, rd.m)
                /\ docs' = Stored(t) /\ old' = (old \ {o}) \cup Going(o, t)
             \/ /\ o.sess.uid = 0 /\ ~First(o.sess, rd.m)
                /\ docs' = docs /\ old' = old \ {o}
             \/ /\ Fallible(o.sess, rd.m)
                /\ docs' \in {docs, Stored(t)} /\ old' = old \ {o}
          /\ tally' = [tally EXCEPT
               !.overtaken = @ + One(~rd.clean),
               !.credited = @ + One(o.sess.uid # 0 /\ rd.m.cmd = kCmdIAPAddHeart)]
  /\ UNCHANGED <<scene, delegate, user, gotostart, shop, pending, net, sess,
                 attempts>>

-----------------------------------------------------------------------------
(* The process.                                                              *)

(* What freed memory may do: a delegate that has deleted itself is polled or *)
(* sent through, a reply is handed to a scene that is gone, the shop's text  *)
(* box is taken off one that is.                                             *)
UsesFreed ==
  \/ /\ delegate.freed
     /\ Ticking \/ scene.at \in {"game", "play", "event"}
  \/ /\ down # <<>> /\ Head(down).seq = delegate.last
     /\ delegate.target # "none" /\ ~delegate.here
  \/ conn = "connecting" /\ delegate.target # "none" /\ ~delegate.here
  \/ pending > 0 /\ shop.iap /\ shop.target = "gone"

(* Only the user id was written to disk.                                     *)
Forget(u) == [NewUser EXCEPT !.uid = u.uid]
Stop(q) ==
  /\ scene.at # "off"
  /\ scene' = NewScene("off") /\ delegate' = FreshDelegate
  /\ user' = Forget(user) /\ gotostart' = FALSE /\ shop' = ClosedShop
  /\ conn' = "closed" /\ GiveUp(q)
  /\ UNCHANGED <<pending, docs, attempts>>

AppDies == UsesFreed /\ Stop(up) /\ UNCHANGED tally
Quit    == Stop(up) /\ UNCHANGED tally

(* completeTransaction announces the purchase and finishes it then.  If the  *)
(* app dies in between, the queue has the transaction still.                 *)
DiesUnfinished ==
  /\ pending > 0 /\ shop.iap /\ MaySend(delegate)
  /\ Stop(Transmitted(kCmdIAPAddHeart, Body([addheart |-> PurchaseHearts]), delegate))
  /\ tally' = [tally EXCEPT !.unfinished = @ + 1]

LaunchForgets ==                                                \* a mutant
  /\ scene.at = "off" /\ attempts < MaxAttempts
  /\ attempts' = attempts + 1
  /\ scene' = Schedule(NewScene("start"))
  /\ user' = NewUser
  /\ conn' = "connecting"
  /\ UNCHANGED <<delegate, gotostart, shop, pending, up, down, server, tally>>
Launch ==
  /\ scene.at = "off" /\ attempts < MaxAttempts
  /\ attempts' = attempts + 1
  /\ scene' = Schedule(NewScene("start"))
  /\ conn' = "connecting"
  /\ UNCHANGED <<delegate, user, gotostart, shop, pending, up, down, server, tally>>

Finished == scene.at = "off" /\ attempts = MaxAttempts /\ UNCHANGED vars

Network == onOpen \/ onClose \/ onMessage \/ ServeNext
Touch ==
  \/ StartBtnPlay \/ OnBtnGirl \/ GameBtnPlay \/ GameBtnEvent \/ GotoShop
  \/ EventBtnYes \/ BackToGame \/ PlayBtnStartPlay \/ UseFingerOrReplay
  \/ SendEndPlay \/ onBtnClothes \/ onBtnSale \/ ShopBtnBack
Store == CAProductByNotify \/ ProductFailed

Next ==
  \/ scene.at # "off" /\ (Network \/ Tick \/ Touch \/ Store)
  \/ AppDies \/ Quit \/ DiesUnfinished \/ Launch
  \/ ServeOld \/ Finished

Spec == Init /\ [][Next]_vars

(* The timers of the running scene fire.                                     *)
FairSpec == Spec /\ WF_vars(scene.at # "off" /\ Tick)

-----------------------------------------------------------------------------
SceneStates ==
  [at : Scenes \cup {"off"}, stage : Stages, login : 0..3, ready : BOOLEAN,
   poll : 0..(SCHEDULE_TIMEOUT + 1), cmd : Commands \cup {0},
   prop : -1..7, back : BOOLEAN, won : 0..2, want : 0..Len(StageHeartConfig)]
DelegateStates ==
  [freed : BOOLEAN, target : Scenes \cup {"none"}, here : BOOLEAN,
   flag : BOOLEAN, count : Nat, seq : Nat, last : Nat]
Sent == [cmd : Commands, seq : Nat, uid : Nat, body : Bodies]
Sessions == [uid : 0..Len(docs), udb : UserDb, dirty : BOOLEAN]

TypeOK ==
  /\ scene \in SceneStates
  /\ delegate \in DelegateStates
  /\ user \in [uid : Nat, heart : Int, stage : Nat, lock : [Stages -> Nat]]
  /\ gotostart \in BOOLEAN
  /\ shop \in [iap : BOOLEAN, busy : BOOLEAN, target : {"none", "here", "gone"}]
  /\ pending \in Nat
  /\ conn \in {"connecting", "open", "kicked", "closed"}
  /\ up \in Seq(Sent)
  /\ sess \in Sessions /\ docs \in Seq(UserDb)
  /\ old \subseteq [no : 1..attempts, sess : Sessions, up : Seq(Sent) \ {<<>>}]
  /\ attempts \in Nat \ {0}

(* A scene that waits is the scene the delegate will call back: CheckRecv's  *)
(* unguarded call on a timeout never meets NULL or a scene that is gone      *)
(* (start_scene.cpp:72-97).                                                  *)
PollingTargetHere ==
  scene.poll > 0 => delegate.here /\ delegate.target = scene.at

(* The start scene waits for the connection and for the login no longer than *)
(* its timer lasts: when the timer is over, the player may go on or has been *)
(* refused, and never just sits there (start_scene.cpp:233-312).             *)
StartSettles ==
  scene.at = "start" /\ scene.poll = 0 => scene.ready \/ scene.login = 3

(* Nobody plays without having paid: a play scene is entered once per start  *)
(* the server charged, or else on the empty reply that sends away a stranger *)
(* (game_scene.cpp:225-268, client.go:216-243).                              *)
PlayIsPaidFor ==
  tally.unpaid <= tally.strangers + tally.opens

(* ... and the stage entered is one the server charged for: the only other   *)
(* excuse is that the girl last tapped is not the one last asked for         *)
(* (game_scene.cpp:225-231).                                                 *)
StageIsPaidFor ==
  \A s \in Girls :
    tally.owed[s] <= tally.strays + tally.strangers + tally.opens

(* Fingers and replays take effect once per item charged; but a refused      *)
(* request is acted on as the one before it was (play_scene.cpp:78-118).     *)
ItemsArePaidFor ==
  tally.items <=
    tally.itemsPaid + tally.strangers + tally.refused + tally.opens

(* Once the newest request has been answered well and nothing is under way,  *)
(* the client shows the hearts its session has (start_scene.cpp:58-97).      *)
Quiet == conn = "open" /\ up = <<>> /\ down = <<>> /\ sess.uid # 0
HeartsAgree ==
  Quiet /\ delegate.flag /\ tally.err = kErrNone =>
    user.uid = sess.uid /\ user.heart = asInt(sess.udb.heart)

(* ... nor does it offer a stage the server would refuse, although the last  *)
(* garment moves the client's stage on by itself (play_scene.cpp:165-184):   *)
(* unless EndPlay was one of the requests read over, or was sent from a      *)
(* stage entered without a charge for it, or the answer to the login was     *)
(* never heard.                                                              *)
StageExcused ==
  tally.overtaken + tally.strays + tally.strangers + tally.opens + tally.unheard > 0

StageNeverAhead ==
  Quiet /\ delegate.flag /\ tally.err = kErrNone /\ ~StageExcused =>
    user.stage <= sess.udb.stage

(* A purchase is credited at most once, however often connections are lost   *)
(* and what was left on them is still served; except that the server may     *)
(* read one request over another, and that a purchase announced by an app    *)
(* that died before it had finished the transaction is announced again       *)
(* (IAPHelper.m:130-135, shop_scene.cpp:121-153).                            *)
PurchaseCreditedOnce ==
  tally.credited <= tally.bought + tally.overtaken + tally.unfinished

(* Once its login has been answered a device keeps that account: no step,    *)
(* restart or launch loses the id.  And the server makes it another only for *)
(* a login the device sent while it had none, over a connection it has left  *)
(* since (start_scene.cpp:252-257, 273; user.cpp:97-118; client.go:186-233). *)
Nameless(o) ==
  /\ o.sess.uid = 0
  /\ \E i \in DOMAIN o.up : o.up[i].cmd = kCmdUserLogin /\ o.up[i].uid = 0

AccountKept ==
  [][user.uid # 0 =>
       /\ user'.uid = user.uid
       /\ Len(docs') # Len(docs) => \E o \in old \ old' : Nameless(o)]_vars

(* The start scene comes to an end: the player may go on, has been refused,  *)
(* or another connection is tried (start_scene.cpp:265-312).                 *)
StartEnds ==
  \A a \in 1..(MaxAttempts - 1) :
    scene.at = "start" /\ attempts = a
      ~> scene.ready \/ scene.login = 3 \/ scene.at # "start" \/ attempts # a

(* "if disconnect, goto start scene" (start_scene.cpp:36), of a scene whose  *)
(* timer is running and runs out.                                            *)
DisconnectLeadsToStart ==
  conn = "closed" /\ Ticking /\ attempts < MaxAttempts
    ~> scene.at \in {"start", "off"}
=============================================================================
