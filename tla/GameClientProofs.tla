-------------------------- MODULE GameClientProofs --------------------------
(* What holds of GameClient for every player, price, timeout and bound.      *)
EXTENDS GameClient, UserRecordProofs, FiniteSetTheorems

-----------------------------------------------------------------------------
(* The inductive invariant, in parts.                                        *)

(* Types, with those of what TypeOK leaves out.                              *)
Answered ==
  {r \in [cmd : Commands, seq : Nat, err : ErrorCodes, uid : Nat, doc : UserDb,
          sid : Stages \cup {Absent}, bare : BOOLEAN] :
     /\ ~r.bare => r.doc \in Ready
     /\ r.bare /\ r.err = kErrNone => r.cmd # kCmdUserLogin}
Tallies ==
  [unpaid : Int, owed : [Girls -> Int], strays : Nat, strangers : Nat,
   items : Nat, itemsPaid : Nat, refused : Nat, bought : Int, credited : Nat,
   overtaken : Nat, opens : Nat, unheard : Nat, unfinished : Nat,
   err : ErrorCodes]
Loaded(s) == s.uid # 0 => s.udb \in Ready

Types ==
  /\ TypeOK
  /\ down \in Seq(Answered)
  /\ docs \in Seq(Ready)
  /\ Loaded(sess) /\ \A o \in old : Loaded(o.sess)
  /\ tally \in Tallies
  /\ scene.at = "game" => scene.stage \in Girls

(* Requests are numbered, and their answers with them; whatever the server   *)
(* reads over it, the answer with the newest number answers the newest       *)
(* request.  A connection that is not up has nothing under way.              *)
Numbered ==
  /\ delegate.seq = delegate.last + 1
  /\ \A i \in 1..Len(up) : up[i].seq <= delegate.last
  /\ \A i, j \in 1..Len(up) : i < j => up[i].seq < up[j].seq
  /\ \A i \in 1..Len(down) : down[i].seq <= delegate.last
  /\ conn = "open" /\ up # <<>> => up[Len(up)].seq = delegate.last
  /\ conn \in {"connecting", "closed"} =>
       up = <<>> /\ down = <<>> /\ sess = NoSession

(* The scene the delegate calls back is the running one while that waits.    *)
Targeted ==
  /\ delegate.target \in {"start", "game", "play", "event", "none"}
  /\ delegate.here /\ scene.at # "off" => delegate.target = scene.at
  /\ scene.poll > 0 => delegate.here
  /\ delegate.target = "none" => ~delegate.flag /\ ~delegate.here
  /\ scene.at = "start" => delegate.here
  /\ scene.at = "off" =>
       scene = NewScene("off") /\ delegate = FreshDelegate /\ conn = "closed"

(* While the start scene is the one to call back, one login is under way at  *)
(* most, and none once the flag is up.                                       *)
StartLine ==
  /\ delegate.target = "start" =>
       /\ \A i \in 1..Len(up) : up[i].cmd = kCmdUserLogin
       /\ \A i \in 1..Len(down) : down[i].cmd = kCmdUserLogin
       /\ Len(up) + Len(down) <= 1
       /\ delegate.flag => up = <<>> /\ down = <<>>
  /\ scene.at = "start" =>
       /\ scene.poll > 0 /\ ~delegate.flag =>
            /\ delegate.count + scene.poll = SCHEDULE_TIMEOUT + 1
            /\ delegate.count < NETWORK_TIMEOUT
       /\ scene.login = 0 => ~delegate.flag /\ up = <<>> /\ down = <<>>
       /\ conn = "connecting" => scene.login = 0
       /\ scene.login = 1 /\ delegate.flag => sess.uid = 0
       /\ scene.login \in {2, 3} => delegate.flag
       /\ scene.login = 3 => tally.err # kErrNone
       /\ scene.ready => scene.login = 2
       /\ scene.poll = 0 => scene.ready \/ scene.login = 3

(* One account per device, and one per connection.                           *)
Own ==
  /\ user.uid \in 0..Len(docs)
  /\ \A i \in 1..Len(up) : /\ up[i].uid \in {0, user.uid}
                           /\ up[i].uid = 0 => user.uid = 0 \/ sess.uid # 0
  /\ sess.uid # 0 /\ user.uid # 0 => sess.uid = user.uid
  /\ \A i \in 1..Len(down) :
       down[i].cmd = kCmdUserLogin /\ down[i].err = kErrNone =>
         sess.uid # 0 /\ down[i].uid = sess.uid
  /\ scene.at = "start" /\ scene.login = 2 => user.uid # 0
  /\ scene.at \notin {"start", "off"} => user.uid # 0
  /\ shop.iap \/ delegate.target # "start" => user.uid # 0
OldUids == \A o \in old : \A i \in 1..Len(o.up) : o.up[i].uid \in 0..Len(docs)
Accounts == Own /\ OldUids

(* An entry that may be made, and a finger or a replay that may take effect, *)
(* have been counted on the other side already.                              *)
Newest(r) == r.seq = delegate.last /\ r.err = kErrNone
Entering == scene.at = "game" /\ scene.poll > 0
Ticket == /\ Entering
          /\ \/ delegate.flag /\ ~gotostart
             \/ \E i \in 1..Len(down) : Newest(down[i])
ItemTicket ==
  /\ scene.at = "play" /\ scene.poll > 0
  /\ \/ delegate.flag /\ scene.cmd = kCmdUseItem
     \/ \E i \in 1..Len(down) : Newest(down[i]) /\ down[i].cmd = kCmdUseItem

AskedFor ==
  Entering =>
    /\ scene.want \in Girls
    /\ \A i \in 1..Len(up) : up[i].seq = delegate.last =>
         up[i].cmd = kCmdStartPlay /\ up[i].body["stageid"] = scene.want
    /\ \A i \in 1..Len(down) : down[i].seq = delegate.last =>
         down[i].cmd = kCmdStartPlay /\ down[i].sid = scene.want
Covered ==
  /\ tally.unpaid + One(Ticket) <= tally.strangers + tally.opens
  /\ \A s \in Girls :
       tally.owed[s] + One(Ticket /\ scene.want = s)
         <= tally.strays + tally.strangers + tally.opens
  /\ tally.items + One(ItemTicket)
       <= tally.itemsPaid + tally.strangers + tally.refused + tally.opens
Paid == AskedFor /\ Covered

(* Connections are numbered, and so are the requests on one that was left.   *)
Rising(q) == \A i, j \in 1..Len(q) : i < j => q[i].seq < q[j].seq
Lefts ==
  /\ \A o \in old : Rising(o.up) /\ (conn # "closed" => o.no < attempts)
  /\ \A o, p \in old : o.no = p.no => o = p

(* A purchase is in the store's queue, or announced and not read yet, on     *)
(* this connection or one that was left, or has been credited.               *)
Sales(n, q) == {<<n, q[i].seq>> : i \in {j \in 1..Len(q) : q[j].cmd = kCmdIAPAddHeart}}
Unread == Sales(attempts, up) \cup UNION {Sales(o.no, o.up) : o \in old}

Excess == tally.credited + pending
            - (tally.bought + tally.overtaken + tally.unfinished)
Purchases == IsFiniteSet(Unread) /\ Excess + Cardinality(Unread) <= 0

(* The last answer under way tells the server's hearts.                      *)
Agreed ==
  conn = "open" =>
    /\ down # <<>> => sess.uid # 0
    /\ \A i \in 1..Len(down) : ~down[i].bare
    /\ sess.uid # 0 /\ delegate.target # "none" /\ up = <<>> /\ down # <<>> =>
         LET r == down[Len(down)]
         IN r.seq = delegate.last /\ r.doc = sess.udb
    /\ sess.uid # 0 /\ delegate.flag /\ up = <<>> /\ down = <<>>
       /\ tally.err = kErrNone =>
         user.uid = sess.uid /\ user.heart = asInt(sess.udb.heart)

(* What the client has of the stages it has passed, the server has or is     *)
(* about to.                                                                 *)
Passes(m, n, top) ==
  /\ m.cmd = kCmdEndPlay /\ m.body["pass"] = 1
  /\ m.body["stageid"] \in 1..top /\ n <= m.body["stageid"] + 1
WillReach(n, q, top) == n <= top \/ \E i \in 1..Len(q) : Passes(q[i], n, top)

LoginHeard == scene.at # "start" \/ scene.login = 2

Opened == scene.at \notin {"start", "off"} => conn # "connecting"
Reached ==
  conn = "open" /\ LoginHeard =>
    /\ sess.uid # 0
    /\ WillReach(user.stage, up, sess.udb.stage)
    /\ scene.at = "play" => scene.stage <= sess.udb.stage
    /\ scene.at = "play" /\ scene.won = 1 =>
         WillReach(scene.stage + 1, up, sess.udb.stage)
    /\ Entering /\ delegate.flag /\ ~gotostart => scene.want <= sess.udb.stage
AnswersBehind ==
  conn = "open" => \A i \in 1..Len(down) :
    /\ down[i].doc.stage <= sess.udb.stage
    /\ down[i].cmd = kCmdStartPlay /\ down[i].err = kErrNone =>
         down[i].sid \in 1..sess.udb.stage
Passed == ~StageExcused => Opened /\ Reached /\ AnswersBehind

Base == Types /\ Numbered /\ Targeted /\ StartLine /\ Accounts
-----------------------------------------------------------------------------
(* The shapes of a step on the client's side, by what they do to the scene   *)
(* and the delegate: start over, ask, leave for another scene, stay.         *)
Restarts == Restart /\ UNCHANGED <<user, shop, pending, docs, tally>>

LoginAsked ==
  /\ Ticking /\ delegate.flag /\ scene.at = "start" /\ scene.login = 1
  /\ Ask(kCmdUserLogin, NoBody, Unpolled(scene))
StageAsked ==
  /\ scene.at = "game"
  /\ Ask(kCmdStartPlay, Body([stageid |-> scene.stage]),
         [scene EXCEPT !.want = scene.stage])
Asks == LoginAsked \/ StageAsked \/ EventBtnYes \/ UseFingerOrReplay \/ SendEndPlay

StageEntered ==
  /\ Ticking /\ delegate.flag /\ scene.at = "game" /\ ~gotostart
  /\ GotoPlay(scene.stage)
  /\ tally' = [tally EXCEPT !.unpaid = @ + 1, !.owed[scene.stage] = @ + 1,
                 !.strays = @ + (IF scene.stage = scene.want THEN 0 ELSE 1)]
StartLeft == scene.at = "start" /\ scene.ready /\ Goto("game") /\ UNCHANGED shop
Leaves == \/ StartLeft \/ GameBtnEvent \/ GotoShop \/ BackToGame \/ ShopBtnBack
          \/ StageEntered

StartStays ==
  /\ Ticking /\ delegate.flag /\ scene.at = "start" /\ scene.login # 1
  /\ scene' = IF scene.login = 2 THEN [Unpolled(scene) EXCEPT !.ready = TRUE]
                                 ELSE [scene EXCEPT !.poll = @ - 1]
  /\ UNCHANGED <<delegate, up, user, gotostart, tally, Rest>>
EventStays ==
  /\ Ticking /\ delegate.flag /\ scene.at = "event"
  /\ scene' = Unpolled(scene)
  /\ UNCHANGED <<delegate, up, user, gotostart, tally, Rest>>
TimeoutStays ==
  /\ Ticking /\ ~delegate.flag /\ delegate.count + 1 >= NETWORK_TIMEOUT
  /\ scene.at = "start" => scene.login \notin {0, 1}
  /\ delegate' = [delegate EXCEPT !.count = @ + 1]
  /\ scene' = IF scene.at = "start" THEN [scene EXCEPT !.poll = @ - 1]
                                    ELSE Unpolled(scene)
  /\ UNCHANGED <<up, user, gotostart, tally, Rest>>
Stays == \/ StartStays \/ EventStays \/ TimeoutStays \/ PlayDone \/ Wait
         \/ OnBtnGirl \/ onBtnClothes

Sells == onBtnSale \/ ProductFailed

(* The app ends, its last request perhaps on its way.                        *)
Stops ==
  \E q : /\ Stop(q) /\ q \in {up, Transmitted(kCmdIAPAddHeart,
                                  Body([addheart |-> PurchaseHearts]), delegate)}
         /\ \/ q = up /\ tally' = tally
            \/ tally' = [tally EXCEPT !.unfinished = @ + 1]

LEMMA NextCases ==
  ASSUME [Next]_vars
  PROVE  \/ scene.at # "off" /\ (Restarts \/ Asks \/ Leaves \/ Stays \/ Sells)
         \/ scene.at # "off" /\ (Network \/ CAProductByNotify \/ Stops)
         \/ Launch \/ ServeOld
         \/ UNCHANGED vars
<1> USE DEF Restarts, Asks, Leaves, Stays, Sells
<1>1. StartDone => Restarts \/ LoginAsked \/ StartStays
  BY DEF StartDone, GotoStartSceneIfError, LoginAsked, StartStays, Ask, Unpolled,
         NewScene
<1>2. GameDone => Restarts \/ StageEntered
  BY DEF GameDone, GotoStartSceneIfError, StageEntered
<1>3. EventDone => Restarts \/ EventStays
  BY DEF EventDone, GotoStartSceneIfError, EventStays
<1>4. CARecvTimeout => Restarts \/ TimeoutStays
  BY DEF CARecvTimeout, TimeoutStays
<1>5. Tick => Restarts \/ Asks \/ Leaves \/ Stays
  BY <1>1, <1>2, <1>3, <1>4 DEF Tick
<1>6. StartBtnPlay \/ PlayBtnStartPlay => Restarts \/ StartLeft
  BY DEF StartBtnPlay, PlayBtnStartPlay, GotoStartSceneIfError, StartLeft
<1>7. GameBtnPlay => Restarts \/ StageAsked
  BY DEF GameBtnPlay, GotoStartSceneIfError, StageAsked
<1>8. Touch => Restarts \/ Asks \/ Leaves \/ Stays \/ Sells
  BY <1>6, <1>7 DEF Touch
<1>9. AppDies \/ Quit \/ DiesUnfinished => scene.at # "off" /\ Stops
  <2>1. AppDies \/ Quit => Stop(up) /\ tally' = tally BY DEF AppDies, Quit
  <2>2. ASSUME Stop(up), tally' = tally PROVE scene.at # "off" /\ Stops
    <3>1. scene.at # "off" BY <2>2 DEF Stop
    <3> QED BY <2>2, <3>1 DEF Stops
  <2>3. ASSUME DiesUnfinished PROVE scene.at # "off" /\ Stops
    <3> DEFINE q == Transmitted(kCmdIAPAddHeart, Body([addheart |-> PurchaseHearts]),
                                delegate)
    <3>1. Stop(q) /\ tally' = [tally EXCEPT !.unfinished = @ + 1]
      BY <2>3 DEF DiesUnfinished
    <3>2. scene.at # "off" BY <3>1 DEF Stop
    <3> HIDE DEF q
    <3>3. q \in {up, q} OBVIOUS
    <3> QED BY <3>1, <3>2, <3>3 DEF Stops, q
  <2> QED BY <2>1, <2>2, <2>3
<1> QED BY <1>5, <1>8, <1>9 DEF Next, Store, Finished


(* What an asking scene sends, and how it waits for the answer.              *)
Sending(d, at, b) ==
  [d EXCEPT !.last = d.seq, !.seq = @ + 1, !.flag = FALSE, !.count = 0,
            !.target = at, !.here = b]
Counting(d) == [d EXCEPT !.count = @ + 1]
Flagged(d) == [d EXCEPT !.flag = TRUE]
Freed(d) == [d EXCEPT !.freed = TRUE]
Outgoing(c, f) == [cmd |-> c, seq |-> delegate.seq, uid |-> user.uid, body |-> f]

AskFrom(s, c, f) ==
  /\ s \in SceneStates /\ s.at = scene.at
  /\ c \in Commands /\ f \in Bodies
  /\ scene.at \in {"start", "game", "event", "play"}
  /\ scene' = Schedule(s)
  /\ delegate' = Sending(delegate, scene.at, TRUE)
  /\ up' = IF conn = "open" THEN Append(up, Outgoing(c, f)) ELSE up
  /\ UNCHANGED <<user, gotostart, tally, Rest>>

AskedAs(s, c, f) ==
  \/ /\ LoginAsked /\ c = kCmdUserLogin /\ s = Unpolled(scene)
  \/ /\ scene.at = "game" /\ c = kCmdStartPlay /\ f["stageid"] = scene.stage
     /\ s = [scene EXCEPT !.want = scene.stage]
  \/ /\ scene.at = "event" /\ c = kCmdEventLock /\ s = scene
  \/ /\ scene.at = "play" /\ c = kCmdUseItem /\ scene.won = 0
     /\ \E item \in {7, scene.stage} : s = [scene EXCEPT !.prop = item]
  \/ /\ scene.at = "play" /\ c = kCmdEndPlay /\ s = [scene EXCEPT !.won = 1]
     /\ f["stageid"] = scene.stage /\ f["pass"] = 1

LEMMA StageBody ==
  ASSUME NEW st \in Stages
  PROVE  /\ Body([stageid |-> st]) \in Bodies
         /\ Body([stageid |-> st])["stageid"] = st
BY DEF Body, Bodies, BodyKeys, Absent, Stages, StageHeartConfig, ItemHeartConfig

LEMMA EventBody ==
  ASSUME NEW st \in Stages, NEW n \in Nat
  PROVE  Body([stageid |-> st, eventid |-> n]) \in Bodies
BY DEF Body, Bodies, BodyKeys, Absent, Stages, StageHeartConfig, ItemHeartConfig

LEMMA ItemBody ==
  ASSUME NEW item \in 1..7
  PROVE  Body([itemid |-> item]) \in Bodies
BY DEF Body, Bodies, BodyKeys, Absent, Stages, StageHeartConfig, ItemHeartConfig

LEMMA PassBody ==
  ASSUME NEW st \in Stages
  PROVE  /\ Body([stageid |-> st, pass |-> 1]) \in Bodies
         /\ Body([stageid |-> st, pass |-> 1])["stageid"] = st
         /\ Body([stageid |-> st, pass |-> 1])["pass"] = 1
BY DEF Body, Bodies, BodyKeys, Absent, Stages, StageHeartConfig, ItemHeartConfig

LEMMA HeartBody == Body([addheart |-> PurchaseHearts]) \in Bodies
BY ClientAssumption
   DEF Body, Bodies, BodyKeys, Absent, Stages, StageHeartConfig, ItemHeartConfig

LEMMA AskIntro ==
  ASSUME NEW s \in SceneStates, NEW c \in Commands, NEW f \in Bodies,
         s.at = scene.at, scene.at \in {"start", "game", "event", "play"},
         Ask(c, f, s)
  PROVE  AskFrom(s, c, f)
<1>1. SendServer(c, f, delegate, s.at) /\ scene' = Schedule(s)
      /\ UNCHANGED <<user, gotostart, tally, Rest>>
  BY DEF Ask
<1>2. scene.at # "none" OBVIOUS
<1>3. delegate' = Sending(delegate, scene.at, TRUE)
  BY <1>1, <1>2 DEF SendServer, Sending
<1>4. up' = IF conn = "open" THEN Append(up, Outgoing(c, f)) ELSE up
  BY <1>1 DEF SendServer, Transmit, Transmitted, Outgoing
<1> QED BY <1>1, <1>3, <1>4 DEF AskFrom

LEMMA TypeFacts ==
  ASSUME Types
  PROVE  /\ scene \in SceneStates /\ delegate \in DelegateStates
         /\ scene.stage \in Stages /\ scene.poll \in Nat /\ scene.at # "none"
         /\ user.uid \in Nat /\ user.heart \in Int /\ user.stage \in Nat
         /\ user.lock \in [Stages -> Nat]
         /\ delegate.seq \in Nat /\ delegate.last \in Nat /\ delegate.count \in Nat
         /\ delegate.flag \in BOOLEAN /\ delegate.here \in BOOLEAN
         /\ up \in Seq(Sent) /\ down \in Seq(Answered) /\ docs \in Seq(Ready)
         /\ Len(up) \in Nat /\ Len(down) \in Nat /\ Len(docs) \in Nat
         /\ sess \in Sessions /\ sess.uid \in 0..Len(docs)
         /\ sess.uid # 0 => sess.udb \in Ready
         /\ pending \in Nat /\ attempts \in Nat \ {0} /\ tally \in Tallies
<1>1. /\ scene \in SceneStates /\ delegate \in DelegateStates
      /\ user \in [uid : Nat, heart : Int, stage : Nat, lock : [Stages -> Nat]]
      /\ up \in Seq(Sent) /\ down \in Seq(Answered) /\ docs \in Seq(Ready)
      /\ sess \in Sessions /\ sess.uid \in 0..Len(docs)
      /\ sess.uid # 0 => sess.udb \in Ready
      /\ pending \in Nat /\ attempts \in Nat \ {0} /\ tally \in Tallies
  BY DEF Types, TypeOK, Sessions, Loaded
<1>2. scene.stage \in Stages /\ scene.poll \in Nat /\ scene.at # "none"
  <2>1. SCHEDULE_TIMEOUT \in Nat BY ClientAssumption
  <2> QED BY <1>1, <2>1 DEF SceneStates, Scenes
<1>3. /\ delegate.seq \in Nat /\ delegate.last \in Nat /\ delegate.count \in Nat
      /\ delegate.flag \in BOOLEAN /\ delegate.here \in BOOLEAN
  BY <1>1 DEF DelegateStates
<1>4. /\ user.uid \in Nat /\ user.heart \in Int /\ user.stage \in Nat
      /\ user.lock \in [Stages -> Nat]
      /\ Len(up) \in Nat /\ Len(down) \in Nat /\ Len(docs) \in Nat
  BY <1>1
<1> QED BY <1>1, <1>2, <1>3, <1>4

LEMMA OldFacts ==
  ASSUME Types, NEW o \in old
  PROVE  /\ o.no \in 1..attempts /\ o.sess \in Sessions /\ o.up \in Seq(Sent)
         /\ o.up # <<>> /\ Len(o.up) \in Nat
         /\ o.sess.uid # 0 => o.sess.udb \in Ready
         /\ o = [no |-> o.no, sess |-> o.sess, up |-> o.up]
<1>1. o \in [no : 1..attempts, sess : Sessions, up : Seq(Sent) \ {<<>>}]
  BY DEF Types, TypeOK
<1>2. o.sess.uid # 0 => o.sess.udb \in Ready BY DEF Types, Loaded
<1> QED BY <1>1, <1>2

LEMMA AsksShape ==
  ASSUME Types, Asks
  PROVE  \E s, c, f : AskFrom(s, c, f) /\ AskedAs(s, c, f)
<1>1. scene \in SceneStates /\ scene.stage \in Stages BY TypeFacts
<1>a. \A n \in Stages : n \in Nat /\ n \in 1..7 /\ n \in 0..Len(StageHeartConfig)
  BY DEF Stages, StageHeartConfig
<1>2. /\ kCmdUserLogin \in Commands /\ kCmdStartPlay \in Commands
      /\ kCmdEventLock \in Commands /\ kCmdUseItem \in Commands
      /\ kCmdEndPlay \in Commands
  BY DEF Commands, kCmdUserLogin, kCmdStartPlay, kCmdEventLock, kCmdUseItem, kCmdEndPlay
<1>3. CASE LoginAsked
  <2>0. SCHEDULE_TIMEOUT \in Nat BY ClientAssumption
  <2>1. Unpolled(scene) \in SceneStates /\ Unpolled(scene).at = scene.at
    BY <1>1, <2>0 DEF Unpolled, SceneStates
  <2>2. NoBody \in Bodies BY DEF NoBody, Bodies, BodyKeys, Absent
  <2>3. scene.at = "start" /\ Ask(kCmdUserLogin, NoBody, Unpolled(scene))
    BY <1>3 DEF LoginAsked
  <2>4. AskFrom(Unpolled(scene), kCmdUserLogin, NoBody)
    BY <1>2, <2>1, <2>2, <2>3, AskIntro
  <2> QED BY <1>3, <2>4 DEF AskedAs
<1>4. CASE StageAsked
  <2> DEFINE s == [scene EXCEPT !.want = scene.stage]
             f == Body([stageid |-> scene.stage])
  <2>1. s \in SceneStates /\ s.at = scene.at BY <1>1, <1>a DEF SceneStates
  <2>2. f \in Bodies /\ f["stageid"] = scene.stage BY StageBody, <1>1
  <2>3. scene.at = "game" /\ Ask(kCmdStartPlay, f, s) BY <1>4 DEF StageAsked
  <2> HIDE DEF f
  <2>4. AskFrom(s, kCmdStartPlay, f) BY <1>2, <2>1, <2>2, <2>3, AskIntro
  <2> QED BY <2>2, <2>3, <2>4 DEF AskedAs
<1>5. CASE EventBtnYes
  <2> DEFINE f == Body([stageid |-> scene.stage, eventid |-> user.lock[scene.stage] + 1])
  <2>1. user.lock[scene.stage] + 1 \in Nat BY TypeFacts
  <2>2. f \in Bodies BY EventBody, <1>1, <2>1
  <2>3. scene.at = "event" /\ Ask(kCmdEventLock, f, scene) BY <1>5 DEF EventBtnYes
  <2> HIDE DEF f
  <2>4. scene.at \in {"start", "game", "event", "play"} BY <2>3
  <2>5. AskFrom(scene, kCmdEventLock, f) BY <1>1, <1>2, <2>2, <2>3, <2>4, AskIntro
  <2> QED BY <2>3, <2>5 DEF AskedAs
<1>6. CASE UseFingerOrReplay
  <2>1. PICK item \in {7, scene.stage} :
          Ask(kCmdUseItem, Body([itemid |-> item]), [scene EXCEPT !.prop = item])
    BY <1>6 DEF UseFingerOrReplay
  <2> DEFINE s == [scene EXCEPT !.prop = item]
             f == Body([itemid |-> item])
  <2>2. item \in 1..7 BY <1>1, <1>a
  <2>3. f \in Bodies BY <2>2, ItemBody
  <2>4. s \in SceneStates /\ s.at = scene.at BY <1>1, <2>2 DEF SceneStates
  <2>5. scene.at = "play" /\ scene.won = 0 BY <1>6 DEF UseFingerOrReplay
  <2>6. Ask(kCmdUseItem, f, s) BY <2>1
  <2> HIDE DEF f
  <2>7. AskFrom(s, kCmdUseItem, f) BY <1>2, <2>3, <2>4, <2>5, <2>6, AskIntro
  <2> QED BY <2>5, <2>7 DEF AskedAs
<1>7. CASE SendEndPlay
  <2> DEFINE s == [scene EXCEPT !.won = 1]
             f == Body([stageid |-> scene.stage, pass |-> 1])
  <2>1. s \in SceneStates /\ s.at = scene.at BY <1>1 DEF SceneStates
  <2>2. f \in Bodies /\ f["stageid"] = scene.stage /\ f["pass"] = 1
    BY PassBody, <1>1
  <2>3. scene.at = "play" /\ Ask(kCmdEndPlay, f, s) BY <1>7 DEF SendEndPlay
  <2> HIDE DEF f
  <2>4. AskFrom(s, kCmdEndPlay, f) BY <1>2, <2>1, <2>2, <2>3, AskIntro
  <2> QED BY <2>2, <2>3, <2>4 DEF AskedAs
<1> QED BY <1>3, <1>4, <1>5, <1>6, <1>7 DEF Asks

(* An asking scene keeps everything but its timer and what it notes down.    *)
LEMMA AskScene ==
  ASSUME Types, NEW s, NEW c, NEW f, AskFrom(s, c, f), AskedAs(s, c, f)
  PROVE  /\ scene' \in SceneStates /\ scene'.at = scene.at
         /\ scene'.poll \in 1..(SCHEDULE_TIMEOUT + 1)
         /\ scene.at = "start" => scene'.poll = SCHEDULE_TIMEOUT + 1
         /\ scene'.stage = scene.stage /\ scene'.login = scene.login
         /\ scene'.ready = scene.ready /\ scene'.cmd = scene.cmd
         /\ scene.at = "game" => scene'.want = scene.stage
         /\ scene'.won = 1 => c = kCmdEndPlay \/ scene.won = 1
<1>0. scene \in SceneStates BY TypeFacts
<1>1. /\ s \in SceneStates /\ s.at = scene.at /\ scene' = Schedule(s)
      /\ s.stage = scene.stage /\ s.login = scene.login
      /\ s.ready = scene.ready /\ s.cmd = scene.cmd
      /\ scene.at = "start" => s.poll = 0
      /\ scene.at = "game" => s.want = scene.stage
      /\ s.won = 1 => c = kCmdEndPlay \/ scene.won = 1
  BY <1>0 DEF AskFrom, AskedAs, SceneStates, LoginAsked, Unpolled
<1>2. SCHEDULE_TIMEOUT \in Nat BY ClientAssumption
<1> QED BY <1>1, <1>2 DEF Schedule, SceneStates
LEMMA NewSceneFacts ==
  ASSUME NEW at \in Scenes \cup {"off"}
  PROVE  /\ NewScene(at) \in SceneStates /\ NewScene(at).at = at
         /\ NewScene(at).poll = 0 /\ NewScene(at).stage = 1
         /\ NewScene(at).login = 0 /\ NewScene(at).ready = FALSE
         /\ NewScene(at).won = 0
<1>1. SCHEDULE_TIMEOUT \in Nat BY ClientAssumption
<1> QED BY <1>1 DEF NewScene, SceneStates, Stages, StageHeartConfig, Scenes

LEMMA FirstScene ==
  LET s == Schedule(NewScene("start"))
  IN /\ s \in SceneStates /\ s.at = "start" /\ s.poll = SCHEDULE_TIMEOUT + 1
     /\ s.login = 0 /\ s.ready = FALSE /\ s.won = 0
<1>1. SCHEDULE_TIMEOUT \in Nat BY ClientAssumption
<1>2. "start" \in Scenes \cup {"off"} BY DEF Scenes
<1>3. NewScene("start") \in SceneStates /\ NewScene("start").at = "start"
      /\ NewScene("start").poll = 0 /\ NewScene("start").login = 0
      /\ NewScene("start").ready = FALSE /\ NewScene("start").won = 0
  BY <1>2, NewSceneFacts
<1> QED BY <1>1, <1>3 DEF Schedule, SceneStates

(* What leaving one scene for another does, whichever two they are.          *)
ShopStates == [iap : BOOLEAN, busy : BOOLEAN, target : {"none", "here", "gone"}]
Left ==
  /\ scene' \in SceneStates /\ scene'.poll = 0 /\ scene'.won = 0
  /\ scene'.at \in {"game", "play", "event", "shop"}
  /\ scene'.at = "game" => scene'.stage = 1
  /\ scene'.at = "play" => StageEntered /\ scene'.stage = scene.stage
  /\ scene'.at # "play" => tally' = tally
  /\ scene.at = "start" => scene.ready
  /\ delegate' = Leave(delegate)
  /\ shop' \in ShopStates /\ (shop'.iap => shop.iap \/ scene.at # "start")
  /\ UNCHANGED <<user, gotostart, pending, net, server, attempts>>

LEMMA LeavesShape ==
  ASSUME Types, Leaves
  PROVE  Left
<1>1. scene \in SceneStates /\ scene.stage \in Stages BY TypeFacts
<1>2. shop \in ShopStates BY DEF Types, TypeOK, ShopStates
<1>3. \A at \in {"game", "play", "event", "shop"} :
        /\ NewScene(at) \in SceneStates /\ NewScene(at).at = at
        /\ NewScene(at).poll = 0 /\ NewScene(at).stage = 1 /\ NewScene(at).won = 0
  BY NewSceneFacts DEF Scenes
<1>4. CASE StartLeft BY <1>2, <1>3, <1>4 DEF StartLeft, Goto, Left
<1>5. CASE GameBtnEvent
  <2> DEFINE s == [NewScene("event") EXCEPT !.stage = EventStage(scene.stage)]
  <2>1. EventStage(scene.stage) \in Stages
    BY <1>1 DEF EventStage, Stages, StageHeartConfig
  <2>2. s \in SceneStates /\ s.at = "event" /\ s.poll = 0 /\ s.won = 0
    BY <1>3, <2>1 DEF SceneStates
  <2>3. /\ scene' = s /\ delegate' = Leave(delegate) /\ scene.at = "game"
        /\ UNCHANGED <<up, user, gotostart, tally, Rest>>
    BY <1>5 DEF GameBtnEvent
  <2> HIDE DEF s
  <2> QED BY <1>2, <2>2, <2>3 DEF Left, Rest, net, server
<1>6. CASE GotoShop
  <2>1. [shop EXCEPT !.iap = TRUE] \in ShopStates BY <1>2 DEF ShopStates
  <2>2. scene.at # "start" BY <1>6 DEF GotoShop
  <2> QED BY <1>3, <1>6, <2>1, <2>2 DEF GotoShop, Goto, Left
<1>7. CASE BackToGame BY <1>2, <1>3, <1>7 DEF BackToGame, Goto, Left
<1>8. CASE ShopBtnBack
  <2>1. /\ [shop EXCEPT !.target = Gone(@)] \in ShopStates
        /\ [shop EXCEPT !.target = Gone(@)].iap = shop.iap
    BY <1>2 DEF ShopStates, Gone
  <2> QED BY <1>3, <1>8, <2>1 DEF ShopBtnBack, Goto, Left
<1>9. CASE StageEntered
  <2>1. PICK garbage \in {0, kCmdEndPlay, kCmdUseItem} :
          scene' = [NewScene("play") EXCEPT !.stage = scene.stage, !.cmd = garbage]
    BY <1>9 DEF StageEntered, GotoPlay
  <2>2. garbage \in Commands \cup {0}
    BY DEF Commands, kCmdEndPlay, kCmdUseItem
  <2>3. /\ scene' \in SceneStates /\ scene'.at = "play" /\ scene'.poll = 0
        /\ scene'.won = 0 /\ scene'.stage = scene.stage
    BY <1>1, <1>3, <2>1, <2>2 DEF SceneStates
  <2>4. /\ scene.at = "game" /\ delegate' = Leave(delegate)
        /\ UNCHANGED <<user, gotostart, shop, pending, net, server, attempts>>
    BY <1>9 DEF StageEntered, GotoPlay
  <2> QED BY <1>2, <1>9, <2>3, <2>4 DEF Left
<1> QED BY <1>4, <1>5, <1>6, <1>7, <1>8, <1>9 DEF Leaves

(* What a scene does that stays: its timer runs down or is put out, ...      *)
Stayed ==
  /\ scene' \in SceneStates /\ scene'.at = scene.at
  /\ scene'.poll \in 0..scene.poll
  /\ delegate' \in {delegate, Counting(delegate)}
  /\ user' = user \/ onBtnClothes
  /\ tally' \in {tally, [tally EXCEPT !.items = @ + 1]}
  /\ (PlayDone /\ scene'.poll = 0) \/ (scene'.cmd = scene.cmd /\ tally' = tally)
  /\ scene.at = "game" => scene'.stage \in Girls \cup {scene.stage}
  /\ scene.at # "game" => scene'.stage = scene.stage
  /\ scene'.want = scene.want /\ scene'.login = scene.login
  /\ scene'.won = scene.won \/ onBtnClothes
  /\ UNCHANGED <<up, gotostart, shop, pending, conn, down, server, attempts>>

LEMMA StaysShape ==
  ASSUME Types, Stays
  PROVE  Stayed
<1>1. /\ scene \in SceneStates /\ scene.stage \in Stages /\ scene.poll \in Nat
      /\ delegate \in DelegateStates
  BY TypeFacts
<1>2. SCHEDULE_TIMEOUT \in Nat /\ Girls \subseteq Stages BY ClientAssumption
<1>3. scene.poll \in 0..(SCHEDULE_TIMEOUT + 1) BY <1>1 DEF SceneStates
<1>4. Unpolled(scene) \in SceneStates /\ Unpolled(scene).at = scene.at
      /\ Unpolled(scene).poll = 0 /\ Unpolled(scene).stage = scene.stage
      /\ Unpolled(scene).want = scene.want /\ Unpolled(scene).won = scene.won
      /\ Unpolled(scene).login = scene.login /\ Unpolled(scene).cmd = scene.cmd
  BY <1>1, <1>2 DEF Unpolled, SceneStates
<1>5. ASSUME Ticking
      PROVE  LET s == [scene EXCEPT !.poll = @ - 1]
             IN /\ s \in SceneStates /\ s.at = scene.at /\ s.poll = scene.poll - 1
                /\ s.stage = scene.stage /\ s.want = scene.want /\ s.won = scene.won
                /\ s.login = scene.login /\ s.cmd = scene.cmd
                /\ s.poll \in 0..scene.poll
  BY <1>1, <1>2, <1>3, <1>5 DEF Ticking, SceneStates
<1>6. CASE StartStays
  <2>1. LET s == [Unpolled(scene) EXCEPT !.ready = TRUE]
        IN /\ s \in SceneStates /\ s.at = scene.at /\ s.poll = 0
           /\ s.stage = scene.stage /\ s.want = scene.want /\ s.won = scene.won
           /\ s.login = scene.login /\ s.cmd = scene.cmd
    BY <1>4 DEF SceneStates
  <2> QED BY <1>1, <1>5, <1>6, <2>1 DEF StartStays, Stayed, Rest
<1>7. CASE EventStays BY <1>1, <1>4, <1>7 DEF EventStays, Stayed, Rest
<1>8. CASE TimeoutStays BY <1>1, <1>4, <1>5, <1>8 DEF TimeoutStays, Stayed, Rest, Counting
<1>9. CASE PlayDone
  <2>1. LET s == ActOnCmd(scene)
        IN /\ s \in SceneStates /\ s.at = scene.at /\ s.stage = scene.stage
           /\ s.want = scene.want /\ s.won = scene.won /\ s.login = scene.login
    <3>1. ActOnCmd(scene) \in {[scene EXCEPT !.back = TRUE], [scene EXCEPT !.prop = -1], scene}
      BY DEF ActOnCmd, kCmdEndPlay, kCmdUseItem
    <3>2. CASE ActOnCmd(scene) = [scene EXCEPT !.back = TRUE]
      BY <1>1, <3>2 DEF SceneStates
    <3>3. CASE ActOnCmd(scene) = [scene EXCEPT !.prop = -1]
      BY <1>1, <3>3 DEF SceneStates
    <3>4. CASE ActOnCmd(scene) = scene BY <1>1, <3>4
    <3> QED BY <3>1, <3>2, <3>3, <3>4
  <2>2. LET s == Unpolled(ActOnCmd(scene))
        IN /\ s \in SceneStates /\ s.at = scene.at /\ s.poll = 0
           /\ s.stage = scene.stage /\ s.want = scene.want /\ s.won = scene.won
           /\ s.login = scene.login
    BY <1>2, <2>1 DEF Unpolled, SceneStates
  <2>3. /\ scene' = Unpolled(ActOnCmd(scene)) /\ scene.at = "play"
        /\ tally' \in {tally, [tally EXCEPT !.items = @ + 1]}
        /\ UNCHANGED <<delegate, up, user, gotostart, Rest>>
    BY <1>9 DEF PlayDone
  <2>4. /\ scene' \in SceneStates /\ scene'.at = scene.at /\ scene'.poll = 0
        /\ scene'.stage = scene.stage /\ scene'.want = scene.want
        /\ scene'.won = scene.won /\ scene'.login = scene.login
    BY <2>2, <2>3
  <2>5. /\ tally' \in {tally, [tally EXCEPT !.items = @ + 1]} /\ scene.at # "game"
        /\ UNCHANGED <<delegate, up, user, gotostart, Rest>>
    BY <2>3
  <2>6. 0 \in 0..scene.poll BY <1>1
  <2>7. delegate' \in {delegate, Counting(delegate)} /\ user' = user
        /\ scene'.poll \in 0..scene.poll
    BY <2>4, <2>5, <2>6
  <2>8. UNCHANGED <<up, gotostart, shop, pending, conn, down, server, attempts>>
    BY <2>5 DEF Rest
  <2>9. (PlayDone /\ scene'.poll = 0) \/ (scene'.cmd = scene.cmd /\ tally' = tally)
    BY <1>9, <2>4
  <2>10. /\ scene.at = "game" => scene'.stage \in Girls \cup {scene.stage}
         /\ scene.at # "game" => scene'.stage = scene.stage
    BY <2>4, <2>5
  <2>11. scene'.won = scene.won \/ onBtnClothes BY <2>4
  <2> QED BY <2>4, <2>5, <2>7, <2>8, <2>9, <2>10, <2>11 DEF Stayed
<1>10. CASE Wait BY <1>1, <1>5, <1>10 DEF Wait, Stayed, Rest, Counting
<1>11. CASE OnBtnGirl
  <2>1. PICK i \in Girls : scene' = [scene EXCEPT !.stage = i]
    BY <1>11 DEF OnBtnGirl
  <2>2. /\ scene' \in SceneStates /\ scene'.at = scene.at /\ scene'.stage = i
        /\ scene'.want = scene.want /\ scene'.won = scene.won
        /\ scene'.poll = scene.poll /\ scene'.login = scene.login
        /\ scene'.cmd = scene.cmd
    BY <1>1, <1>2, <2>1 DEF SceneStates
  <2> QED BY <1>1, <1>11, <2>2 DEF OnBtnGirl, Stayed, Rest
<1>12. CASE onBtnClothes
  <2>1. /\ scene' \in SceneStates /\ scene'.at = scene.at
        /\ scene'.stage = scene.stage /\ scene'.want = scene.want
        /\ scene'.poll = scene.poll /\ scene'.login = scene.login
        /\ scene'.cmd = scene.cmd
    BY <1>1, <1>12 DEF onBtnClothes, SceneStates
  <2> QED BY <1>1, <1>12, <2>1 DEF onBtnClothes, Stayed, Rest
<1> QED BY <1>6, <1>7, <1>8, <1>9, <1>10, <1>11, <1>12 DEF Stays
-----------------------------------------------------------------------------
(* The server's side: what it reads, what it answers and what it counts.     *)
ReadAs(q, m, clean) ==
  /\ m \in Sent
  /\ \/ clean /\ m = q[1]
     \/ /\ ~clean /\ Len(q) >= 2
        /\ \/ m.cmd = q[1].cmd /\ m.seq = q[1].seq /\ m.uid = q[1].uid
           \/ m = q[2]

LEMMA ReadingsShape ==
  ASSUME NEW q \in Seq(Sent), q # <<>>, NEW rd \in Readings(q)
  PROVE  rd.clean \in BOOLEAN /\ ReadAs(q, rd.m, rd.clean)
<1>1. q \in Seq(Sent) OBVIOUS
<1>2. Len(q) \in Nat /\ Len(q) >= 1 /\ q[1] \in Sent /\ Head(q) = q[1]
  BY <1>1
<1>3. CASE rd = [m |-> Head(q), clean |-> TRUE]
  <2>1. rd.m = q[1] /\ rd.clean = TRUE BY <1>2, <1>3
  <2> QED BY <1>2, <2>1 DEF ReadAs
<1>4. CASE Len(q) >= 2 /\ rd = [m |-> q[2], clean |-> FALSE]
  <2>1. rd.m = q[2] /\ rd.clean = FALSE BY <1>4
  <2>2. q[2] \in Sent BY <1>1, <1>4
  <2> QED BY <1>4, <2>1, <2>2 DEF ReadAs
<1>5. CASE /\ Len(q) >= 2
           /\ rd = [m |-> [Head(q) EXCEPT !.body = MergeBody(@, q[2].body)],
                    clean |-> FALSE]
  <2>1. q[2] \in Sent BY <1>1, <1>5
  <2>2. MergeBody(q[1].body, q[2].body) \in Bodies
    BY <1>2, <2>1, MergeType DEF Sent
  <2> DEFINE m == [q[1] EXCEPT !.body = MergeBody(q[1].body, q[2].body)]
  <2>3. rd.m = m /\ rd.clean = FALSE BY <1>2, <1>5
  <2>4. m \in Sent /\ m.cmd = q[1].cmd /\ m.seq = q[1].seq /\ m.uid = q[1].uid
    BY <1>2, <2>2 DEF Sent
  <2> HIDE DEF m
  <2> QED BY <1>5, <2>3, <2>4 DEF ReadAs
<1>6. \/ rd = [m |-> Head(q), clean |-> TRUE]
      \/ Len(q) >= 2 /\ rd = [m |-> q[2], clean |-> FALSE]
      \/ /\ Len(q) >= 2
         /\ rd = [m |-> [Head(q) EXCEPT !.body = MergeBody(@, q[2].body)],
                  clean |-> FALSE]
  BY <1>2 DEF Readings
<1> QED BY <1>3, <1>4, <1>5, <1>6

LEMMA SessionRecord ==
  ASSUME NEW n \in Nat, NEW u \in 0..n, NEW d \in UserDb, NEW b \in BOOLEAN
  PROVE  [uid |-> u, udb |-> d, dirty |-> b]
           \in [uid : 0..n, udb : UserDb, dirty : BOOLEAN]
OBVIOUS

(* Whoever asks has a document, or the connection's first login makes one.   *)
LEMMA ResultType ==
  ASSUME Types, NEW s \in Sessions, s.uid # 0 => s.udb \in Ready, NEW m \in Sent,
         m.uid \in 0..Len(docs), s.uid # 0 \/ m.cmd = kCmdUserLogin
  PROVE  /\ Asker(s, m) \in 1..(Len(docs) + 1)
         /\ Asker(s, m) = Len(docs) + 1 => s.uid = 0 /\ m.uid = 0
         /\ Result(s, m).udb \in Ready /\ Result(s, m).err \in ErrorCodes
         /\ Stored(Served(s, m)) \in Seq(Ready)
         /\ Asker(s, m) \in 1..Len(Stored(Served(s, m)))
         /\ Len(Stored(Served(s, m))) \in Nat
         /\ Len(Stored(Served(s, m))) >= Len(docs)
         /\ Asker(s, m) <= Len(docs) => Len(Stored(Served(s, m))) = Len(docs)
         /\ Served(s, m).uid = Asker(s, m) /\ Served(s, m).udb = Result(s, m).udb
         /\ Served(s, m).udb \in Ready
         /\ Served(s, m) \in [uid : 0..Len(Stored(Served(s, m))), udb : UserDb,
                              dirty : BOOLEAN]
<1>1. /\ docs \in Seq(Ready) /\ s.uid \in 0..Len(docs) /\ s.dirty \in BOOLEAN
      /\ Len(docs) \in Nat
  BY TypeFacts DEF Sessions
<1>2. /\ Asker(s, m) \in 1..(Len(docs) + 1)
      /\ Asker(s, m) = Len(docs) + 1 => s.uid = 0 /\ m.uid = 0
      /\ s.uid = 0 /\ m.uid = 0 => Asker(s, m) = Len(docs) + 1
  BY <1>1 DEF Asker
<1>3. /\ Result(s, m).udb \in Ready /\ Result(s, m).err \in ErrorCodes
      /\ Result(s, m).dirty \in BOOLEAN
      /\ s.uid = 0 /\ m.uid = 0 => Result(s, m).dirty = TRUE
  <2>1. CASE s.uid # 0
    <3>1. s.udb \in Ready BY <2>1
    <3>2. m.cmd \in Commands /\ m.body \in Bodies BY DEF Sent
    <3>3. Serve(m.cmd, s.udb, m.body) \in Outcome
          /\ Serve(m.cmd, s.udb, m.body).udb \in Ready
      BY <3>1, <3>2, ServeType
    <3> QED BY <2>1, <3>3 DEF Result, Outcome
  <2>2. CASE s.uid = 0 /\ m.uid # 0
    <3> DEFINE d == FillLock(LoginRefill(docs[m.uid]))
    <3>1. docs[m.uid] \in UserDb
      <4>1. docs[m.uid] \in Ready BY <1>1, <2>2
      <4> QED BY <4>1 DEF Ready
    <3>2. d \in UserDb /\ d.lock \in [Stages -> Nat] BY <3>1, DocTypes
    <3>3. d \in Ready BY <3>2 DEF Ready
    <3> HIDE DEF d
    <3>4. Result(s, m) = Unchanged(d) BY <2>2 DEF Result, d
    <3> QED BY <2>2, <3>3, <3>4, ErrorTypes DEF Unchanged
  <2>3. CASE s.uid = 0 /\ m.uid = 0
    <3> DEFINE d == FillLock(LoginRefill(userRegister))
    <3>1. userRegister \in UserDb BY DocTypes
    <3>2. d \in UserDb /\ d.lock \in [Stages -> Nat] BY <3>1, DocTypes
    <3>3. d \in Ready BY <3>2 DEF Ready
    <3> HIDE DEF d
    <3>4. Result(s, m) = Changed(d) BY <2>3 DEF Result, d
    <3> QED BY <2>3, <3>3, <3>4, ErrorTypes DEF Changed
  <2> QED BY <2>1, <2>2, <2>3
<1> DEFINE t == Served(s, m)
<1>4. /\ t.uid = Asker(s, m) /\ t.udb = Result(s, m).udb
      /\ t.dirty = (s.dirty \/ Result(s, m).dirty)
      /\ t = [uid |-> t.uid, udb |-> t.udb, dirty |-> t.dirty]
  BY DEF Served
<1>5. t.dirty \in BOOLEAN /\ t.udb \in Ready /\ t.udb \in UserDb
  BY <1>1, <1>3, <1>4 DEF Ready
<1> HIDE DEF t
<1>6. CASE ~t.dirty
  <2>1. Stored(t) = docs BY <1>6 DEF Stored
  <2>2. ~(s.uid = 0 /\ m.uid = 0) BY <1>3, <1>4, <1>6
  <2>3. Asker(s, m) \in 1..Len(docs) BY <1>1, <1>2, <2>2
  <2>4. t \in [uid : 0..Len(docs), udb : UserDb, dirty : BOOLEAN]
    <3>1. t.uid \in 0..Len(docs) BY <1>1, <1>4, <2>3
    <3> QED BY <1>1, <1>4, <1>5, <3>1, SessionRecord
  <2> QED BY <1>1, <1>2, <1>3, <1>4, <1>5, <2>1, <2>3, <2>4 DEF t
<1>7. CASE t.dirty /\ Asker(s, m) <= Len(docs)
  <2> DEFINE ds == [docs EXCEPT ![t.uid] = t.udb]
  <2>1. Stored(t) = ds BY <1>4, <1>7 DEF Stored
  <2>2. Asker(s, m) \in 1..Len(docs) BY <1>1, <1>2, <1>7
  <2>3. ds \in Seq(Ready) /\ Len(ds) = Len(docs) BY <1>1, <1>4, <1>5, <2>2
  <2>4. t \in [uid : 0..Len(docs), udb : UserDb, dirty : BOOLEAN]
    <3>1. t.uid \in 0..Len(docs) BY <1>1, <1>4, <2>2
    <3> QED BY <1>1, <1>4, <1>5, <3>1, SessionRecord
  <2> HIDE DEF ds
  <2> QED BY <1>1, <1>2, <1>3, <1>4, <1>5, <2>1, <2>2, <2>3, <2>4 DEF t
<1>8. CASE t.dirty /\ ~(Asker(s, m) <= Len(docs))
  <2> DEFINE ds == Append(docs, t.udb)
  <2>1. Stored(t) = ds BY <1>4, <1>8 DEF Stored
  <2>2. Asker(s, m) = Len(docs) + 1 BY <1>1, <1>2, <1>8
  <2>3. ds \in Seq(Ready) /\ Len(ds) = Len(docs) + 1 BY <1>1, <1>5
  <2>4. t \in [uid : 0..(Len(docs) + 1), udb : UserDb, dirty : BOOLEAN]
    <3>1. t.uid \in 0..(Len(docs) + 1) /\ Len(docs) + 1 \in Nat BY <1>1, <1>4, <2>2
    <3> QED BY <1>4, <1>5, <3>1, SessionRecord
  <2> HIDE DEF ds
  <2> QED BY <1>1, <1>2, <1>3, <1>4, <1>5, <1>8, <2>1, <2>2, <2>3, <2>4 DEF t
<1> QED BY <1>5, <1>6, <1>7, <1>8

LEMMA ReadUid ==
  ASSUME NEW q \in Seq(Sent), q # <<>>, NEW m, NEW clean, ReadAs(q, m, clean),
         NEW n, \A i \in 1..Len(q) : q[i].uid \in 0..n
  PROVE  m.uid \in 0..n
<1>1. Len(q) \in Nat /\ Len(q) >= 1 OBVIOUS
<1>2. \E k \in 1..Len(q) : m.uid = q[k].uid BY <1>1 DEF ReadAs
<1> QED BY <1>2

ByUser(m, r) ==
  /\ sess.uid # 0 \/ m.cmd = kCmdUserLogin
  /\ docs' = Stored(Served(sess, m)) /\ sess' = Served(sess, m) /\ conn' = conn
  /\ r.err = Result(sess, m).err /\ r.uid = Asker(sess, m)
  /\ r.doc = Result(sess, m).udb /\ r.bare = FALSE
ByStranger(m, r) ==
  /\ m.cmd # kCmdUserLogin /\ sess.uid = 0
  /\ docs' = docs /\ sess' = sess /\ conn' = "kicked"
  /\ r.err = kErrNone /\ r.uid = 0 /\ r.bare = TRUE
Failed(m, r) ==
  /\ \/ docs' = docs
     \/ docs' = Stored(Served(sess, m)) /\ (sess.uid # 0 \/ m.cmd = kCmdUserLogin)
  /\ sess' = sess /\ conn' = "kicked"
  /\ r.err = kErrWriteDB /\ r.bare = TRUE

SessionFits(s, n) ==
  s \in [uid : 0..n, udb : UserDb, dirty : BOOLEAN] /\ (s.uid # 0 => s.udb \in Ready)

Handled(m, clean, r) ==
  /\ conn = "open" /\ up # <<>>
  /\ clean \in BOOLEAN /\ ReadAs(up, m, clean)
  /\ r \in Answered /\ r.cmd = m.cmd /\ r.seq = m.seq /\ r.sid = m.body["stageid"]
  /\ up' = Tail(up) /\ down' = Append(down, r) /\ old' = old
  /\ UNCHANGED <<scene, delegate, user, gotostart, shop, pending, attempts>>
  /\ ByUser(m, r) \/ ByStranger(m, r) \/ Failed(m, r)
  /\ docs' \in Seq(Ready) /\ Len(docs') >= Len(docs)
  /\ SessionFits(sess', Len(docs'))

Charged(r) == sess.uid # 0 /\ r.err = kErrNone /\ r.bare = FALSE
Counted(clean, r) ==
  /\ tally' \in Tallies
  /\ tally'.overtaken = tally.overtaken + One(~clean)
  /\ tally'.strangers = tally.strangers + One(r.bare /\ r.err = kErrNone)
  /\ tally'.unpaid = tally.unpaid - One(Charged(r) /\ r.cmd = kCmdStartPlay)
  /\ \A s \in Girls : tally'.owed[s] =
       tally.owed[s] - One(Charged(r) /\ r.cmd = kCmdStartPlay /\ s = r.sid)
  /\ tally'.itemsPaid = tally.itemsPaid + One(Charged(r) /\ r.cmd = kCmdUseItem)
  /\ tally'.credited = tally.credited + One(sess.uid # 0 /\ r.cmd = kCmdIAPAddHeart)
  /\ tally'.strays = tally.strays /\ tally'.items = tally.items
  /\ tally'.refused = tally.refused /\ tally'.bought = tally.bought
  /\ tally'.opens = tally.opens /\ tally'.unheard = tally.unheard
  /\ tally'.unfinished = tally.unfinished /\ tally'.err = tally.err

LEMMA ServeShape ==
  ASSUME Types, Accounts, ServeNext
  PROVE  \E m, clean, r : Handled(m, clean, r) /\ Counted(clean, r)
<1>0. /\ conn = "open" /\ up # <<>>
      /\ UNCHANGED <<scene, delegate, user, gotostart, shop, pending, attempts>>
  BY DEF ServeNext
<1>1. PICK rd \in Readings(up) :
        /\ ServeStranger(rd.m) \/ ServeUser(rd.m) \/ ServeFails(rd.m)
        /\ Count(rd, down'[Len(down')])
  BY DEF ServeNext
<1>2. rd.clean \in BOOLEAN /\ ReadAs(up, rd.m, rd.clean) /\ rd.m \in Sent
  <2>1. up \in Seq(Sent) BY TypeFacts
  <2> QED BY <1>0, <1>1, <2>1, ReadingsShape DEF ReadAs
<1> DEFINE m == rd.m
<1>3. /\ m.cmd \in Commands /\ m.seq \in Nat /\ m.body["stageid"] \in Stages \cup {Absent}
  BY <1>2 DEF Sent, Bodies, BodyKeys
<1>4. /\ down \in Seq(Answered) /\ docs \in Seq(Ready) /\ up \in Seq(Sent)
      /\ sess \in Sessions /\ sess.uid \in Nat /\ SessionFits(sess, Len(docs))
      /\ Len(docs) \in Nat /\ tally \in Tallies
  BY TypeFacts DEF SessionFits, Sessions
<1>a. m.uid \in 0..Len(docs)
  <2>1. \A i \in 1..Len(up) : up[i].uid \in 0..Len(docs) BY DEF Accounts, Own
  <2> QED BY <1>0, <1>2, <1>4, <2>1, ReadUid
<1>b. ASSUME sess.uid # 0 \/ m.cmd = kCmdUserLogin
      PROVE  LET s == Served(sess, m)
             IN /\ Asker(sess, m) \in Nat
                /\ Result(sess, m).udb \in Ready /\ Result(sess, m).err \in ErrorCodes
                /\ Stored(s) \in Seq(Ready) /\ Len(Stored(s)) >= Len(docs)
                /\ SessionFits(s, Len(Stored(s))) /\ SessionFits(sess, Len(Stored(s)))
  <2>1. sess.uid # 0 => sess.udb \in Ready BY TypeFacts
  <2> DEFINE s == Served(sess, m)
  <2>2. /\ Asker(sess, m) \in 1..(Len(docs) + 1)
        /\ Result(sess, m).udb \in Ready /\ Result(sess, m).err \in ErrorCodes
        /\ Stored(s) \in Seq(Ready) /\ Len(Stored(s)) \in Nat
        /\ Len(Stored(s)) >= Len(docs) /\ s.udb \in Ready
        /\ s \in [uid : 0..Len(Stored(s)), udb : UserDb, dirty : BOOLEAN]
    BY <1>2, <1>4, <1>a, <1>b, <2>1, ResultType
  <2> HIDE DEF s
  <2>3. SessionFits(s, Len(Stored(s))) BY <2>2 DEF SessionFits
  <2>4. SessionFits(sess, Len(Stored(s)))
    <3>1. \A u \in 0..Len(docs) : u \in 0..Len(Stored(s)) BY <1>4, <2>2
    <3> HIDE DEF m
    <3> QED BY <1>4, <3>1 DEF SessionFits
  <2> QED BY <1>4, <2>2, <2>3, <2>4 DEF s
<1>5. \E r : Handled(m, rd.clean, r) /\ down' = Append(down, r)
  <2>1. CASE ServeUser(m)
    <3> DEFINE r == Reply(m, Result(sess, m).err, Asker(sess, m), Result(sess, m).udb, FALSE)
    <3>1. sess.uid # 0 \/ m.cmd = kCmdUserLogin BY <2>1 DEF ServeUser, First
    <3>2. r \in Answered
      BY <1>3, <1>b, <3>1 DEF Reply, Answered, Ready
    <3>3. /\ r.cmd = m.cmd /\ r.seq = m.seq /\ r.sid = m.body["stageid"]
          /\ r.err = Result(sess, m).err /\ r.uid = Asker(sess, m)
          /\ r.doc = Result(sess, m).udb /\ r.bare = FALSE
      BY DEF Reply
    <3>4. /\ docs' = Stored(Served(sess, m)) /\ sess' = Served(sess, m)
          /\ conn' = conn /\ old' = old
          /\ up' = Tail(up) /\ down' = Append(down, r)
      BY <2>1 DEF ServeUser, Answer
    <3>5. /\ docs' \in Seq(Ready) /\ Len(docs') >= Len(docs)
          /\ SessionFits(sess', Len(docs'))
      BY <1>b, <3>1, <3>4
    <3> HIDE DEF r, m
    <3>6. ByUser(m, r) BY <3>1, <3>3, <3>4 DEF ByUser
    <3>7. Handled(m, rd.clean, r)
      BY <1>0, <1>2, <3>2, <3>3, <3>4, <3>5, <3>6 DEF Handled, m
    <3> QED BY <3>4, <3>7
  <2>2. CASE ServeStranger(m)
    <3> DEFINE r == Reply(m, kErrNone, 0, userRegister, TRUE)
    <3>1. m.cmd # kCmdUserLogin /\ sess.uid = 0 BY <2>2 DEF ServeStranger, First
    <3>2. r \in Answered
      BY <1>3, <3>1, DocTypes, ErrorTypes DEF Reply, Answered
    <3>3. /\ r.cmd = m.cmd /\ r.seq = m.seq /\ r.sid = m.body["stageid"]
          /\ r.err = kErrNone /\ r.uid = 0 /\ r.bare = TRUE
      BY DEF Reply
    <3>4. /\ docs' = docs /\ sess' = sess /\ conn' = "kicked" /\ old' = old
          /\ up' = Tail(up) /\ down' = Append(down, r)
      BY <2>2 DEF ServeStranger, Answer, server
    <3> HIDE DEF r, m
    <3>5. ByStranger(m, r) BY <3>1, <3>3, <3>4 DEF ByStranger
    <3>6. /\ docs' \in Seq(Ready) /\ Len(docs') >= Len(docs)
          /\ SessionFits(sess', Len(docs'))
      BY <1>4, <3>4
    <3>7. Handled(m, rd.clean, r)
      BY <1>0, <1>2, <3>2, <3>3, <3>4, <3>5, <3>6 DEF Handled, m
    <3> QED BY <3>4, <3>7
  <2>3. CASE ServeFails(m)
    <3> DEFINE r == Reply(m, kErrWriteDB, sess.uid, userRegister, TRUE)
    <3>1. r \in Answered
      BY <1>3, <1>4, DocTypes, ErrorTypes DEF Reply, Answered, kErrWriteDB, kErrNone
    <3>2. /\ r.cmd = m.cmd /\ r.seq = m.seq /\ r.sid = m.body["stageid"]
          /\ r.err = kErrWriteDB /\ r.bare = TRUE
      BY DEF Reply
    <3>3. /\ sess' = sess /\ conn' = "kicked" /\ old' = old
          /\ up' = Tail(up) /\ down' = Append(down, r)
          /\ sess.uid # 0 \/ m.cmd = kCmdUserLogin
          /\ docs' = docs \/ docs' = Stored(Served(sess, m))
      BY <2>3 DEF ServeFails, Answer, Fallible, First
    <3>4. /\ docs' \in Seq(Ready) /\ Len(docs') >= Len(docs)
          /\ SessionFits(sess', Len(docs'))
      <4>1. CASE docs' = docs BY <1>4, <3>3, <4>1
      <4>2. CASE docs' = Stored(Served(sess, m)) BY <1>b, <3>3, <4>2
      <4> QED BY <3>3, <4>1, <4>2
    <3> HIDE DEF r, m
    <3>5. Failed(m, r) BY <3>2, <3>3 DEF Failed
    <3>6. Handled(m, rd.clean, r)
      BY <1>0, <1>2, <3>1, <3>2, <3>3, <3>4, <3>5 DEF Handled, m
    <3> QED BY <3>3, <3>6
  <2> QED BY <1>1, <2>1, <2>2, <2>3
<1>6. PICK r : Handled(m, rd.clean, r) /\ down' = Append(down, r) BY <1>5
<1>7. Counted(rd.clean, r)
  <2>1. down'[Len(down')] = r
    BY <1>4, <1>6 DEF Handled
  <2>2. Count(rd, r) BY <1>1, <2>1
  <2>3. r \in Answered BY <1>6 DEF Handled
  <2>4. \A b \in BOOLEAN : One(b) \in {0, 1} BY DEF One
  <2>5. tally' = [tally EXCEPT
       !.overtaken = @ + One(~rd.clean),
       !.strangers = @ + One(r.bare /\ r.err = kErrNone),
       !.unpaid = @ - One(Charged(r) /\ r.cmd = kCmdStartPlay),
       !.owed = [s \in Girls |-> @[s] - One(Charged(r) /\ r.cmd = kCmdStartPlay /\ s = r.sid)],
       !.itemsPaid = @ + One(Charged(r) /\ r.cmd = kCmdUseItem),
       !.credited = @ + One(sess.uid # 0 /\ r.cmd = kCmdIAPAddHeart)]
    BY <2>2 DEF Count, One, Charged
  <2>6. /\ One(~rd.clean) \in {0, 1} /\ One(r.bare /\ r.err = kErrNone) \in {0, 1}
        /\ One(Charged(r) /\ r.cmd = kCmdStartPlay) \in {0, 1}
        /\ \A s \in Girls : One(Charged(r) /\ r.cmd = kCmdStartPlay /\ s = r.sid) \in {0, 1}
        /\ One(Charged(r) /\ r.cmd = kCmdUseItem) \in {0, 1}
        /\ One(sess.uid # 0 /\ r.cmd = kCmdIAPAddHeart) \in {0, 1}
    BY DEF One
  <2>7. /\ tally.unpaid \in Int /\ tally.owed \in [Girls -> Int]
        /\ tally.strangers \in Nat /\ tally.overtaken \in Nat
        /\ tally.itemsPaid \in Nat /\ tally.credited \in Nat
    BY <1>4 DEF Tallies
  <2> HIDE DEF m
  <2>8. /\ tally'.overtaken = tally.overtaken + One(~rd.clean)
        /\ tally'.strangers = tally.strangers + One(r.bare /\ r.err = kErrNone)
        /\ tally'.unpaid = tally.unpaid - One(Charged(r) /\ r.cmd = kCmdStartPlay)
        /\ tally'.itemsPaid = tally.itemsPaid + One(Charged(r) /\ r.cmd = kCmdUseItem)
        /\ tally'.credited = tally.credited
             + One(sess.uid # 0 /\ r.cmd = kCmdIAPAddHeart)
        /\ tally'.owed = [s \in Girls |-> tally.owed[s]
             - One(Charged(r) /\ r.cmd = kCmdStartPlay /\ s = r.sid)]
    BY <1>4, <2>5, <2>7 DEF Tallies
  <2>9. /\ tally'.strays = tally.strays /\ tally'.items = tally.items
        /\ tally'.refused = tally.refused /\ tally'.bought = tally.bought
        /\ tally'.opens = tally.opens /\ tally'.unheard = tally.unheard
        /\ tally'.unfinished = tally.unfinished /\ tally'.err = tally.err
    BY <1>4, <2>5 DEF Tallies
  <2>10. /\ tally'.overtaken \in Nat /\ tally'.strangers \in Nat
         /\ tally'.unpaid \in Int /\ tally'.itemsPaid \in Nat
         /\ tally'.credited \in Nat
    BY <2>6, <2>7, <2>8
  <2>11. tally'.owed \in [Girls -> Int]
    <3>1. \A s \in Girls : tally.owed[s]
            - One(Charged(r) /\ r.cmd = kCmdStartPlay /\ s = r.sid) \in Int
      BY <2>6, <2>7
    <3> QED BY <2>8, <3>1
  <2>12. tally' = [unpaid |-> tally'.unpaid, owed |-> tally'.owed,
           strays |-> tally'.strays, strangers |-> tally'.strangers,
           items |-> tally'.items, itemsPaid |-> tally'.itemsPaid,
           refused |-> tally'.refused, bought |-> tally'.bought,
           credited |-> tally'.credited, overtaken |-> tally'.overtaken,
           opens |-> tally'.opens, unheard |-> tally'.unheard,
           unfinished |-> tally'.unfinished, err |-> tally'.err]
    BY <1>4, <2>5 DEF Tallies
  <2>13. /\ tally.strays \in Nat /\ tally.items \in Nat /\ tally.refused \in Nat
         /\ tally.bought \in Int /\ tally.opens \in Nat /\ tally.unheard \in Nat
         /\ tally.unfinished \in Nat /\ tally.err \in ErrorCodes
    BY <1>4 DEF Tallies
  <2>14. tally' \in Tallies BY <2>9, <2>10, <2>11, <2>12, <2>13 DEF Tallies
  <2>15. \A s \in Girls : tally'.owed[s] =
           tally.owed[s] - One(Charged(r) /\ r.cmd = kCmdStartPlay /\ s = r.sid)
    BY <2>8
  <2> QED BY <2>8, <2>9, <2>14, <2>15 DEF Counted
<1> QED BY <1>6, <1>7

(* The same of a connection that was left.                                   *)
Drifts(o, m, clean) ==
  /\ o \in old /\ m \in Sent /\ clean \in BOOLEAN /\ ReadAs(o.up, m, clean)
  /\ m.uid \in 0..Len(docs)
  /\ \/ docs' = docs
     \/ /\ o.sess.uid # 0 \/ m.cmd = kCmdUserLogin
        /\ docs' = Stored(Served(o.sess, m))
        /\ Asker(o.sess, m) = Len(docs) + 1 => o.sess.uid = 0 /\ m.uid = 0
        /\ Asker(o.sess, m) <= Len(docs) => Len(docs') = Len(docs)
        /\ Asker(o.sess, m) <= Len(docs) + 1
  /\ docs' \in Seq(Ready) /\ Len(docs') >= Len(docs)
  /\ \/ old' = old \ {o}
     \/ \E s : /\ SessionFits(s, Len(docs')) /\ Len(o.up) > 1 /\ s.uid # 0
               /\ old' = (old \ {o}) \cup {[o EXCEPT !.sess = s, !.up = Tail(@)]}
  /\ tally' = [tally EXCEPT
       !.overtaken = @ + One(~clean),
       !.credited = @ + One(o.sess.uid # 0 /\ m.cmd = kCmdIAPAddHeart)]
  /\ tally' \in Tallies
  /\ UNCHANGED <<scene, delegate, user, gotostart, shop, pending, net, sess, attempts>>

LEMMA DriftServed ==
  ASSUME Types, Accounts, NEW o \in old, NEW m \in Sent, m.uid \in 0..Len(docs),
         o.sess.uid # 0 \/ m.cmd = kCmdUserLogin
  PROVE  LET a == Asker(o.sess, m)
             s == Served(o.sess, m)
         IN /\ a <= Len(docs) + 1
            /\ a = Len(docs) + 1 => o.sess.uid = 0 /\ m.uid = 0
            /\ Stored(s) \in Seq(Ready) /\ Len(Stored(s)) >= Len(docs)
            /\ a <= Len(docs) => Len(Stored(s)) = Len(docs)
            /\ s.uid # 0 /\ SessionFits(s, Len(Stored(s)))
<1> DEFINE a == Asker(o.sess, m)
           s == Served(o.sess, m)
<1>1. o.sess \in Sessions BY OldFacts
<1>2. o.sess.uid # 0 => o.sess.udb \in Ready BY OldFacts
<1>3. Len(docs) \in Nat BY TypeFacts
<1>4. /\ a \in 1..(Len(docs) + 1)
      /\ a = Len(docs) + 1 => o.sess.uid = 0 /\ m.uid = 0
      /\ Stored(s) \in Seq(Ready) /\ Len(Stored(s)) >= Len(docs)
      /\ a <= Len(docs) => Len(Stored(s)) = Len(docs)
      /\ s.uid = a /\ s.udb \in Ready
      /\ s \in [uid : 0..Len(Stored(s)), udb : UserDb, dirty : BOOLEAN]
  BY <1>1, <1>2, ResultType
<1> HIDE DEF s, a
<1>5. a # 0 /\ a <= Len(docs) + 1 BY <1>3, <1>4
<1>6. SessionFits(s, Len(Stored(s))) BY <1>4 DEF SessionFits
<1> QED BY <1>4, <1>5, <1>6 DEF s, a

LEMMA DriftGoes ==
  ASSUME NEW o, NEW s, o.up \in Seq(Sent), o.up # <<>>
  PROVE  \/ Going(o, s) = {}
         \/ Len(o.up) > 1 /\ Going(o, s) = {[o EXCEPT !.sess = s, !.up = Tail(@)]}
<1>1. Len(o.up) \in Nat /\ Len(o.up) >= 1 OBVIOUS
<1>2. CASE Len(o.up) = 1 BY <1>2 DEF Going
<1>3. CASE Len(o.up) # 1
  <2>1. Going(o, s) = {[o EXCEPT !.sess = s, !.up = Tail(@)]} BY <1>3 DEF Going
  <2> DEFINE n == Len(o.up)
  <2>2. n \in Nat /\ n >= 1 /\ n # 1 BY <1>1, <1>3
  <2> HIDE DEF n
  <2>3. n > 1 BY <2>2
  <2> QED BY <2>1, <2>3 DEF n
<1> QED BY <1>2, <1>3

LEMMA DriftStep ==
  ASSUME Types, Accounts, NEW o \in old, NEW m, NEW clean \in BOOLEAN,
         ReadAs(o.up, m, clean),
         \/ /\ o.sess.uid # 0 \/ First(o.sess, m)
            /\ docs' = Stored(Served(o.sess, m))
            /\ old' = (old \ {o}) \cup Going(o, Served(o.sess, m))
         \/ /\ o.sess.uid = 0 /\ ~First(o.sess, m)
            /\ docs' = docs /\ old' = old \ {o}
         \/ /\ Fallible(o.sess, m)
            /\ docs' \in {docs, Stored(Served(o.sess, m))} /\ old' = old \ {o},
         tally' = [tally EXCEPT
           !.overtaken = @ + One(~clean),
           !.credited = @ + One(o.sess.uid # 0 /\ m.cmd = kCmdIAPAddHeart)],
         UNCHANGED <<scene, delegate, user, gotostart, shop, pending, net, sess, attempts>>
  PROVE  Drifts(o, m, clean)
<1>1. o.up \in Seq(Sent) /\ o.up # <<>> BY OldFacts
<1>2. m \in Sent BY DEF ReadAs
<1>3. m.uid \in 0..Len(docs)
  <2>1. \A i \in 1..Len(o.up) : o.up[i].uid \in 0..Len(docs) BY DEF Accounts, OldUids
  <2> QED BY <1>1, <2>1, ReadUid
<1>4. docs \in Seq(Ready) /\ Len(docs) \in Nat /\ tally \in Tallies BY TypeFacts
<1> DEFINE s == Served(o.sess, m)
           a == Asker(o.sess, m)
<1>5. ASSUME o.sess.uid # 0 \/ m.cmd = kCmdUserLogin
      PROVE  /\ a <= Len(docs) + 1
             /\ a = Len(docs) + 1 => o.sess.uid = 0 /\ m.uid = 0
             /\ Stored(s) \in Seq(Ready) /\ Len(Stored(s)) >= Len(docs)
             /\ a <= Len(docs) => Len(Stored(s)) = Len(docs)
             /\ s.uid # 0 /\ SessionFits(s, Len(Stored(s)))
  BY <1>2, <1>3, <1>5, DriftServed
<1> HIDE DEF s, a
<1>6. tally' \in Tallies
  <2> DEFINE j == One(~clean)
             k == One(o.sess.uid # 0 /\ m.cmd = kCmdIAPAddHeart)
  <2>1. j \in {0, 1} /\ k \in {0, 1} BY DEF One
  <2>2. tally' = [tally EXCEPT !.overtaken = @ + j, !.credited = @ + k] OBVIOUS
  <2> HIDE DEF j, k
  <2>3. tally.overtaken + j \in Nat /\ tally.credited + k \in Nat
    BY <1>4, <2>1 DEF Tallies
  <2>4. tally' = [tally EXCEPT !.overtaken = tally.overtaken + j,
                               !.credited = tally.credited + k]
    BY <2>2
  <2> QED BY <1>4, <2>3, <2>4 DEF Tallies
<1>7. /\ \/ docs' = docs
         \/ /\ o.sess.uid # 0 \/ m.cmd = kCmdUserLogin
            /\ docs' = Stored(s)
            /\ a = Len(docs) + 1 => o.sess.uid = 0 /\ m.uid = 0
            /\ a <= Len(docs) => Len(docs') = Len(docs)
            /\ a <= Len(docs) + 1
      /\ docs' \in Seq(Ready) /\ Len(docs') >= Len(docs)
  <2>1. \/ docs' = docs
        \/ docs' = Stored(s) /\ (o.sess.uid # 0 \/ m.cmd = kCmdUserLogin)
    BY DEF First, Fallible, s
  <2> QED BY <1>4, <1>5, <2>1
<1>8. \/ old' = old \ {o}
      \/ \E x : /\ SessionFits(x, Len(docs')) /\ Len(o.up) > 1 /\ x.uid # 0
                /\ old' = (old \ {o}) \cup {[o EXCEPT !.sess = x, !.up = Tail(@)]}
  <2>1. \/ old' = old \ {o}
        \/ /\ o.sess.uid # 0 \/ m.cmd = kCmdUserLogin
           /\ docs' = Stored(s) /\ old' = (old \ {o}) \cup Going(o, s)
    BY DEF First, s
  <2>2. CASE /\ o.sess.uid # 0 \/ m.cmd = kCmdUserLogin
             /\ docs' = Stored(s) /\ old' = (old \ {o}) \cup Going(o, s)
    <3>1. \/ Going(o, s) = {}
          \/ /\ Len(o.up) > 1
             /\ Going(o, s) = {[o EXCEPT !.sess = s, !.up = Tail(@)]}
      BY <1>1, DriftGoes
    <3>2. s.uid # 0 /\ SessionFits(s, Len(docs')) BY <1>5, <2>2
    <3>3. CASE Going(o, s) = {} BY <2>2, <3>3
    <3>4. CASE /\ Len(o.up) > 1
               /\ Going(o, s) = {[o EXCEPT !.sess = s, !.up = Tail(@)]}
      <4>1. old' = (old \ {o}) \cup {[o EXCEPT !.sess = s, !.up = Tail(@)]}
        BY <2>2, <3>4
      <4> QED BY <3>2, <3>4, <4>1
    <3> QED BY <3>1, <3>3, <3>4
  <2> QED BY <2>1, <2>2
<1> QED BY <1>2, <1>3, <1>6, <1>7, <1>8 DEF Drifts, s, a

LEMMA DriftShape ==
  ASSUME Types, Accounts, ServeOld
  PROVE  \E o, m, clean : Drifts(o, m, clean)
<1>1. PICK o \in old : \E rd \in Readings(o.up) :
         /\ \/ /\ o.sess.uid # 0 \/ First(o.sess, rd.m)
               /\ docs' = Stored(Served(o.sess, rd.m))
               /\ old' = (old \ {o}) \cup Going(o, Served(o.sess, rd.m))
            \/ /\ o.sess.uid = 0 /\ ~First(o.sess, rd.m)
               /\ docs' = docs /\ old' = old \ {o}
            \/ /\ Fallible(o.sess, rd.m)
               /\ docs' \in {docs, Stored(Served(o.sess, rd.m))} /\ old' = old \ {o}
         /\ tally' = [tally EXCEPT
              !.overtaken = @ + One(~rd.clean),
              !.credited = @ + One(o.sess.uid # 0 /\ rd.m.cmd = kCmdIAPAddHeart)]
  BY DEF ServeOld
<1>2. PICK rd \in Readings(o.up) :
         /\ \/ /\ o.sess.uid # 0 \/ First(o.sess, rd.m)
               /\ docs' = Stored(Served(o.sess, rd.m))
               /\ old' = (old \ {o}) \cup Going(o, Served(o.sess, rd.m))
            \/ /\ o.sess.uid = 0 /\ ~First(o.sess, rd.m)
               /\ docs' = docs /\ old' = old \ {o}
            \/ /\ Fallible(o.sess, rd.m)
               /\ docs' \in {docs, Stored(Served(o.sess, rd.m))} /\ old' = old \ {o}
         /\ tally' = [tally EXCEPT
              !.overtaken = @ + One(~rd.clean),
              !.credited = @ + One(o.sess.uid # 0 /\ rd.m.cmd = kCmdIAPAddHeart)]
  BY <1>1
<1>3. o.up \in Seq(Sent) /\ o.up # <<>> BY OldFacts
<1>4. rd.clean \in BOOLEAN /\ ReadAs(o.up, rd.m, rd.clean) BY <1>3, ReadingsShape
<1>5. UNCHANGED <<scene, delegate, user, gotostart, shop, pending, net, sess, attempts>>
  BY DEF ServeOld
<1>6. Drifts(o, rd.m, rd.clean) BY <1>2, <1>4, <1>5, DriftStep
<1> QED BY <1>6
-----------------------------------------------------------------------------
(* An answer that is taken: the newest, for the scene that asked.            *)
Taken(r) ==
  /\ down # <<>> /\ r = down[1] /\ r \in Answered
  /\ r.seq = delegate.last /\ delegate.target \in {"start", "game", "play", "event"}
  /\ delegate' = Flagged(delegate)
  /\ scene' \in SceneStates
  /\ scene'.at = scene.at /\ scene'.stage = scene.stage /\ scene'.poll = scene.poll
  /\ scene'.want = scene.want /\ scene'.won = scene.won
  /\ scene'.ready = scene.ready
  /\ delegate.here => scene' = Told(scene, r)
  /\ ~delegate.here => scene' = scene
  /\ user' \in [uid : Nat, heart : Int, stage : Nat, lock : [Stages -> Nat]]
  /\ user' = Heard(user, delegate.target, r)
  /\ gotostart' \in BOOLEAN
  /\ gotostart' = (gotostart \/ (r.err # kErrNone /\ delegate.target \in {"game", "event"}))
  /\ tally' \in Tallies
  /\ \E n \in {0, 1} :
       /\ tally' = [tally EXCEPT !.err = r.err, !.refused = @ + n]
       /\ delegate.target = "play" /\ r.err # kErrNone => n = 1
  /\ down' = Tail(down)
  /\ UNCHANGED <<shop, pending, conn, up, server, attempts>>

Dropped ==
  /\ down # <<>> /\ (down[1].seq # delegate.last \/ delegate.target = "none")
  /\ down' = Tail(down)
  /\ UNCHANGED <<delegate, scene, user, gotostart, tally>>
  /\ UNCHANGED <<shop, pending, conn, up, server, attempts>>

UserStates == [uid : Nat, heart : Int, stage : Nat, lock : [Stages -> Nat]]

LEMMA HeardType ==
  ASSUME NEW u \in UserStates, NEW r \in Answered,
         NEW at \in {"start", "game", "play", "event"},
         at = "start" => r.cmd = kCmdUserLogin
  PROVE  Heard(u, at, r) \in UserStates
<1>1. Heart(r) \in Int /\ Stage(r) \in Nat
  BY UintModAssumption DEF Heart, Stage, asInt, Answered, UserDb, Hearts
<1>2. CASE r.err # kErrNone BY <1>2 DEF Heard
<1>3. CASE r.err = kErrNone /\ at = "start"
  <2>1. r.bare = FALSE BY <1>3 DEF Answered
  <2>2. r.doc.lock \in [Stages -> Nat] BY <2>1 DEF Answered, Ready
  <2>3. (IF u.uid = 0 THEN r.uid ELSE u.uid) \in Nat BY DEF UserStates, Answered
  <2>4. Heard(u, at, r) = [uid |-> IF u.uid = 0 THEN r.uid ELSE u.uid,
          heart |-> Heart(r), stage |-> Stage(r), lock |-> r.doc.lock]
    BY <1>3 DEF Heard
  <2> QED BY <1>1, <2>2, <2>3, <2>4 DEF UserStates
<1>4. CASE r.err = kErrNone /\ at = "event"
  <2>1. ASSUME r.bare PROVE [u.lock EXCEPT ![1] = 1] \in [Stages -> Nat]
    BY DEF UserStates, Stages
  <2>2. ASSUME ~r.bare
        PROVE  [u.lock EXCEPT ![r.sid] = r.doc.lock[r.sid]] \in [Stages -> Nat]
    <3>1. r.doc.lock \in [Stages -> Nat] /\ u.lock \in [Stages -> Nat]
      BY <2>2 DEF Answered, Ready, UserStates
    <3>2. CASE r.sid \in Stages BY <3>1, <3>2
    <3>3. CASE r.sid \notin Stages BY <3>1, <3>3
    <3> QED BY <3>2, <3>3
  <2> DEFINE l == IF r.bare THEN [u.lock EXCEPT ![1] = 1]
                  ELSE [u.lock EXCEPT ![r.sid] = r.doc.lock[r.sid]]
  <2>3. l \in [Stages -> Nat] BY <2>1, <2>2
  <2>4. Heard(u, at, r) = [u EXCEPT !.heart = Heart(r), !.lock = l]
    BY <1>4 DEF Heard, UserStates
  <2> HIDE DEF l
  <2> QED BY <1>1, <2>3, <2>4 DEF UserStates
<1>5. CASE r.err = kErrNone /\ at \in {"game", "play"}
  BY <1>1, <1>5 DEF Heard, UserStates
<1> QED BY <1>2, <1>3, <1>4, <1>5

LEMMA ToldType ==
  ASSUME NEW s \in SceneStates, NEW r \in Answered
  PROVE  /\ Told(s, r) \in SceneStates
         /\ Told(s, r).at = s.at /\ Told(s, r).stage = s.stage
         /\ Told(s, r).poll = s.poll /\ Told(s, r).want = s.want
         /\ Told(s, r).won = s.won /\ Told(s, r).ready = s.ready
<1>1. CASE s.at = "start"
  <2> DEFINE n == IF r.err = kErrNone THEN 2 ELSE 3
  <2>1. n \in 0..3 OBVIOUS
  <2>2. Told(s, r) = [s EXCEPT !.login = n] BY <1>1 DEF Told
  <2> HIDE DEF n
  <2> QED BY <2>1, <2>2 DEF SceneStates
<1>2. CASE s.at = "play" /\ r.err = kErrNone
  <2>1. r.cmd \in Commands BY DEF Answered
  <2>2. Told(s, r) = [s EXCEPT !.cmd = r.cmd] BY <1>2 DEF Told
  <2> QED BY <2>1, <2>2 DEF SceneStates
<1>3. CASE ~(s.at = "start") /\ ~(s.at = "play" /\ r.err = kErrNone)
  BY <1>3 DEF Told
<1> QED BY <1>1, <1>2, <1>3

LEMMA MessageShape ==
  ASSUME Types, Targeted, StartLine, onMessage
  PROVE  Dropped \/ \E r : Taken(r)
<1>1. /\ scene \in SceneStates /\ down \in Seq(Answered) /\ tally \in Tallies
      /\ delegate.here \in BOOLEAN /\ gotostart \in BOOLEAN /\ user \in UserStates
  BY TypeFacts DEF Types, TypeOK, UserStates
<1>2. /\ down # <<>> /\ down' = Tail(down)
      /\ UNCHANGED <<shop, pending, conn, up, server, attempts>>
  BY DEF onMessage
<1> DEFINE r == down[1]
<1>3. Len(down) \in Nat /\ 1 \in 1..Len(down) /\ Head(down) = r /\ r \in Answered
  BY <1>1, <1>2
<1>4. CASE r.seq # delegate.last BY <1>2, <1>3, <1>4 DEF onMessage, Dropped
<1>5. CASE r.seq = delegate.last /\ delegate.target = "none"
  BY <1>2, <1>3, <1>5 DEF onMessage, Deliver, Dropped
<1>6. CASE r.seq = delegate.last /\ delegate.target # "none"
  <2> DEFINE at == delegate.target
  <2>1. at \in {"start", "game", "play", "event"} BY <1>6 DEF Targeted
  <2>2. at = "start" => r.cmd = kCmdUserLogin BY <1>3 DEF StartLine
  <2>3. /\ delegate' = [delegate EXCEPT !.flag = TRUE]
        /\ scene' = IF delegate.here THEN Told(scene, r) ELSE scene
        /\ user' = Heard(user, at, r)
        /\ gotostart' = (gotostart \/ (r.err # kErrNone /\ at \in {"game", "event"}))
        /\ tally' = [tally EXCEPT !.err = r.err,
             !.refused = @ + (IF at = "play" /\ r.err # kErrNone THEN 1 ELSE 0)]
    BY <1>3, <1>6 DEF onMessage, Deliver
  <2> HIDE DEF r
  <2>4. user' \in UserStates BY <1>1, <1>3, <2>1, <2>2, <2>3, HeardType
  <2>5. /\ scene' \in SceneStates
        /\ scene'.at = scene.at /\ scene'.stage = scene.stage
        /\ scene'.poll = scene.poll /\ scene'.want = scene.want
        /\ scene'.won = scene.won /\ scene'.ready = scene.ready
    BY <1>1, <1>3, <2>3, ToldType
  <2>6. /\ delegate.here => scene' = Told(scene, r)
        /\ ~delegate.here => scene' = scene
    BY <2>3
  <2>7. gotostart' \in BOOLEAN BY <1>1, <2>3
  <2> DEFINE n == IF at = "play" /\ r.err # kErrNone THEN 1 ELSE 0
  <2>8. /\ n \in {0, 1} /\ (at = "play" /\ r.err # kErrNone => n = 1)
        /\ tally' = [tally EXCEPT !.err = r.err, !.refused = @ + n]
    BY <2>3
  <2>9. r.err \in ErrorCodes BY <1>3 DEF Answered
  <2> HIDE DEF n
  <2>10. tally' \in Tallies
    <3>1. tally.refused \in Nat BY <1>1 DEF Tallies
    <3> DEFINE k == tally.refused + n
               e == r.err
    <3>2. k \in Nat BY <2>8, <3>1
    <3>3. e \in ErrorCodes BY <2>9
    <3>4. tally' = [tally EXCEPT !.err = e, !.refused = k] BY <2>8
    <3> HIDE DEF k, e
    <3> QED BY <1>1, <3>2, <3>3, <3>4 DEF Tallies
  <2>11. \E k \in {0, 1} :
           /\ tally' = [tally EXCEPT !.err = r.err, !.refused = @ + k]
           /\ at = "play" /\ r.err # kErrNone => k = 1
    BY <2>8
  <2>12. Taken(r)
    BY <1>2, <1>3, <1>6, <2>1, <2>3, <2>4, <2>5, <2>6, <2>7, <2>10, <2>11
    DEF Taken, UserStates, Flagged, r
  <2> QED BY <2>12
<1> QED BY <1>4, <1>5, <1>6

(* A purchase credited: a request nobody waits for, and the selection screen.*)
Sold ==
  /\ pending > 0 /\ shop.iap
  /\ delegate' = Sending(delegate, "none", FALSE)
  /\ up' = IF conn = "open"
           THEN Append(up, Outgoing(kCmdIAPAddHeart, Body([addheart |-> PurchaseHearts])))
           ELSE up
  /\ user' = [user EXCEPT !.heart = @ + PurchaseHearts]
  /\ shop' \in ShopStates /\ shop'.iap = shop.iap
  /\ pending' = pending - 1
  /\ scene' = NewScene("game")
  /\ scene.at = "start" /\ scene.login # 2
       => tally' = [tally EXCEPT !.unheard = @ + 1]
  /\ ~(scene.at = "start" /\ scene.login # 2) => tally' = tally
  /\ UNCHANGED <<gotostart, conn, down, server, attempts>>

LEMMA CreditShape ==
  ASSUME Types, CAProductByNotify
  PROVE  Sold
<1>1. shop \in ShopStates BY DEF Types, TypeOK, ShopStates
<1>2. [shop EXCEPT !.busy = FALSE, !.target = Gone(@)] \in ShopStates
      /\ [shop EXCEPT !.busy = FALSE, !.target = Gone(@)].iap = shop.iap
  BY <1>1 DEF ShopStates, Gone
<1>3. delegate' = Sending(delegate, "none", FALSE)
  BY DEF CAProductByNotify, Credit, SendServer, Sending
<1>4. up' = IF conn = "open"
            THEN Append(up, Outgoing(kCmdIAPAddHeart, Body([addheart |-> PurchaseHearts])))
            ELSE up
  BY DEF CAProductByNotify, Credit, SendServer, Transmit, Transmitted, Outgoing
<1> QED BY <1>2, <1>3, <1>4 DEF CAProductByNotify, Credit, Sold
-----------------------------------------------------------------------------
(* Types.                                                                    *)
LEMMA ReadyDocs ==
  ASSUME NEW q \in Seq(Ready)
  PROVE  q \in Seq(UserDb)
<1>1. \A i \in 1..Len(q) : q[i] \in UserDb BY DEF Ready
<1> QED BY <1>1

LEMMA AppendSent ==
  ASSUME Types, NEW c \in Commands, NEW f \in Bodies
  PROVE  Append(up, Outgoing(c, f)) \in Seq(Sent)
<1>1. Outgoing(c, f) \in Sent BY TypeFacts DEF Outgoing, Sent
<1> QED BY <1>1, TypeFacts

LEMMA AppendAt ==
  ASSUME NEW S, NEW q \in Seq(S), NEW x \in S
  PROVE  /\ Len(Append(q, x)) = Len(q) + 1 /\ Append(q, x) # <<>>
         /\ \A i \in 1..Len(q) : Append(q, x)[i] = q[i]
         /\ Append(q, x)[Len(q) + 1] = x
         /\ \A i \in 1..Len(Append(q, x)) : i \in 1..Len(q) \/ i = Len(q) + 1
OBVIOUS

LEMMA TailAt ==
  ASSUME NEW S, NEW q \in Seq(S), q # <<>>
  PROVE  /\ Len(Tail(q)) = Len(q) - 1 /\ Len(q) \in Nat \ {0}
         /\ Tail(q) \in Seq(S)
         /\ \A i \in 1..Len(Tail(q)) : i + 1 \in 1..Len(q) /\ Tail(q)[i] = q[i + 1]
OBVIOUS

(* The client's half of them, and the server's.                              *)
ClientTypes ==
  /\ scene \in SceneStates
  /\ delegate \in DelegateStates
  /\ user \in UserStates
  /\ gotostart \in BOOLEAN
  /\ shop \in ShopStates
  /\ pending \in Nat
  /\ conn \in {"connecting", "open", "kicked", "closed"}
  /\ up \in Seq(Sent)
  /\ down \in Seq(Answered)
  /\ tally \in Tallies
  /\ scene.at = "game" => scene.stage \in Girls
OldFits(o, k, n) ==
  /\ o \in [no : 1..k, sess : [uid : 0..n, udb : UserDb, dirty : BOOLEAN],
            up : Seq(Sent) \ {<<>>}]
  /\ o.sess.uid # 0 => o.sess.udb \in Ready
ServerTypes ==
  /\ docs \in Seq(Ready)
  /\ SessionFits(sess, Len(docs))
  /\ \A o \in old : OldFits(o, attempts, Len(docs))
  /\ attempts \in Nat \ {0}

LEMMA TypesJoin ==
  ASSUME ClientTypes, ServerTypes
  PROVE  Types
<1>1. docs \in Seq(UserDb) BY ReadyDocs DEF ServerTypes
<1>2. sess \in Sessions /\ Loaded(sess) BY DEF ServerTypes, SessionFits, Sessions, Loaded
<1>3. /\ old \subseteq [no : 1..attempts, sess : Sessions, up : Seq(Sent) \ {<<>>}]
      /\ \A o \in old : Loaded(o.sess)
  BY DEF ServerTypes, OldFits, Sessions, Loaded
<1> QED BY <1>1, <1>2, <1>3
        DEF ClientTypes, ServerTypes, Types, TypeOK, UserStates, ShopStates

LEMMA TypesSplit ==
  ASSUME Types
  PROVE  ClientTypes /\ ServerTypes
<1>1. ClientTypes BY DEF Types, TypeOK, ClientTypes, UserStates, ShopStates
<1>2. SessionFits(sess, Len(docs)) BY DEF Types, TypeOK, SessionFits, Sessions, Loaded
<1>3. \A o \in old : OldFits(o, attempts, Len(docs))
  BY DEF Types, TypeOK, OldFits, Sessions, Loaded
<1> QED BY <1>1, <1>2, <1>3 DEF Types, TypeOK, ServerTypes

LEMMA FitsMore ==
  ASSUME NEW k \in Nat, NEW n \in Nat, NEW k2 \in Nat, NEW n2 \in Nat,
         k <= k2, n <= n2, NEW o, OldFits(o, k, n)
  PROVE  OldFits(o, k2, n2)
<1>1. (\A i \in 1..k : i \in 1..k2) /\ (\A i \in 0..n : i \in 0..n2) OBVIOUS
<1> QED BY <1>1 DEF OldFits

LEMMA NoSessionFits ==
  ASSUME NEW n \in Nat
  PROVE  SessionFits(NoSession, n) /\ NoSession.uid = 0
BY DocTypes DEF SessionFits, NoSession

LEMMA GivenUpFits ==
  ASSUME NEW k \in Nat \ {0}, NEW n \in Nat, NEW s, SessionFits(s, n),
         NEW q \in Seq(Sent), q # <<>>
  PROVE  OldFits([no |-> k, sess |-> s, up |-> q], k, n)
BY DEF OldFits, SessionFits

(* What the client sends last, if it dies there, is a request.               *)
LEMMA StopsShape ==
  ASSUME Types, Stops
  PROVE  /\ \E q \in Seq(Sent) : GiveUp(q)
         /\ scene' = NewScene("off") /\ delegate' = FreshDelegate
         /\ user' = Forget(user) /\ gotostart' = FALSE /\ shop' = ClosedShop
         /\ conn' = "closed" /\ up' = <<>> /\ down' = <<>> /\ sess' = NoSession
         /\ tally' \in {tally, [tally EXCEPT !.unfinished = @ + 1]}
         /\ UNCHANGED <<pending, docs, attempts>>
<1> DEFINE x == Outgoing(kCmdIAPAddHeart, Body([addheart |-> PurchaseHearts]))
           z == Transmitted(kCmdIAPAddHeart, Body([addheart |-> PurchaseHearts]), delegate)
<1>1. PICK q : /\ Stop(q) /\ q \in {up, z}
               /\ tally' \in {tally, [tally EXCEPT !.unfinished = @ + 1]}
  BY DEF Stops
<1>2. z \in {up, Append(up, x)} BY DEF Transmitted, Outgoing
<1>3. Append(up, x) \in Seq(Sent)
  <2>1. kCmdIAPAddHeart \in Commands BY DEF kCmdIAPAddHeart, Commands
  <2> QED BY <2>1, HeartBody, AppendSent
<1>4. up \in Seq(Sent) BY TypeFacts
<1> HIDE DEF x, z
<1>5. q \in Seq(Sent) BY <1>1, <1>2, <1>3, <1>4
<1>6. GiveUp(q) BY <1>1 DEF Stop
<1> QED BY <1>1, <1>5, <1>6 DEF Stop, GiveUp

LEMMA TypesInit ==
  ASSUME Init
  PROVE  Types
<1>1. /\ FreshLock \in [Stages -> Nat] /\ 1 \in Girls
      /\ FirstDocs \subseteq UserDb /\ \A d \in FirstDocs : d.lock # <<>>
  BY DocTypes, ClientAssumption
<1>2. /\ Schedule(NewScene("start")) \in SceneStates
      /\ Schedule(NewScene("start")).at = "start"
  BY FirstScene
<1>3. FreshDelegate \in DelegateStates BY DEF FreshDelegate, DelegateStates, Scenes
<1>4. PICK known \in Devices :
        /\ user = [NewUser EXCEPT !.uid = IF known THEN 1 ELSE 0]
        /\ docs \in IF known THEN {<<d>> : d \in FirstDocs} ELSE {<<>>}
  BY DEF Init
<1>5. user \in UserStates BY <1>1, <1>4 DEF NewUser, UserStates
<1>6. docs \in Seq(Ready)
  <2>1. \A d \in FirstDocs : d \in Ready BY <1>1 DEF Ready, UserDb, Locks
  <2>2. CASE known
    <3>1. PICK d \in FirstDocs : docs = <<d>> BY <1>4, <2>2
    <3>2. d \in Ready BY <2>1
    <3> QED BY <3>1, <3>2
  <2>3. CASE ~known
    <3>1. docs = <<>> BY <1>4, <2>3
    <3> QED BY <3>1
  <2> QED BY <2>2, <2>3
<1>7. tally \in Tallies
  <2>1. tally = [NoTally EXCEPT !.bought = pending] /\ pending \in Nat
    BY ClientAssumption DEF Init
  <2>2. NoTally \in Tallies BY ErrorTypes DEF NoTally, Tallies
  <2> QED BY <2>1, <2>2 DEF Tallies
<1>8. shop \in ShopStates BY DEF Init, ClosedShop, ShopStates
<1>9. gotostart \in BOOLEAN BY DEF Init
<1>10. pending \in Nat BY ClientAssumption DEF Init
<1>11. ClientTypes
  BY <1>2, <1>3, <1>5, <1>7, <1>8, <1>9, <1>10 DEF Init, ClientTypes
<1>12. SessionFits(sess, Len(docs)) BY <1>6, NoSessionFits DEF Init
<1>13. ServerTypes BY <1>6, <1>12 DEF Init, ServerTypes
<1> QED BY <1>11, <1>13, TypesJoin

(* A delegate that sends, waits, hears, or is left behind.                   *)
LEMMA DelegateTypes ==
  ASSUME NEW d \in DelegateStates
  PROVE  /\ Counting(d) \in DelegateStates
         /\ Flagged(d) \in DelegateStates
         /\ Freed(d) \in DelegateStates
         /\ Leave(d) \in DelegateStates
<1>1. Counting(d) \in DelegateStates BY DEF DelegateStates, Counting
<1>2. Flagged(d) \in DelegateStates BY DEF DelegateStates, Flagged
<1>3. Freed(d) \in DelegateStates BY DEF DelegateStates, Freed
<1>4. Leave(d) \in DelegateStates BY DEF DelegateStates, Leave
<1> QED BY <1>1, <1>2, <1>3, <1>4

LEMMA SendingType ==
  ASSUME NEW d \in DelegateStates, NEW at \in Scenes \cup {"none"}
  PROVE  Sending(d, at, TRUE) \in DelegateStates /\ Sending(d, at, FALSE) \in DelegateStates
<1>1. d.seq \in Nat /\ d.seq + 1 \in Nat BY DEF DelegateStates
<1>2. Sending(d, at, TRUE) \in DelegateStates BY <1>1 DEF DelegateStates, Sending
<1>3. Sending(d, at, FALSE) \in DelegateStates BY <1>1 DEF DelegateStates, Sending
<1> QED BY <1>2, <1>3

LEMMA StageNat ==
  \A n \in Stages : n \in Nat /\ n \in 1..7
BY DEF Stages, StageHeartConfig

(* What a tally, a scene and a player are changed into, one step at a time.  *)
LEMMA TallyTypes ==
  ASSUME NEW t \in Tallies
  PROVE  /\ [t EXCEPT !.unheard = @ + 1] \in Tallies
         /\ [t EXCEPT !.items = @ + 1] \in Tallies
         /\ [t EXCEPT !.opens = @ + 1] \in Tallies
         /\ [t EXCEPT !.bought = @ - 1] \in Tallies
         /\ [t EXCEPT !.unfinished = @ + 1] \in Tallies
<1>1. [t EXCEPT !.unheard = @ + 1] \in Tallies BY DEF Tallies
<1>2. [t EXCEPT !.items = @ + 1] \in Tallies BY DEF Tallies
<1>3. [t EXCEPT !.opens = @ + 1] \in Tallies BY DEF Tallies
<1>4. [t EXCEPT !.bought = @ - 1] \in Tallies BY DEF Tallies
<1>5. [t EXCEPT !.unfinished = @ + 1] \in Tallies BY DEF Tallies
<1> QED BY <1>1, <1>2, <1>3, <1>4, <1>5

LEMMA BoughtType ==
  ASSUME NEW t \in Tallies, NEW n \in {0, 1}
  PROVE  [t EXCEPT !.bought = @ + n] \in Tallies
BY DEF Tallies

LEMMA LoginType ==
  ASSUME NEW s \in SceneStates
  PROVE  LET t == [s EXCEPT !.login = 1]
         IN /\ t \in SceneStates /\ t.at = s.at /\ t.stage = s.stage
            /\ t.poll = s.poll /\ t.want = s.want /\ t.won = s.won
            /\ t.ready = s.ready
BY DEF SceneStates

LEMMA UserTypes ==
  ASSUME NEW u \in UserStates
  PROVE  /\ Forget(u) \in UserStates /\ Forget(u).uid = u.uid
         /\ [u EXCEPT !.heart = @ + PurchaseHearts] \in UserStates
<1>1. PurchaseHearts \in Nat BY ClientAssumption
<1>2. [u EXCEPT !.heart = @ + PurchaseHearts] \in UserStates
  BY <1>1 DEF UserStates
<1>3. NewUser \in UserStates BY DocTypes DEF NewUser, UserStates
<1>4. u.uid \in Nat BY DEF UserStates
<1>5. Forget(u) \in UserStates /\ Forget(u).uid = u.uid
  BY <1>3, <1>4 DEF Forget, UserStates
<1> QED BY <1>2, <1>5

LEMMA ClientTypesNext ==
  ASSUME Types, Targeted, StartLine, Accounts, [Next]_vars
  PROVE  ClientTypes'
<1>1. /\ scene \in SceneStates /\ delegate \in DelegateStates
      /\ user \in UserStates /\ gotostart \in BOOLEAN
      /\ shop \in ShopStates /\ pending \in Nat
      /\ conn \in {"connecting", "open", "kicked", "closed"}
      /\ up \in Seq(Sent) /\ down \in Seq(Answered) /\ tally \in Tallies
      /\ scene.at = "game" => scene.stage \in Girls
  BY TypesSplit DEF ClientTypes
<1>2. /\ Schedule(NewScene("start")) \in SceneStates
      /\ Schedule(NewScene("start")).at = "start"
      /\ FreshDelegate \in DelegateStates /\ 1 \in Girls
  BY FirstScene, ClientAssumption DEF FreshDelegate, DelegateStates, Scenes
<1>3. <<>> \in Seq(Sent) /\ <<>> \in Seq(Answered) OBVIOUS
<1>4. CASE Restarts
  <2>1. /\ scene' = Schedule(NewScene("start")) /\ delegate' = FreshDelegate
        /\ gotostart' = FALSE /\ conn' = "connecting" /\ up' = <<>> /\ down' = <<>>
        /\ UNCHANGED <<user, shop, pending, tally>>
    BY <1>4 DEF Restarts, Restart, GiveUp
  <2>2. gotostart' \in BOOLEAN BY <2>1
  <2>3. /\ scene' \in SceneStates /\ scene'.at = "start" /\ delegate' \in DelegateStates
        /\ up' \in Seq(Sent) /\ down' \in Seq(Answered)
        /\ UNCHANGED <<user, shop, pending, tally>> /\ conn' = "connecting"
    BY <1>2, <1>3, <2>1
  <2> QED BY <1>1, <2>2, <2>3 DEF ClientTypes
<1>5. CASE Asks
  <2>1. PICK s, c, f : AskFrom(s, c, f) /\ AskedAs(s, c, f) BY <1>5, AsksShape
  <2>2. scene' \in SceneStates /\ scene'.at = scene.at /\ scene'.stage = scene.stage
    BY <2>1, AskScene
  <2>3. delegate' \in DelegateStates
    BY <1>1, <2>1, SendingType DEF AskFrom, Scenes
  <2>4. up' \in Seq(Sent) BY <1>1, <2>1, AppendSent DEF AskFrom
  <2> QED BY <1>1, <2>1, <2>2, <2>3, <2>4
          DEF AskFrom, Rest, ClientTypes
<1>6. CASE Leaves
  <2>1. Left BY <1>6, LeavesShape
  <2>2. delegate' \in DelegateStates BY <1>1, <2>1, DelegateTypes DEF Left
  <2>3. tally' \in Tallies
    <3>1. CASE scene'.at # "play" BY <1>1, <2>1, <3>1 DEF Left
    <3>2. CASE scene'.at = "play"
      <4>1. /\ tally' = [tally EXCEPT !.unpaid = @ + 1, !.owed[scene.stage] = @ + 1,
                 !.strays = @ + (IF scene.stage = scene.want THEN 0 ELSE 1)]
            /\ scene.stage \in Girls
        BY <1>1, <2>1, <3>2 DEF Left, StageEntered
      <4>2. tally.unpaid \in Int /\ tally.owed \in [Girls -> Int] /\ tally.strays \in Nat
        BY <1>1 DEF Tallies
      <4> DEFINE o == [tally.owed EXCEPT ![scene.stage] = @ + 1]
                 n == tally.strays + (IF scene.stage = scene.want THEN 0 ELSE 1)
                 k == tally.unpaid + 1
      <4>3. o \in [Girls -> Int] BY <4>1, <4>2
      <4>4. n \in Nat /\ k \in Int BY <4>2
      <4>5. tally' = [tally EXCEPT !.unpaid = k, !.owed = o, !.strays = n]
        BY <4>1, Zenon
      <4> HIDE DEF o, n, k
      <4> QED BY <1>1, <4>3, <4>4, <4>5 DEF Tallies
    <3> QED BY <3>1, <3>2
  <2> QED BY <1>1, <1>2, <2>1, <2>2, <2>3
          DEF Left, net, ClientTypes
<1>7. CASE Stays
  <2>1. Stayed BY <1>7, StaysShape
  <2>2. delegate' \in DelegateStates BY <1>1, <2>1, DelegateTypes DEF Stayed
  <2>3. tally' \in Tallies BY <1>1, <2>1, TallyTypes DEF Stayed
  <2>4. user' \in UserStates
    <3>1. [user EXCEPT !.stage = scene.stage + 1] \in UserStates
      <4>1. scene.stage \in Stages BY TypeFacts
      <4>2. scene.stage + 1 \in Nat BY <4>1, StageNat
      <4> QED BY <1>1, <4>2 DEF UserStates
    <3> QED BY <1>1, <2>1, <3>1 DEF Stayed, onBtnClothes
  <2>5. /\ scene' \in SceneStates
        /\ UNCHANGED <<up, gotostart, shop, pending, conn, down, server, attempts>>
        /\ scene'.at = "game" => scene'.stage \in Girls
    BY <1>1, <2>1 DEF Stayed
  <2> QED BY <1>1, <2>2, <2>3, <2>4, <2>5
          DEF ClientTypes
<1>8. CASE Sells
  <2>1. /\ shop' \in ShopStates /\ pending' \in Nat /\ tally' \in Tallies
        /\ UNCHANGED <<scene, delegate, user, gotostart, net, server, attempts>>
    <3>1. CASE onBtnSale
      <4>1. PICK says \in BOOLEAN, n \in {0, 1} :
              /\ pending' = pending + n /\ tally' = [tally EXCEPT !.bought = @ + n]
              /\ shop' = [shop EXCEPT !.busy = says, !.target = "here"]
        BY <3>1 DEF onBtnSale
      <4>2. shop' \in ShopStates BY <1>1, <4>1 DEF ShopStates
      <4>3. tally' \in Tallies BY <1>1, <4>1, BoughtType
      <4> QED BY <1>1, <3>1, <4>1, <4>2, <4>3 DEF onBtnSale
    <3>2. CASE ProductFailed
      <4>1. shop' \in ShopStates BY <1>1, <3>2 DEF ProductFailed, ShopStates
      <4>2. tally' \in Tallies BY <1>1, <3>2, TallyTypes DEF ProductFailed
      <4> QED BY <1>1, <3>2, <4>1, <4>2 DEF ProductFailed
    <3> QED BY <1>8, <3>1, <3>2 DEF Sells
  <2> QED BY <1>1, <2>1 DEF net, ClientTypes
<1>9. CASE onOpen
  <2>1. delegate' \in DelegateStates
    BY <1>1, <1>9, DelegateTypes DEF onOpen, Flagged
  <2>2. scene' \in SceneStates /\ scene'.at = scene.at /\ scene'.stage = scene.stage
    <3>1. CASE delegate.target = "start"
      <4>1. scene' = [scene EXCEPT !.login = 1] BY <1>9, <3>1 DEF onOpen
      <4> QED BY <1>1, <4>1, LoginType
    <3>2. CASE delegate.target # "start" BY <1>1, <1>9, <3>2 DEF onOpen
    <3> QED BY <3>1, <3>2
  <2>3. tally' \in Tallies BY <1>1, <1>9, TallyTypes DEF onOpen
  <2> QED BY <1>1, <1>9, <2>1, <2>2, <2>3
          DEF onOpen, ClientTypes
<1>10. CASE onClose
  <2>1. delegate' \in DelegateStates
    BY <1>1, <1>10, DelegateTypes DEF onClose, Freed
  <2> QED BY <1>1, <1>3, <1>10, <2>1
          DEF onClose, GiveUp, ClientTypes
<1>11. CASE onMessage
  <2>1. CASE Dropped
    <3>1. down' \in Seq(Answered) BY <1>1, <2>1 DEF Dropped
    <3> QED BY <1>1, <2>1, <3>1 DEF Dropped, ClientTypes
  <2>2. CASE \E r : Taken(r)
    <3>1. PICK r : Taken(r) BY <2>2
    <3>2. down' \in Seq(Answered) BY <1>1, <3>1 DEF Taken
    <3>3. delegate' \in DelegateStates
      BY <1>1, <3>1, DelegateTypes DEF Taken
    <3> QED BY <1>1, <3>1, <3>2, <3>3 DEF Taken, ClientTypes, UserStates
  <2> QED BY <1>11, <2>1, <2>2, MessageShape
<1>12. CASE ServeNext
  <2>1. PICK m, clean, r : Handled(m, clean, r) /\ Counted(clean, r)
    BY <1>12, ServeShape
  <2>2. up' \in Seq(Sent) BY <1>1, <2>1 DEF Handled
  <2>3. down' \in Seq(Answered) BY <1>1, <2>1 DEF Handled
  <2>4. conn' \in {"connecting", "open", "kicked", "closed"}
    BY <1>1, <2>1 DEF Handled, ByUser, ByStranger, Failed
  <2>7. tally' \in Tallies BY <2>1 DEF Counted
  <2>8. UNCHANGED <<scene, delegate, user, gotostart, shop, pending, attempts>>
    BY <2>1 DEF Handled
  <2> QED BY <1>1, <2>2, <2>3, <2>4, <2>7, <2>8
          DEF ClientTypes
<1>13. CASE CAProductByNotify
  <2>1. Sold BY <1>13, CreditShape
  <2>2. NewScene("game") \in SceneStates /\ NewScene("game").stage = 1
    BY NewSceneFacts DEF Scenes
  <2>3. delegate' \in DelegateStates BY <1>1, <2>1, SendingType DEF Sold
  <2>4. up' \in Seq(Sent)
    <3>1. kCmdIAPAddHeart \in Commands BY DEF kCmdIAPAddHeart, Commands
    <3> QED BY <1>1, <2>1, <3>1, HeartBody, AppendSent DEF Sold
  <2>5. user' \in UserStates BY <1>1, <2>1, UserTypes DEF Sold
  <2>6. tally' \in Tallies BY <1>1, <2>1, TallyTypes DEF Sold
  <2>7. /\ scene' = NewScene("game") /\ pending' \in Nat /\ shop' \in ShopStates
        /\ UNCHANGED <<gotostart, conn, down, server, attempts>>
    BY <1>1, <2>1 DEF Sold
  <2> QED BY <1>1, <1>2, <2>2, <2>3, <2>4, <2>5, <2>6, <2>7
          DEF ClientTypes
<1>14. CASE Stops
  <2>1. NewScene("off") \in SceneStates /\ NewScene("off").at = "off"
    BY NewSceneFacts
  <2>2. Forget(user) \in UserStates BY <1>1, UserTypes
  <2>3. ClosedShop \in ShopStates BY DEF ClosedShop, ShopStates
  <2>4. /\ scene' = NewScene("off") /\ delegate' = FreshDelegate
        /\ user' = Forget(user) /\ gotostart' = FALSE /\ shop' = ClosedShop
        /\ conn' = "closed" /\ up' = <<>> /\ down' = <<>> /\ pending' = pending
        /\ tally' \in {tally, [tally EXCEPT !.unfinished = @ + 1]}
    BY <1>14, StopsShape
  <2>5. gotostart' \in BOOLEAN BY <2>4
  <2>6. tally' \in Tallies BY <1>1, <2>4, TallyTypes
  <2> QED BY <1>1, <1>2, <1>3, <2>1, <2>2, <2>3, <2>4, <2>5, <2>6 DEF ClientTypes
<1>15. CASE Launch
  BY <1>1, <1>2, <1>15 DEF Launch, ClientTypes
<1>17. CASE ServeOld
  <2>1. PICK o, m, clean : Drifts(o, m, clean) BY <1>17, DriftShape
  <2> QED BY <1>1, <2>1 DEF Drifts, net, ClientTypes
<1>16. CASE UNCHANGED vars
  BY <1>1, <1>16 DEF vars, net, ClientTypes
<1> QED
  BY <1>4, <1>5, <1>6, <1>7, <1>8, <1>9, <1>10, <1>11, <1>12, <1>13, <1>14, <1>15,
     <1>16, <1>17, NextCases DEF Network

LEMMA ServerTypesNext ==
  ASSUME Types, Targeted, StartLine, Accounts, [Next]_vars
  PROVE  ServerTypes'
<1>1. ServerTypes BY TypesSplit
<1>2. docs \in Seq(Ready) /\ Len(docs) \in Nat /\ attempts \in Nat \ {0}
      /\ SessionFits(sess, Len(docs)) /\ up \in Seq(Sent)
      /\ \A o \in old : OldFits(o, attempts, Len(docs))
  BY <1>1, TypeFacts DEF ServerTypes
<1>3. ASSUME UNCHANGED <<sess, docs, old, attempts>> PROVE ServerTypes'
  BY <1>2, <1>3 DEF ServerTypes
<1>4. ASSUME NEW q \in Seq(Sent), GiveUp(q), docs' = docs,
             attempts' \in Nat, attempts' >= attempts
      PROVE  ServerTypes'
  <2>1. SessionFits(sess', Len(docs')) BY <1>2, <1>4, NoSessionFits DEF GiveUp
  <2>2. \A o \in old : OldFits(o, attempts', Len(docs'))
    BY <1>2, <1>4, FitsMore
  <2>3. q # <<>> => OldFits([no |-> attempts, sess |-> sess, up |-> q],
                            attempts', Len(docs'))
    BY <1>2, <1>4, GivenUpFits, FitsMore
  <2>4. \A o \in old' : OldFits(o, attempts', Len(docs'))
    BY <2>2, <2>3, <1>4 DEF GiveUp
  <2>5. attempts' \in Nat \ {0} BY <1>2, <1>4
  <2> QED BY <1>2, <1>4, <2>1, <2>4, <2>5 DEF ServerTypes
<1>5. CASE Restarts
  <2>1. /\ GiveUp(up) /\ docs' = docs /\ attempts' \in Nat /\ attempts' >= attempts
    BY <1>2, <1>5 DEF Restarts, Restart
  <2> QED BY <1>2, <1>4, <2>1
<1>6. CASE Asks
  <2>1. PICK s, c, f : AskFrom(s, c, f) BY <1>6, AsksShape
  <2> QED BY <1>3, <2>1 DEF AskFrom, Rest, server
<1>7. CASE Leaves
  <2>1. Left BY <1>7, LeavesShape
  <2> QED BY <1>3, <2>1 DEF Left, server
<1>8. CASE Stays
  <2>1. Stayed BY <1>8, StaysShape
  <2> QED BY <1>3, <2>1 DEF Stayed, server
<1>9. CASE Sells BY <1>3, <1>9 DEF Sells, onBtnSale, ProductFailed, server
<1>10. CASE onOpen BY <1>3, <1>10 DEF onOpen, server
<1>11. CASE onClose
  <2>1. GiveUp(up) /\ docs' = docs /\ attempts' = attempts BY <1>11 DEF onClose
  <2> QED BY <1>2, <1>4, <2>1
<1>12. CASE onMessage BY <1>3, <1>12 DEF onMessage, server
<1>13. CASE ServeNext
  <2>1. PICK m, clean, r : Handled(m, clean, r) BY <1>13, ServeShape
  <2>2. /\ docs' \in Seq(Ready) /\ Len(docs') >= Len(docs)
        /\ SessionFits(sess', Len(docs')) /\ UNCHANGED <<old, attempts>>
    BY <2>1 DEF Handled
  <2>3. Len(docs') \in Nat BY <2>2
  <2>4. \A o \in old' : OldFits(o, attempts', Len(docs'))
    BY <1>2, <2>2, <2>3, FitsMore
  <2> QED BY <1>2, <2>2, <2>4 DEF ServerTypes
<1>14. CASE CAProductByNotify
  <2>1. Sold BY <1>14, CreditShape
  <2> QED BY <1>3, <2>1 DEF Sold, server
<1>15. CASE Stops
  <2>1. \E q \in Seq(Sent) : GiveUp(q) BY <1>15, StopsShape
  <2>2. docs' = docs /\ attempts' = attempts BY <1>15, StopsShape
  <2> QED BY <1>2, <1>4, <2>1, <2>2
<1>16. CASE Launch
  <2>1. attempts' = attempts + 1 /\ UNCHANGED <<sess, docs, old>>
    BY <1>16 DEF Launch, server
  <2>2. \A o \in old : OldFits(o, attempts', Len(docs')) BY <1>2, <2>1, FitsMore
  <2> QED BY <1>2, <2>1, <2>2 DEF ServerTypes
<1>17. CASE ServeOld
  <2>1. PICK o, m, clean : Drifts(o, m, clean) BY <1>17, DriftShape
  <2>2. /\ docs' \in Seq(Ready) /\ Len(docs') >= Len(docs) /\ o \in old
        /\ UNCHANGED <<sess, attempts>>
    BY <2>1 DEF Drifts
  <2>3. Len(docs') \in Nat BY <2>2
  <2>4. SessionFits(sess', Len(docs'))
    <3>1. \A u \in 0..Len(docs) : u \in 0..Len(docs') BY <1>2, <2>2, <2>3
    <3> QED BY <1>2, <2>2, <3>1 DEF SessionFits
  <2>5. \A p \in old : OldFits(p, attempts', Len(docs'))
    BY <1>2, <2>2, <2>3, FitsMore
  <2>6. ASSUME NEW s, SessionFits(s, Len(docs')), Len(o.up) > 1
        PROVE  OldFits([o EXCEPT !.sess = s, !.up = Tail(@)], attempts', Len(docs'))
    <3>1. OldFits(o, attempts', Len(docs')) BY <2>2, <2>5
    <3>2. o.up \in Seq(Sent) /\ Len(o.up) \in Nat BY <2>2, OldFacts
    <3> DEFINE q == Tail(o.up)
    <3>a. Len(q) = Len(o.up) - 1 /\ q \in Seq(Sent) /\ o.up # <<>>
      <4>1. o.up # <<>> BY <2>2, OldFacts
      <4> QED BY <3>2, <4>1, TailAt
    <3>3. q \in Seq(Sent) /\ q # <<>>
      <4> HIDE DEF q
      <4>1. Len(q) > 0 BY <2>6, <3>2, <3>a
      <4> QED BY <3>a, <4>1
    <3> HIDE DEF q
    <3>4. OldFits([o EXCEPT !.sess = s, !.up = q], attempts', Len(docs'))
      BY <2>6, <3>1, <3>3 DEF OldFits, SessionFits
    <3> QED BY <3>4 DEF q
  <2>7. \A p \in old' : OldFits(p, attempts', Len(docs'))
    BY <2>1, <2>5, <2>6 DEF Drifts
  <2> QED BY <1>2, <2>2, <2>4, <2>7 DEF ServerTypes
<1>18. CASE UNCHANGED vars BY <1>3, <1>18 DEF vars, server
<1> QED
  BY <1>5, <1>6, <1>7, <1>8, <1>9, <1>10, <1>11, <1>12, <1>13, <1>14, <1>15, <1>16,
     <1>17, <1>18, NextCases DEF Network

LEMMA TypesNext ==
  ASSUME Types, Targeted, StartLine, Accounts, [Next]_vars
  PROVE  Types'
<1>1. ClientTypes' /\ ServerTypes' BY ClientTypesNext, ServerTypesNext
<1>2. docs' \in Seq(UserDb) BY <1>1, ReadyDocs DEF ServerTypes
<1>3. sess' \in [uid : 0..Len(docs'), udb : UserDb, dirty : BOOLEAN]
      /\ (sess'.uid # 0 => sess'.udb \in Ready)
  BY <1>1 DEF ServerTypes, SessionFits
<1>4. \A o \in old' :
         /\ o \in [no : 1..attempts',
                   sess : [uid : 0..Len(docs'), udb : UserDb, dirty : BOOLEAN],
                   up : Seq(Sent) \ {<<>>}]
         /\ o.sess.uid # 0 => o.sess.udb \in Ready
  BY <1>1 DEF ServerTypes, OldFits
<1> QED BY <1>1, <1>2, <1>3, <1>4
        DEF ClientTypes, ServerTypes, Types, TypeOK, UserStates, ShopStates, Sessions,
            Loaded
-----------------------------------------------------------------------------
(* Which scene is called back, and how requests are numbered.                *)
LEMMA SendingFields ==
  ASSUME NEW d \in DelegateStates, NEW at
  PROVE  /\ Sending(d, at, TRUE).last = d.seq /\ Sending(d, at, TRUE).seq = d.seq + 1
         /\ Sending(d, at, TRUE).flag = FALSE /\ Sending(d, at, TRUE).count = 0
         /\ Sending(d, at, TRUE).target = at /\ Sending(d, at, TRUE).here = TRUE
         /\ Sending(d, at, FALSE).last = d.seq /\ Sending(d, at, FALSE).seq = d.seq + 1
         /\ Sending(d, at, FALSE).flag = FALSE /\ Sending(d, at, FALSE).count = 0
         /\ Sending(d, at, FALSE).target = at /\ Sending(d, at, FALSE).here = FALSE
BY DEF Sending, DelegateStates

LEMMA DelegateFields ==
  ASSUME NEW d \in DelegateStates
  PROVE  /\ Leave(d).last = d.last /\ Leave(d).seq = d.seq
         /\ Leave(d).target = d.target /\ Leave(d).here = FALSE
         /\ Leave(d).flag = d.flag /\ Leave(d).count = d.count
         /\ Counting(d).last = d.last /\ Counting(d).seq = d.seq
         /\ Counting(d).target = d.target /\ Counting(d).here = d.here
         /\ Counting(d).flag = d.flag /\ Counting(d).count = d.count + 1
         /\ Flagged(d).last = d.last /\ Flagged(d).seq = d.seq
         /\ Flagged(d).target = d.target /\ Flagged(d).here = d.here
         /\ Flagged(d).flag = TRUE /\ Flagged(d).count = d.count
         /\ Freed(d).last = d.last /\ Freed(d).seq = d.seq
         /\ Freed(d).target = d.target /\ Freed(d).here = d.here
         /\ Freed(d).flag = d.flag /\ Freed(d).count = d.count
<1>1. /\ Leave(d).last = d.last /\ Leave(d).seq = d.seq
      /\ Leave(d).target = d.target /\ Leave(d).here = FALSE
      /\ Leave(d).flag = d.flag /\ Leave(d).count = d.count
  BY DEF DelegateStates, Leave
<1>2. /\ Counting(d).last = d.last /\ Counting(d).seq = d.seq
      /\ Counting(d).target = d.target /\ Counting(d).here = d.here
      /\ Counting(d).flag = d.flag /\ Counting(d).count = d.count + 1
  BY DEF DelegateStates, Counting
<1>3. /\ Flagged(d).last = d.last /\ Flagged(d).seq = d.seq
      /\ Flagged(d).target = d.target /\ Flagged(d).here = d.here
      /\ Flagged(d).flag = TRUE /\ Flagged(d).count = d.count
  BY DEF DelegateStates, Flagged
<1>4. /\ Freed(d).last = d.last /\ Freed(d).seq = d.seq
      /\ Freed(d).target = d.target /\ Freed(d).here = d.here
      /\ Freed(d).flag = d.flag /\ Freed(d).count = d.count
  BY DEF DelegateStates, Freed
<1> QED BY <1>1, <1>2, <1>3, <1>4

LEMMA TargetedInit ==
  ASSUME Init
  PROVE  Targeted
<1>1. /\ Schedule(NewScene("start")).at = "start"
      /\ Schedule(NewScene("start")) \in SceneStates
  BY FirstScene
<1> QED BY <1>1 DEF Init, Targeted, FreshDelegate

LEMMA TargetedNext ==
  ASSUME Types, Targeted, StartLine, Accounts, [Next]_vars
  PROVE  Targeted'
<1>1. /\ scene \in SceneStates /\ delegate \in DelegateStates
      /\ scene.poll \in Nat
      /\ delegate.flag \in BOOLEAN /\ delegate.here \in BOOLEAN
  BY TypeFacts
<1>2. /\ Schedule(NewScene("start")) \in SceneStates
      /\ Schedule(NewScene("start")).at = "start"
      /\ FreshDelegate.target = "start" /\ FreshDelegate.here = TRUE
  BY FirstScene DEF FreshDelegate
<1>3. NewScene("off").at = "off" /\ NewScene("off").poll = 0
      /\ NewScene("game").at = "game" /\ NewScene("game").poll = 0
  BY NewSceneFacts DEF Scenes
<1>4. CASE Restarts
  BY <1>2, <1>4 DEF Restarts, Restart, GiveUp, Targeted
<1>5. CASE Asks
  <2>1. PICK s, c, f : AskFrom(s, c, f) /\ AskedAs(s, c, f) BY <1>5, AsksShape
  <2>2. scene'.at = scene.at BY <2>1, AskScene
  <2>3. delegate'.target = scene.at /\ delegate'.here = TRUE
    BY <1>1, <2>1, SendingFields DEF AskFrom
  <2> QED BY <2>1, <2>2, <2>3 DEF AskFrom, Targeted
<1>6. CASE Leaves
  <2>1. Left BY <1>6, LeavesShape
  <2>2. delegate'.target = delegate.target /\ delegate'.here = FALSE
        /\ delegate'.flag = delegate.flag
    BY <1>1, <2>1, DelegateFields DEF Left
  <2>3. scene'.poll = 0 /\ scene'.at \in {"game", "play", "event", "shop"}
    BY <2>1 DEF Left
  <2> QED BY <2>2, <2>3 DEF Targeted
<1>7. CASE Stays /\ scene.at # "off"
  <2>1. Stayed BY <1>7, StaysShape
  <2>2. delegate'.target = delegate.target /\ delegate'.here = delegate.here
        /\ delegate'.flag = delegate.flag
    <3>1. CASE delegate' = delegate BY <3>1
    <3>2. CASE delegate' = Counting(delegate) BY <1>1, <3>2, DelegateFields
    <3> QED BY <2>1, <3>1, <3>2 DEF Stayed
  <2>3. scene'.at = scene.at /\ (scene'.poll > 0 => scene.poll > 0)
    BY <1>1, <2>1 DEF Stayed
  <2> QED BY <1>7, <2>2, <2>3 DEF Targeted
<1>8. CASE Sells
  BY <1>8 DEF Sells, onBtnSale, ProductFailed, net, Targeted
<1>9. CASE onOpen /\ scene.at # "off"
  <2>1. delegate'.target = delegate.target /\ delegate'.here = delegate.here
        /\ (delegate.target = "none" => delegate'.flag = delegate.flag)
    <3>1. CASE delegate.target = "none" BY <1>9, <3>1 DEF onOpen
    <3>2. CASE delegate.target # "none"
      <4>1. delegate' = Flagged(delegate) BY <1>9, <3>2 DEF onOpen, Flagged
      <4>2. delegate'.target = delegate.target /\ delegate'.here = delegate.here
        BY <1>1, <4>1, DelegateFields
      <4> QED BY <3>2, <4>2
    <3> QED BY <3>1, <3>2
  <2>2. scene'.at = scene.at /\ scene'.poll = scene.poll
    <3>1. CASE delegate.target = "start"
      <4>1. scene' = [scene EXCEPT !.login = 1] BY <1>9, <3>1 DEF onOpen
      <4> QED BY <1>1, <4>1, LoginType
    <3>2. CASE delegate.target # "start" BY <1>9, <3>2 DEF onOpen
    <3> QED BY <3>1, <3>2
  <2> QED BY <1>9, <2>1, <2>2 DEF Targeted
<1>10. CASE onClose /\ scene.at # "off"
  <2>1. delegate'.target = delegate.target /\ delegate'.here = delegate.here
        /\ delegate'.flag = delegate.flag
    <3>1. delegate' = Freed(delegate) BY <1>10 DEF onClose, Freed
    <3> QED BY <1>1, <3>1, DelegateFields
  <2> QED BY <1>10, <2>1 DEF onClose, Targeted
<1>11. CASE onMessage /\ scene.at # "off"
  <2>1. CASE Dropped BY <1>11, <2>1 DEF Dropped, Targeted
  <2>2. CASE \E r : Taken(r)
    <3>1. PICK r : Taken(r) BY <2>2
    <3>2. delegate'.target = delegate.target /\ delegate'.here = delegate.here
      <4>1. delegate' = Flagged(delegate) BY <3>1 DEF Taken
      <4> QED BY <1>1, <4>1, DelegateFields
    <3>3. scene'.at = scene.at /\ scene'.poll = scene.poll /\ delegate.target # "none"
      BY <3>1 DEF Taken
    <3> QED BY <1>11, <3>2, <3>3 DEF Targeted
  <2> QED BY <1>11, <2>1, <2>2, MessageShape
<1>12. CASE ServeNext /\ scene.at # "off"
  BY <1>12 DEF ServeNext, Targeted
<1>13. CASE CAProductByNotify
  <2>1. Sold BY <1>13, CreditShape
  <2>2. delegate'.target = "none" /\ delegate'.here = FALSE /\ delegate'.flag = FALSE
    BY <1>1, <2>1, SendingFields DEF Sold
  <2>3. scene'.at = "game" /\ scene'.poll = 0 BY <1>3, <2>1 DEF Sold
  <2> QED BY <2>2, <2>3 DEF Targeted
<1>14. CASE Stops
  BY <1>2, <1>3, <1>14, StopsShape DEF Targeted
<1>15. CASE Launch
  <2>1. scene.at = "off" /\ scene'.at = "start" /\ delegate' = delegate
    BY <1>2, <1>15 DEF Launch
  <2>2. delegate = FreshDelegate BY <2>1 DEF Targeted
  <2> QED BY <1>2, <2>1, <2>2 DEF Targeted
<1>16. CASE UNCHANGED vars
  BY <1>16 DEF vars, net, Targeted
<1>17. CASE ServeOld BY <1>17 DEF ServeOld, net, Targeted
<1> QED
  BY <1>4, <1>5, <1>6, <1>7, <1>8, <1>9, <1>10, <1>11, <1>12, <1>13, <1>14, <1>15,
     <1>16, <1>17, NextCases DEF Network
LEMMA NumberedInit ==
  ASSUME Init
  PROVE  Numbered
BY DEF Init, Numbered, FreshDelegate

LEMMA NumberedStill ==
  ASSUME Numbered, delegate'.seq = delegate.seq, delegate'.last = delegate.last,
         UNCHANGED <<conn, up, down, sess>>
  PROVE  Numbered'
BY DEF Numbered

(* A new request, on a connection that may be up or not.                     *)
LEMMA NumberedSend ==
  ASSUME Types, Numbered, NEW x \in Sent, x.seq = delegate.seq,
         up' = IF conn = "open" THEN Append(up, x) ELSE up,
         delegate'.last = delegate.seq, delegate'.seq = delegate.seq + 1,
         UNCHANGED <<conn, down, sess>>
  PROVE  Numbered'
<1>1. /\ up \in Seq(Sent) /\ delegate.last \in Nat /\ delegate.seq = delegate.last + 1
      /\ Len(up) \in Nat
  BY TypeFacts DEF Numbered
<1>2. /\ \A k \in 1..Len(up) : up[k].seq \in Nat /\ up[k].seq <= delegate.last
      /\ \A k, l \in 1..Len(up) : k < l => up[k].seq < up[l].seq
      /\ \A k \in 1..Len(down) : down[k].seq <= delegate.last
  <2>1. \A k \in 1..Len(up) : up[k] \in Sent BY <1>1
  <2>2. \A k \in 1..Len(up) : up[k].seq \in Nat BY <2>1 DEF Sent
  <2> QED BY <2>2 DEF Numbered
<1>3. \A k \in 1..Len(down') : down'[k].seq <= delegate'.last
  <2>1. \A k \in 1..Len(down) : down[k].seq \in Nat
    <3>1. down \in Seq(Answered) BY TypeFacts
    <3>2. \A k \in 1..Len(down) : down[k] \in Answered BY <3>1
    <3> QED BY <3>2 DEF Answered
  <2> QED BY <1>1, <1>2, <2>1
<1>4. CASE conn = "open"
  <2>1. up' = Append(up, x) BY <1>4
  <2>2. /\ Len(up') = Len(up) + 1
        /\ \A k \in 1..Len(up) : up'[k] = up[k]
        /\ up'[Len(up) + 1] = x
        /\ \A k \in 1..Len(up') : k \in 1..Len(up) \/ k = Len(up) + 1
    BY <1>1, <2>1, AppendAt
  <2>3. \A k \in 1..Len(up') : up'[k].seq <= delegate'.last
    BY <1>1, <1>2, <2>2
  <2>4. \A k, l \in 1..Len(up') : k < l => up'[k].seq < up'[l].seq
    <3> SUFFICES ASSUME NEW k \in 1..Len(up'), NEW l \in 1..Len(up'), k < l
                 PROVE  up'[k].seq < up'[l].seq
      OBVIOUS
    <3>1. CASE l \in 1..Len(up)
      <4>1. k \in 1..Len(up) BY <1>1, <3>1
      <4> QED BY <1>2, <2>2, <3>1, <4>1
    <3>2. CASE l = Len(up) + 1
      <4>1. k \in 1..Len(up) BY <1>1, <2>2, <3>2
      <4>2. up'[k].seq <= delegate.last /\ up'[k].seq \in Nat BY <1>2, <2>2, <4>1
      <4>3. up'[l].seq = delegate.last + 1 BY <1>1, <2>2, <3>2
      <4> QED BY <1>1, <4>2, <4>3
    <3> QED BY <2>2, <3>1, <3>2
  <2>5. up'[Len(up')].seq = delegate'.last BY <2>2
  <2>6. conn' = "open" BY <1>4
  <2>7. delegate'.seq = delegate'.last + 1 BY <1>1
  <2> QED BY <1>3, <2>3, <2>4, <2>5, <2>6, <2>7 DEF Numbered
<1>5. CASE conn # "open"
  <2>1. up' = up /\ conn' # "open" BY <1>5
  <2>2. \A k \in 1..Len(up) : up[k].seq <= delegate'.last BY <1>1, <1>2
  <2>3. delegate'.seq = delegate'.last + 1 BY <1>1
  <2> QED BY <1>3, <2>1, <2>2, <2>3 DEF Numbered
<1> QED BY <1>4, <1>5

LEMMA OutgoingSent ==
  ASSUME Types, NEW c \in Commands, NEW f \in Bodies
  PROVE  /\ Outgoing(c, f) \in Sent /\ Outgoing(c, f).seq = delegate.seq
         /\ Outgoing(c, f).cmd = c /\ Outgoing(c, f).body = f
         /\ Outgoing(c, f).uid = user.uid
BY TypeFacts DEF Outgoing, Sent

LEMMA NumberedNext ==
  ASSUME Types, Targeted, StartLine, Accounts, Numbered, [Next]_vars
  PROVE  Numbered'
<1>1. /\ delegate \in DelegateStates /\ up \in Seq(Sent) /\ down \in Seq(Answered)
      /\ Len(up) \in Nat /\ Len(down) \in Nat
  BY TypeFacts
<1>2. FreshDelegate.seq = FreshDelegate.last + 1 BY DEF FreshDelegate
<1>3. CASE Restarts
  BY <1>2, <1>3 DEF Restarts, Restart, GiveUp, Numbered
<1>4. CASE Asks
  <2>1. PICK s, c, f : AskFrom(s, c, f) BY <1>4, AsksShape
  <2>2. Outgoing(c, f) \in Sent /\ Outgoing(c, f).seq = delegate.seq
    BY <2>1, OutgoingSent DEF AskFrom
  <2>3. delegate'.last = delegate.seq /\ delegate'.seq = delegate.seq + 1
    BY <1>1, <2>1, SendingFields DEF AskFrom
  <2>4. /\ up' = IF conn = "open" THEN Append(up, Outgoing(c, f)) ELSE up
        /\ UNCHANGED <<conn, down, sess>>
    BY <2>1 DEF AskFrom, Rest, server
  <2> QED BY <2>2, <2>3, <2>4, NumberedSend
<1>5. CASE Leaves
  <2>1. Left BY <1>5, LeavesShape
  <2>2. delegate'.last = delegate.last /\ delegate'.seq = delegate.seq
    BY <1>1, <2>1, DelegateFields DEF Left
  <2> QED BY <2>1, <2>2, NumberedStill DEF Left, net, server
<1>6. CASE Stays
  <2>1. Stayed BY <1>6, StaysShape
  <2>2. delegate'.last = delegate.last /\ delegate'.seq = delegate.seq
    <3>1. CASE delegate' = delegate BY <3>1
    <3>2. CASE delegate' = Counting(delegate) BY <1>1, <3>2, DelegateFields
    <3> QED BY <2>1, <3>1, <3>2 DEF Stayed
  <2> QED BY <2>1, <2>2, NumberedStill DEF Stayed, server
<1>7. CASE Sells
  BY <1>7, NumberedStill DEF Sells, onBtnSale, ProductFailed, net, server
<1>8. CASE onOpen
  <2>1. delegate' = delegate \/ delegate' = Flagged(delegate)
    BY <1>8 DEF onOpen, Flagged
  <2>2. delegate'.last = delegate.last /\ delegate'.seq = delegate.seq
    <3>1. CASE delegate' = delegate BY <3>1
    <3>2. CASE delegate' = Flagged(delegate) BY <1>1, <3>2, DelegateFields
    <3> QED BY <2>1, <3>1, <3>2
  <2> QED BY <1>8, <2>2 DEF onOpen, server, Numbered
<1>9. CASE onClose
  <2>1. delegate' = Freed(delegate) BY <1>9 DEF onClose, Freed
  <2>2. delegate'.last = delegate.last /\ delegate'.seq = delegate.seq
    BY <1>1, <2>1, DelegateFields
  <2> QED BY <1>9, <2>2 DEF onClose, GiveUp, Numbered
<1>10. CASE onMessage
  <2>1. /\ down # <<>> /\ down' = Tail(down) /\ UNCHANGED <<conn, up, sess>>
    BY <1>10 DEF onMessage, server
  <2>2. delegate'.last = delegate.last /\ delegate'.seq = delegate.seq
    <3>1. CASE Dropped BY <3>1 DEF Dropped
    <3>2. CASE \E r : Taken(r)
      <4>1. delegate' = Flagged(delegate) BY <3>2 DEF Taken
      <4> QED BY <1>1, <4>1, DelegateFields
    <3> QED BY <1>10, <3>1, <3>2, MessageShape
  <2>3. \A k \in 1..Len(down') : k + 1 \in 1..Len(down) /\ down'[k] = down[k + 1]
    BY <1>1, <2>1, TailAt
  <2>4. \A k \in 1..Len(down') : down'[k].seq <= delegate'.last
    BY <2>2, <2>3 DEF Numbered
  <2>5. conn \notin {"connecting", "closed"} BY <2>1 DEF Numbered
  <2> QED BY <2>1, <2>2, <2>4, <2>5 DEF Numbered
<1>11. CASE ServeNext
  <2>1. PICK m, clean, r : Handled(m, clean, r) BY <1>11, ServeShape
  <2>2. /\ conn = "open" /\ up # <<>> /\ up' = Tail(up) /\ delegate' = delegate
        /\ down' = Append(down, r) /\ r \in Answered /\ r.seq = m.seq
    BY <2>1 DEF Handled
  <2>3. /\ Len(up') = Len(up) - 1 /\ Len(up) \in Nat \ {0}
        /\ \A k \in 1..Len(up') : k + 1 \in 1..Len(up) /\ up'[k] = up[k + 1]
    BY <1>1, <2>2, TailAt
  <2>4. /\ \A k \in 1..Len(down) : down'[k] = down[k]
        /\ down'[Len(down) + 1] = r
        /\ \A k \in 1..Len(down') : k \in 1..Len(down) \/ k = Len(down) + 1
    BY <1>1, <2>2, AppendAt
  <2>5. r.seq <= delegate.last
    <3>1. \E k \in 1..Len(up) : m.seq = up[k].seq
      BY <2>1, <2>3 DEF Handled, ReadAs
    <3> QED BY <2>2, <3>1 DEF Numbered
  <2>6. conn' \in {"open", "kicked"}
    BY <2>1, <2>2 DEF Handled, ByUser, ByStranger, Failed
  <2>7. \A k \in 1..Len(down') : down'[k].seq <= delegate'.last
    BY <2>2, <2>4, <2>5 DEF Numbered
  <2>8. \A k \in 1..Len(up') : up'[k].seq <= delegate'.last
    BY <2>2, <2>3 DEF Numbered
  <2>9. \A k, l \in 1..Len(up') : k < l => up'[k].seq < up'[l].seq
    <3> SUFFICES ASSUME NEW k \in 1..Len(up'), NEW l \in 1..Len(up'), k < l
                 PROVE  up'[k].seq < up'[l].seq
      OBVIOUS
    <3>1. k + 1 \in 1..Len(up) /\ l + 1 \in 1..Len(up) /\ k + 1 < l + 1
      BY <2>3
    <3> QED BY <2>3, <3>1 DEF Numbered
  <2>10. up' # <<>> => up'[Len(up')].seq = delegate'.last
    <3> HAVE up' # <<>>
    <3>1. Len(up') \in 1..Len(up') /\ Len(up') + 1 = Len(up)
      <4>1. up' \in Seq(Sent) BY <1>1, <2>2, TailAt
      <4>2. Len(up') # 0 BY <4>1
      <4> QED BY <2>3, <4>2
    <3>2. up'[Len(up')] = up[Len(up)] BY <2>3, <3>1
    <3> QED BY <2>2, <3>2 DEF Numbered
  <2>11. delegate'.seq = delegate'.last + 1 BY <2>2 DEF Numbered
  <2> QED BY <2>6, <2>7, <2>8, <2>9, <2>10, <2>11 DEF Numbered
<1>12. CASE CAProductByNotify
  <2>1. Sold BY <1>12, CreditShape
  <2> DEFINE x == Outgoing(kCmdIAPAddHeart, Body([addheart |-> PurchaseHearts]))
  <2>2. x \in Sent /\ x.seq = delegate.seq
    <3>1. kCmdIAPAddHeart \in Commands BY DEF kCmdIAPAddHeart, Commands
    <3> QED BY <3>1, HeartBody, OutgoingSent
  <2>3. delegate'.last = delegate.seq /\ delegate'.seq = delegate.seq + 1
    BY <1>1, <2>1, SendingFields DEF Sold
  <2>4. /\ up' = IF conn = "open" THEN Append(up, x) ELSE up
        /\ UNCHANGED <<conn, down, sess>>
    BY <2>1 DEF Sold, server
  <2> HIDE DEF x
  <2> QED BY <2>2, <2>3, <2>4, NumberedSend
<1>13. CASE Stops BY <1>2, <1>13, StopsShape DEF Numbered
<1>14. CASE Launch
  <2>1. conn = "closed" BY <1>14 DEF Launch, Targeted
  <2> QED BY <1>14, <2>1 DEF Launch, server, Numbered
<1>15. CASE UNCHANGED vars
  BY <1>15, NumberedStill DEF vars, net, server
<1>16. CASE ServeOld BY <1>16, NumberedStill DEF ServeOld, net
<1> QED
  BY <1>3, <1>4, <1>5, <1>6, <1>7, <1>8, <1>9, <1>10, <1>11, <1>12, <1>13, <1>14,
     <1>15, <1>16, NextCases DEF Network
-----------------------------------------------------------------------------
(* The start scene and its login.                                            *)
LEMMA StartLineInit ==
  ASSUME Init
  PROVE  StartLine
<1>1. LET s == Schedule(NewScene("start"))
      IN /\ s.at = "start" /\ s.poll = SCHEDULE_TIMEOUT + 1
         /\ s.login = 0 /\ s.ready = FALSE
  BY FirstScene
<1>2. NETWORK_TIMEOUT \in Nat \ {0} /\ SCHEDULE_TIMEOUT \in Nat
  BY ClientAssumption
<1> QED BY <1>1, <1>2 DEF Init, StartLine, FreshDelegate

(* Its two halves: the line it waits on, and the scene.                      *)
Line ==
  delegate.target = "start" =>
    /\ \A i \in 1..Len(up) : up[i].cmd = kCmdUserLogin
    /\ \A i \in 1..Len(down) : down[i].cmd = kCmdUserLogin
    /\ Len(up) + Len(down) <= 1
    /\ delegate.flag => up = <<>> /\ down = <<>>
Waiting ==
  scene.at = "start" =>
    /\ scene.poll > 0 /\ ~delegate.flag =>
         /\ delegate.count + scene.poll = SCHEDULE_TIMEOUT + 1
         /\ delegate.count < NETWORK_TIMEOUT
    /\ scene.login = 0 => ~delegate.flag /\ up = <<>> /\ down = <<>>
    /\ conn = "connecting" => scene.login = 0
    /\ scene.login = 1 /\ delegate.flag => sess.uid = 0
    /\ scene.login \in {2, 3} => delegate.flag
    /\ scene.login = 3 => tally.err # kErrNone
    /\ scene.ready => scene.login = 2
    /\ scene.poll = 0 => scene.ready \/ scene.login = 3

LEMMA StartLineParts == StartLine <=> Line /\ Waiting
BY DEF StartLine, Line, Waiting

LEMMA StartLineNext ==
  ASSUME Types, Targeted, StartLine, Accounts, Numbered, [Next]_vars
  PROVE  StartLine'
<1>1. /\ scene \in SceneStates /\ delegate \in DelegateStates
      /\ up \in Seq(Sent) /\ down \in Seq(Answered) /\ scene.poll \in Nat
      /\ Len(up) \in Nat /\ Len(down) \in Nat /\ delegate.count \in Nat
      /\ delegate.flag \in BOOLEAN /\ tally \in Tallies
  BY TypeFacts
<1>2. NETWORK_TIMEOUT \in Nat \ {0} /\ SCHEDULE_TIMEOUT \in Nat
      /\ NETWORK_TIMEOUT <= SCHEDULE_TIMEOUT
  BY ClientAssumption
<1>3. LET s == Schedule(NewScene("start"))
      IN /\ s.at = "start" /\ s.poll = SCHEDULE_TIMEOUT + 1
         /\ s.login = 0 /\ s.ready = FALSE
  BY FirstScene
<1>4. /\ FreshDelegate.target = "start" /\ FreshDelegate.flag = FALSE
      /\ FreshDelegate.count = 0
  BY DEF FreshDelegate
<1>5. scene.at = "start" => delegate.target = "start" /\ delegate.here
  BY DEF Targeted
<1>6. Line /\ Waiting BY StartLineParts
<1>7. scene.login \in 0..3 /\ scene.ready \in BOOLEAN BY <1>1 DEF SceneStates
<1>8. \A s \in {"game", "play", "event", "shop"} : s # "start" OBVIOUS
<1>9. CASE Restarts
  <2>1. /\ scene' = Schedule(NewScene("start")) /\ delegate' = FreshDelegate
        /\ conn' = "connecting" /\ up' = <<>> /\ down' = <<>> /\ sess' = NoSession
    BY <1>9 DEF Restarts, Restart, GiveUp
  <2> QED BY <1>2, <1>3, <1>4, <2>1 DEF StartLine
<1>10. CASE Asks
  <2>1. PICK s, c, f : AskFrom(s, c, f) /\ AskedAs(s, c, f) BY <1>10, AsksShape
  <2>2. /\ delegate'.target = scene.at /\ delegate'.flag = FALSE /\ delegate'.count = 0
    BY <1>1, <2>1, SendingFields DEF AskFrom
  <2>3. /\ scene'.at = scene.at /\ scene'.login = scene.login
        /\ scene'.ready = scene.ready
        /\ scene.at = "start" => scene'.poll = SCHEDULE_TIMEOUT + 1
    BY <2>1, AskScene
  <2>4. CASE scene.at # "start" BY <2>2, <2>3, <2>4 DEF StartLine
  <2>5. CASE scene.at = "start"
    <3>1. /\ c = kCmdUserLogin /\ scene.login = 1 /\ delegate.flag
      BY <2>1, <2>5 DEF AskedAs, LoginAsked
    <3>2. up = <<>> /\ down = <<>> BY <1>5, <1>6, <2>5, <3>1 DEF Line
    <3>3. conn # "connecting" BY <1>6, <2>5, <3>1 DEF Waiting
    <3>4. /\ up' = IF conn = "open" THEN Append(up, Outgoing(c, f)) ELSE up
          /\ UNCHANGED <<conn, down, sess>>
      BY <2>1 DEF AskFrom, Rest, server
    <3>5. \A i \in 1..Len(up') : up'[i].cmd = kCmdUserLogin
      BY <3>1, <3>2, <3>4 DEF Outgoing
    <3>6. Len(up') + Len(down') <= 1 /\ down' = <<>> BY <3>2, <3>4
    <3>7. Line' BY <2>2, <3>5, <3>6 DEF Line
    <3>8. ~scene'.ready BY <1>6, <2>3, <2>5, <3>1 DEF Waiting
    <3>9. Waiting' BY <1>2, <2>2, <2>3, <2>5, <3>1, <3>3, <3>4, <3>8 DEF Waiting
    <3> QED BY <3>7, <3>9 DEF StartLine, Line, Waiting
  <2> QED BY <2>4, <2>5
<1>11. CASE Leaves
  <2>1. Left BY <1>11, LeavesShape
  <2>2. /\ delegate'.target = delegate.target /\ delegate'.flag = delegate.flag
    BY <1>1, <2>1, DelegateFields DEF Left
  <2>3. scene'.at # "start" /\ UNCHANGED <<up, down>>
    BY <1>8, <2>1 DEF Left, net
  <2> QED BY <1>6, <2>2, <2>3 DEF StartLine, Line
<1>12. CASE Stays
  <2>1. Stayed BY <1>12, StaysShape
  <2>2. /\ delegate'.target = delegate.target /\ delegate'.flag = delegate.flag
    <3>1. CASE delegate' = delegate BY <3>1
    <3>2. CASE delegate' = Counting(delegate) BY <1>1, <3>2, DelegateFields
    <3> QED BY <2>1, <3>1, <3>2 DEF Stayed
  <2>3. UNCHANGED <<up, down, conn, sess>> /\ scene'.at = scene.at
        /\ scene'.login = scene.login
    BY <2>1 DEF Stayed, server
  <2>4. Line' BY <1>6, <2>2, <2>3 DEF Line
  <2>5. CASE scene.at # "start" BY <2>3, <2>4, <2>5 DEF StartLine, Line
  <2>6. CASE scene.at = "start"
    <3>1. CASE StartStays
      <4>1. scene.login # 1 /\ delegate.flag /\ UNCHANGED <<delegate, tally>>
        BY <3>1 DEF StartStays
      <4>2. scene.login \in {2, 3} BY <1>6, <1>7, <2>6, <4>1 DEF Waiting
      <4>3. CASE scene.login = 2
        <5>1. scene' = [Unpolled(scene) EXCEPT !.ready = TRUE]
          BY <3>1, <4>3 DEF StartStays
        <5>2. scene'.ready BY <1>1, <5>1 DEF SceneStates, Unpolled
        <5> QED BY <1>6, <2>2, <2>3, <2>4, <2>6, <4>1, <4>3, <5>2
                DEF StartLine, Line, Waiting
      <4>4. CASE scene.login = 3
        <5>1. scene' = [scene EXCEPT !.poll = @ - 1]
          BY <3>1, <4>4 DEF StartStays
        <5>2. scene'.ready = scene.ready BY <1>1, <5>1 DEF SceneStates
        <5> QED BY <1>6, <2>2, <2>3, <2>4, <2>6, <4>1, <4>4, <5>2
                DEF StartLine, Line, Waiting
      <4> QED BY <4>2, <4>3, <4>4
    <3>2. CASE TimeoutStays
      <4>1. ~delegate.flag /\ scene.login \notin {0, 1}
        BY <2>6, <3>2 DEF TimeoutStays
      <4>2. scene.login \in {2, 3} BY <1>7, <4>1
      <4> QED BY <1>6, <2>6, <4>1, <4>2 DEF Waiting
    <3>3. CASE Wait
      <4>1. /\ scene.poll > 0 /\ ~delegate.flag /\ delegate.count + 1 < NETWORK_TIMEOUT
            /\ delegate' = Counting(delegate) /\ tally' = tally
            /\ scene' = [scene EXCEPT !.poll = @ - 1]
        BY <3>3 DEF Wait, Ticking, Counting
      <4>2. delegate'.count = delegate.count + 1 BY <1>1, <4>1, DelegateFields
      <4>3. scene'.poll = scene.poll - 1 /\ scene'.ready = scene.ready
        BY <1>1, <4>1 DEF SceneStates
      <4>4. delegate.count + scene.poll = SCHEDULE_TIMEOUT + 1
        BY <1>6, <2>6, <4>1 DEF Waiting
      <4>5. /\ delegate'.count + scene'.poll = SCHEDULE_TIMEOUT + 1
            /\ delegate'.count < NETWORK_TIMEOUT /\ scene'.poll > 0
        <5>1. \A c, p, n, t \in Nat : c + 1 < n /\ n <= t /\ c + p = t + 1 =>
                c + 1 + (p - 1) = t + 1 /\ p - 1 > 0
          OBVIOUS
        <5>2. /\ delegate.count \in Nat /\ scene.poll \in Nat
              /\ NETWORK_TIMEOUT \in Nat /\ SCHEDULE_TIMEOUT \in Nat
          BY <1>1, <1>2
        <5>3. /\ delegate.count + 1 + (scene.poll - 1) = SCHEDULE_TIMEOUT + 1
              /\ scene.poll - 1 > 0
          BY <1>2, <4>1, <4>4, <5>1, <5>2
        <5> QED BY <4>1, <4>2, <4>3, <5>3
      <4> QED BY <1>6, <2>2, <2>3, <2>4, <2>6, <4>1, <4>3, <4>5
              DEF StartLine, Line, Waiting
    <3> QED BY <1>12, <2>6, <3>1, <3>2, <3>3
            DEF Stays, EventStays, PlayDone, OnBtnGirl, onBtnClothes
  <2> QED BY <2>5, <2>6
<1>13. CASE Sells
  <2>1. UNCHANGED <<scene, delegate, net, server>>
    BY <1>13 DEF Sells, onBtnSale, ProductFailed
  <2>2. tally'.err = tally.err
    BY <1>1, <1>13 DEF Sells, onBtnSale, ProductFailed, Tallies
  <2> QED BY <1>6, <2>1, <2>2 DEF StartLine, Line, Waiting, net, server
<1>14. CASE onOpen
  <2>1. /\ conn = "connecting" /\ conn' = "open" /\ UNCHANGED <<up, down, sess>>
        /\ delegate.target = "start" =>
             delegate' = Flagged(delegate) /\ scene' = [scene EXCEPT !.login = 1]
        /\ delegate.target # "start" => scene' = scene
        /\ delegate' = delegate \/ delegate' = Flagged(delegate)
    BY <1>14 DEF onOpen, Flagged, server
  <2>2. up = <<>> /\ down = <<>> /\ sess.uid = 0 BY <2>1 DEF Numbered, NoSession
  <2>3. Line' BY <2>1, <2>2 DEF Line
  <2>4. CASE delegate.target # "start"
    <3>1. scene'.at # "start" BY <1>5, <2>1, <2>4
    <3> QED BY <2>3, <3>1 DEF StartLine, Line
  <2>5. CASE delegate.target = "start"
    <3>1. LET t == [scene EXCEPT !.login = 1]
          IN t.at = scene.at /\ t.poll = scene.poll /\ t.ready = scene.ready
      BY <1>1, LoginType
    <3>2. scene'.at = scene.at /\ scene'.poll = scene.poll
          /\ scene'.ready = scene.ready /\ scene'.login = 1
      BY <1>1, <2>1, <2>5, <3>1 DEF SceneStates
    <3>3. delegate'.flag = TRUE BY <1>1, <2>1, <2>5, DelegateFields
    <3>4. scene.at = "start" => ~scene.ready /\ scene.poll # 0
      BY <1>6, <2>1 DEF Waiting
    <3>5. Waiting' BY <2>1, <2>2, <3>2, <3>3, <3>4 DEF Waiting
    <3> QED BY <2>3, <3>5 DEF StartLine, Line, Waiting
  <2> QED BY <2>4, <2>5
<1>15. CASE onClose
  <2>1. /\ conn' = "closed" /\ up' = <<>> /\ down' = <<>> /\ sess' = NoSession
        /\ UNCHANGED <<scene, tally>> /\ delegate' = Freed(delegate)
    BY <1>15 DEF onClose, GiveUp, Freed
  <2>2. /\ delegate'.target = delegate.target /\ delegate'.flag = delegate.flag
        /\ delegate'.count = delegate.count
    BY <1>1, <2>1, DelegateFields
  <2> QED BY <1>6, <2>1, <2>2 DEF StartLine, Waiting, NoSession
<1>16. CASE onMessage
  <2>1. /\ down # <<>> /\ down' = Tail(down) /\ UNCHANGED <<conn, up, sess>>
    BY <1>16 DEF onMessage, server
  <2>2. /\ Len(down') = Len(down) - 1 /\ Len(down) \in Nat \ {0}
        /\ \A k \in 1..Len(down') : k + 1 \in 1..Len(down) /\ down'[k] = down[k + 1]
    BY <1>1, <2>1, TailAt
  <2>3. delegate.target = "start" => up = <<>> /\ down' = <<>> /\ ~delegate.flag
    <3> HAVE delegate.target = "start"
    <3>1. Len(up) + Len(down) <= 1 /\ ~delegate.flag BY <1>6, <2>1 DEF Line
    <3>2. Len(up) = 0 /\ Len(down') = 0 BY <1>1, <2>2, <3>1
    <3>3. down' \in Seq(Answered) BY <1>1, <2>1, TailAt
    <3> QED BY <1>1, <3>1, <3>2, <3>3
  <2>4. conn # "connecting" BY <2>1 DEF Numbered
  <2>5. CASE Dropped
    <3>1. UNCHANGED <<delegate, scene, tally>> BY <2>5 DEF Dropped
    <3>2. Line' BY <2>1, <2>3, <3>1 DEF Line
    <3>3. Waiting' BY <1>5, <1>6, <2>1, <2>3, <2>4, <3>1 DEF Waiting
    <3> QED BY <3>2, <3>3 DEF StartLine, Line, Waiting
  <2>6. CASE \E r : Taken(r)
    <3>1. PICK r : Taken(r) BY <2>6
    <3>2. delegate'.target = delegate.target /\ delegate'.flag = TRUE
      BY <1>1, <3>1, DelegateFields DEF Taken
    <3>3. Line'
      <4>1. CASE delegate.target # "start" BY <3>2, <4>1 DEF Line
      <4>2. CASE delegate.target = "start"
        <5>1. up' = <<>> /\ down' = <<>> BY <2>1, <2>3, <4>2
        <5> QED BY <5>1 DEF Line
      <4> QED BY <4>1, <4>2
    <3>4. CASE scene.at # "start"
      <4>1. scene'.at # "start" BY <3>1, <3>4 DEF Taken
      <4> QED BY <3>3, <4>1 DEF StartLine, Line
    <3>5. CASE scene.at = "start"
      <4>1. scene' = Told(scene, r) BY <1>5, <3>1, <3>5 DEF Taken
      <4>2. scene'.login = IF r.err = kErrNone THEN 2 ELSE 3
        BY <1>1, <3>5, <4>1 DEF Told, SceneStates
      <4>3. scene'.poll = scene.poll /\ scene'.ready = scene.ready
        BY <3>1 DEF Taken
      <4>4. ~scene.ready /\ scene.poll # 0
        BY <1>5, <1>6, <2>3, <3>5 DEF Waiting
      <4>5. tally'.err = r.err
        <5>1. PICK n : tally' = [tally EXCEPT !.err = r.err, !.refused = @ + n]
          BY <3>1 DEF Taken
        <5> QED BY <1>1, <5>1 DEF Tallies
      <4>6. Waiting'
        BY <2>1, <2>4, <3>2, <4>2, <4>3, <4>4, <4>5 DEF Waiting
      <4> QED BY <3>3, <4>6 DEF StartLine, Line, Waiting
    <3> QED BY <3>4, <3>5
  <2> QED BY <1>16, <2>5, <2>6, MessageShape
<1>17. CASE ServeNext
  <2>1. PICK m, clean, r : Handled(m, clean, r) /\ Counted(clean, r)
    BY <1>17, ServeShape
  <2>2. /\ up # <<>> /\ up' = Tail(up) /\ UNCHANGED <<scene, delegate>>
        /\ down' = Append(down, r) /\ r \in Answered /\ r.cmd = m.cmd
        /\ ReadAs(up, m, clean)
    BY <2>1 DEF Handled
  <2>3. tally'.err = tally.err BY <2>1 DEF Counted
  <2>4. conn' # "connecting" BY <2>1 DEF Handled, ByUser, ByStranger, Failed
  <2>5. Len(up) \in Nat \ {0} /\ Len(up') = Len(up) - 1 /\ up' \in Seq(Sent)
    BY <1>1, <2>2, TailAt
  <2>6. CASE delegate.target # "start"
    <3>1. scene.at # "start" BY <1>5, <2>6
    <3> QED BY <2>2, <2>6, <3>1 DEF StartLine
  <2>7. CASE delegate.target = "start"
    <3>1. Len(up) + Len(down) <= 1 /\ ~delegate.flag BY <1>6, <2>2, <2>7 DEF Line
    <3>2. Len(up) = 1 /\ Len(down) = 0 BY <1>1, <2>5, <3>1
    <3>3. up' = <<>> /\ down = <<>> BY <1>1, <2>5, <3>2
    <3>4. m = up[1] BY <2>2, <3>2 DEF ReadAs
    <3>5. up[1].cmd = kCmdUserLogin BY <1>6, <2>7, <3>2 DEF Line
    <3>6. down' = <<r>> /\ r.cmd = kCmdUserLogin BY <2>2, <3>3, <3>4, <3>5
    <3>7. Line'
      <4>1. Len(down') = 1 /\ \A i \in 1..Len(down') : down'[i].cmd = kCmdUserLogin
        BY <3>6
      <4>2. Len(up') = 0 /\ \A i \in 1..Len(up') : up'[i].cmd = kCmdUserLogin
        BY <3>3
      <4>3. ~delegate'.flag BY <2>2, <3>1
      <4>4. Len(up') + Len(down') <= 1 BY <4>1, <4>2
      <4> QED BY <4>1, <4>2, <4>3, <4>4 DEF Line
    <3>8. Waiting' BY <1>6, <2>2, <2>3, <2>4, <3>1 DEF Waiting
    <3> QED BY <3>7, <3>8 DEF StartLine, Line, Waiting
  <2> QED BY <2>6, <2>7
<1>18. CASE CAProductByNotify
  <2>1. Sold BY <1>18, CreditShape
  <2>2. delegate'.target = "none" BY <1>1, <2>1, SendingFields DEF Sold
  <2>3. scene'.at = "game" BY <2>1, NewSceneFacts DEF Sold, Scenes
  <2> QED BY <2>2, <2>3 DEF StartLine
<1>19. CASE Stops
  <2>1. NewScene("off").at = "off" BY NewSceneFacts
  <2> QED BY <1>4, <1>19, <2>1, StopsShape DEF StartLine
<1>20. CASE Launch
  <2>1. delegate' = FreshDelegate /\ conn = "closed" BY <1>20 DEF Launch, Targeted
  <2>2. up = <<>> /\ down = <<>> /\ sess.uid = 0 BY <2>1 DEF Numbered, NoSession
  <2> QED BY <1>2, <1>3, <1>4, <1>20, <2>1, <2>2 DEF Launch, server, StartLine
<1>21. CASE UNCHANGED vars
  BY <1>6, <1>21 DEF vars, net, server, StartLine, Line, Waiting
<1>22. CASE ServeOld
  <2>1. PICK o, m, clean : Drifts(o, m, clean) BY <1>22, DriftShape
  <2>2. tally'.err = tally.err BY <1>1, <2>1 DEF Drifts, Tallies
  <2> QED BY <1>6, <2>1, <2>2 DEF Drifts, net, StartLine, Line, Waiting
<1> QED
  BY <1>9, <1>10, <1>11, <1>12, <1>13, <1>14, <1>15, <1>16, <1>17, <1>18, <1>19,
     <1>20, <1>21, <1>22, NextCases DEF Network
-----------------------------------------------------------------------------
(* The accounts.                                                             *)
LEMMA AccountsInit ==
  ASSUME Init, Types
  PROVE  Accounts
<1>1. PICK known \in Devices :
        /\ user = [NewUser EXCEPT !.uid = IF known THEN 1 ELSE 0]
        /\ docs \in IF known THEN {<<d>> : d \in FirstDocs} ELSE {<<>>}
  BY DEF Init
<1>2. user.uid \in 0..Len(docs)
  <2>1. CASE known
    <3>1. user.uid = 1 BY <1>1, <2>1 DEF NewUser
    <3>2. PICK d : docs = <<d>> BY <1>1, <2>1
    <3> QED BY <3>1, <3>2
  <2>2. CASE ~known
    <3>1. user.uid = 0 BY <1>1, <2>2 DEF NewUser
    <3> QED BY <3>1, TypeFacts
  <2> QED BY <2>1, <2>2
<1>3. /\ Schedule(NewScene("start")).at = "start"
      /\ Schedule(NewScene("start")).login = 0
  BY FirstScene
<1> QED BY <1>2, <1>3
        DEF Init, Accounts, Own, OldUids, FreshDelegate, ClosedShop, NoSession

(* A request served is the player's own.                                     *)
LEMMA OwnRequest ==
  ASSUME Types, Accounts, NEW m \in Sent, NEW clean, ReadAs(up, m, clean), up # <<>>,
         sess.uid # 0 \/ m.cmd = kCmdUserLogin
  PROVE  /\ sess.uid # 0 => Asker(sess, m) = sess.uid
         /\ user.uid # 0 => Asker(sess, m) = user.uid
         /\ Asker(sess, m) # 0
<1>1. up \in Seq(Sent) /\ Len(docs) \in Nat /\ sess.uid \in Nat BY TypeFacts
<1>2. Len(up) \in Nat /\ Len(up) >= 1 BY <1>1
<1>3. PICK k \in 1..Len(up) : m.uid = up[k].uid BY <1>2 DEF ReadAs
<1>4. m.uid \in {0, user.uid} /\ (m.uid = 0 => user.uid = 0 \/ sess.uid # 0)
  BY <1>3 DEF Accounts, Own
<1>5. CASE sess.uid # 0 BY <1>5 DEF Asker, Accounts, Own
<1>6. CASE sess.uid = 0 BY <1>1, <1>4, <1>6 DEF Asker
<1> QED BY <1>5, <1>6

(* Once a device has an account, no document is made any more.               *)
LEMMA NoNewDocument ==
  ASSUME Types, Accounts, user.uid # 0, ServeNext
  PROVE  Len(docs') = Len(docs)
<1>1. PICK m, clean, r : Handled(m, clean, r) BY ServeShape
<1>2. m \in Sent /\ clean \in BOOLEAN /\ ReadAs(up, m, clean) /\ up # <<>>
  BY <1>1 DEF Handled, ReadAs
<1>3. docs' = docs \/ (docs' = Stored(Served(sess, m)) /\ (sess.uid # 0 \/ m.cmd = kCmdUserLogin))
  BY <1>1 DEF Handled, ByUser, ByStranger, Failed
<1>4. CASE docs' = docs BY <1>4
<1>5. CASE docs' = Stored(Served(sess, m)) /\ (sess.uid # 0 \/ m.cmd = kCmdUserLogin)
  <2>1. Asker(sess, m) = user.uid BY <1>2, <1>5, OwnRequest
  <2>2. Asker(sess, m) <= Len(docs)
    <3>1. Len(docs) \in Nat /\ user.uid \in 0..Len(docs) BY TypeFacts DEF Accounts, Own
    <3> QED BY <2>1, <3>1
  <2>3. sess \in Sessions /\ (sess.uid # 0 => sess.udb \in Ready) BY TypeFacts
  <2>4. m.uid \in 0..Len(docs)
    <3>1. up \in Seq(Sent) /\ Len(docs) \in Nat BY TypeFacts
    <3>2. \A i \in 1..Len(up) : up[i].uid \in 0..Len(docs)
      BY <3>1 DEF Accounts, Own
    <3> QED BY <1>2, <3>1, <3>2, ReadUid
  <2> QED BY <1>2, <1>5, <2>2, <2>3, <2>4, ResultType
<1> QED BY <1>3, <1>4, <1>5

LEMMA OwnNext ==
  ASSUME Types, Targeted, StartLine, Accounts, Own, Numbered, [Next]_vars
  PROVE  Own'
<1>1. /\ scene \in SceneStates /\ delegate \in DelegateStates
      /\ up \in Seq(Sent) /\ down \in Seq(Answered) /\ docs \in Seq(Ready)
      /\ Len(up) \in Nat /\ Len(down) \in Nat /\ Len(docs) \in Nat
      /\ user.uid \in Nat /\ sess.uid \in 0..Len(docs)
  BY TypeFacts
<1>2. /\ scene.at = "start" => delegate.target = "start" /\ delegate.here
      /\ scene.at = "start" /\ scene.ready => scene.login = 2
  BY DEF Targeted, StartLine
<1>3. CASE Restarts
  <2>1. /\ Schedule(NewScene("start")).at = "start"
        /\ Schedule(NewScene("start")).login = 0 /\ FreshDelegate.target = "start"
    BY FirstScene DEF FreshDelegate
  <2> QED BY <1>3, <2>1 DEF Restarts, Restart, GiveUp, NoSession, Own
<1>4. CASE Asks
  <2>1. PICK s, c, f : AskFrom(s, c, f) /\ AskedAs(s, c, f) BY <1>4, AsksShape
  <2>2. delegate'.target = scene.at BY <1>1, <2>1, SendingFields DEF AskFrom
  <2>3. scene'.at = scene.at /\ scene'.login = scene.login BY <2>1, AskScene
  <2>4. Outgoing(c, f) \in Sent /\ Outgoing(c, f).uid = user.uid
    BY <2>1, OutgoingSent DEF AskFrom
  <2>5. \A i \in 1..Len(up') : up'[i].uid \in {0, user.uid}
          /\ (up'[i].uid = 0 => user.uid = 0 \/ sess.uid # 0)
    <3>1. CASE up' = up BY <3>1 DEF Own
    <3>2. CASE up' = Append(up, Outgoing(c, f))
      BY <1>1, <2>4, <3>2, AppendAt DEF Own
    <3> QED BY <2>1, <3>1, <3>2 DEF AskFrom
  <2>6. UNCHANGED <<user, shop, down, sess, docs>> BY <2>1 DEF AskFrom, Rest, server
  <2>7. scene.at \in {"start", "game", "event", "play"} BY <2>1 DEF AskFrom
  <2> QED BY <2>2, <2>3, <2>5, <2>6, <2>7 DEF Own
<1>5. CASE Leaves /\ scene.at # "off"
  <2>1. Left BY <1>5, LeavesShape
  <2>2. delegate'.target = delegate.target BY <1>1, <2>1, DelegateFields DEF Left
  <2>3. user.uid # 0 BY <1>2, <1>5, <2>1 DEF Left, Own
  <2>4. scene'.at # "start" BY <2>1 DEF Left
  <2>5. UNCHANGED <<user, up, down, sess, docs>> BY <2>1 DEF Left, net, server
  <2> QED BY <2>2, <2>3, <2>4, <2>5 DEF Own
<1>6. CASE Stays
  <2>1. Stayed BY <1>6, StaysShape
  <2>2. delegate'.target = delegate.target
    <3>1. CASE delegate' = delegate BY <3>1
    <3>2. CASE delegate' = Counting(delegate) BY <1>1, <3>2, DelegateFields
    <3> QED BY <2>1, <3>1, <3>2 DEF Stayed
  <2>3. user'.uid = user.uid
    <3>1. user \in UserStates BY DEF Types, TypeOK, UserStates
    <3> QED BY <2>1, <3>1 DEF Stayed, onBtnClothes, UserStates
  <2>4. /\ scene'.at = scene.at /\ scene'.login = scene.login
        /\ UNCHANGED <<up, shop, down, sess, docs>>
    BY <2>1 DEF Stayed, server
  <2> QED BY <2>2, <2>3, <2>4 DEF Own
<1>7. CASE Sells
  <2>1. UNCHANGED <<scene, delegate, user, net, server>>
    BY <1>7 DEF Sells, onBtnSale, ProductFailed
  <2>2. user.uid # 0
    BY <1>7 DEF Sells, onBtnSale, ProductFailed, Own
  <2> QED BY <2>1, <2>2 DEF Own, net, server
<1>8. CASE onOpen
  <2>1. UNCHANGED <<user, shop, up, down, sess, docs>> BY <1>8 DEF onOpen, server
  <2>2. delegate'.target = delegate.target
    <3>1. CASE delegate' = delegate BY <3>1
    <3>2. CASE delegate' = Flagged(delegate) BY <1>1, <3>2, DelegateFields
    <3> QED BY <1>8, <3>1, <3>2 DEF onOpen, Flagged
  <2>3. scene'.at = scene.at /\ (scene'.login = 2 => scene.login = 2)
    <3>1. CASE scene' = scene BY <3>1
    <3>2. CASE scene' = [scene EXCEPT !.login = 1]
      BY <1>1, <3>2 DEF SceneStates
    <3> QED BY <1>8, <3>1, <3>2 DEF onOpen
  <2> QED BY <2>1, <2>2, <2>3 DEF Own
<1>9. CASE onClose
  <2>1. /\ UNCHANGED <<scene, user, shop, docs>> /\ up' = <<>> /\ down' = <<>>
        /\ sess' = NoSession /\ delegate' = Freed(delegate)
    BY <1>9 DEF onClose, GiveUp, Freed
  <2>2. delegate'.target = delegate.target BY <1>1, <2>1, DelegateFields
  <2> QED BY <2>1, <2>2 DEF Own, NoSession
<1>10. CASE onMessage
  <2>1. /\ down # <<>> /\ down' = Tail(down) /\ UNCHANGED <<up, sess, docs, shop>>
    BY <1>10 DEF onMessage, server
  <2>2. \A i \in 1..Len(down') :
          down'[i].cmd = kCmdUserLogin /\ down'[i].err = kErrNone =>
            sess.uid # 0 /\ down'[i].uid = sess.uid
    BY <1>1, <2>1, TailAt DEF Own
  <2>3. CASE Dropped BY <2>1, <2>2, <2>3 DEF Dropped, Own
  <2>4. CASE \E r : Taken(r)
    <3>1. PICK r : Taken(r) BY <2>4
    <3>2. delegate'.target = delegate.target BY <1>1, <3>1, DelegateFields DEF Taken
    <3>3. scene'.at = scene.at BY <3>1 DEF Taken
    <3>4. 1 \in 1..Len(down) /\ r = down[1]
      <4>1. r = down[1] BY <3>1 DEF Taken
      <4> QED BY <1>1, <2>1, <4>1
    <3>5. user'.uid = user.uid \/ (user.uid = 0 /\ sess.uid # 0 /\ user'.uid = sess.uid)
      <4>1. user \in UserStates BY DEF Types, TypeOK, UserStates
      <4>2. user' = Heard(user, delegate.target, r)
            /\ delegate.target \in {"start", "game", "play", "event"}
        BY <3>1 DEF Taken
      <4>3. CASE r.err # kErrNone BY <4>2, <4>3 DEF Heard
      <4>4. CASE r.err = kErrNone /\ delegate.target = "start"
        <5>1. r.cmd = kCmdUserLogin BY <3>4, <4>4 DEF StartLine
        <5>2. sess.uid # 0 /\ r.uid = sess.uid BY <3>4, <4>4, <5>1 DEF Own
        <5>3. user'.uid = IF user.uid = 0 THEN r.uid ELSE user.uid
          BY <4>2, <4>4 DEF Heard
        <5> QED BY <5>2, <5>3
      <4>5. CASE r.err = kErrNone /\ delegate.target # "start"
        BY <4>1, <4>2, <4>5 DEF Heard, UserStates
      <4> QED BY <4>3, <4>4, <4>5
    <3>6. scene.at = "start" /\ scene'.login = 2 => user'.uid # 0
      <4> SUFFICES ASSUME scene.at = "start", scene'.login = 2 PROVE user'.uid # 0
        OBVIOUS
      <4>1. scene' = Told(scene, r) /\ delegate.target = "start"
        BY <1>2, <3>1 DEF Taken
      <4>2. r.err = kErrNone
        <5>1. scene'.login = IF r.err = kErrNone THEN 2 ELSE 3
          BY <1>1, <4>1 DEF Told, SceneStates
        <5> QED BY <5>1
      <4>3. r.cmd = kCmdUserLogin BY <3>4, <4>1 DEF StartLine
      <4>4. sess.uid # 0 /\ r.uid = sess.uid BY <3>4, <4>2, <4>3 DEF Own
      <4>5. user'.uid = IF user.uid = 0 THEN r.uid ELSE user.uid
        BY <3>1, <4>1, <4>2 DEF Taken, Heard
      <4> QED BY <4>4, <4>5
    <3> QED BY <1>1, <2>1, <2>2, <3>2, <3>3, <3>5, <3>6 DEF Own
  <2> QED BY <1>10, <2>3, <2>4, MessageShape
<1>11. CASE ServeNext
  <2>1. PICK m, clean, r : Handled(m, clean, r) BY <1>11, ServeShape
  <2>2. /\ up # <<>> /\ up' = Tail(up) /\ UNCHANGED <<scene, delegate, user, shop>>
        /\ down' = Append(down, r) /\ r \in Answered /\ r.cmd = m.cmd
        /\ ReadAs(up, m, clean) /\ m \in Sent
        /\ ByUser(m, r) \/ ByStranger(m, r) \/ Failed(m, r)
        /\ Len(docs') >= Len(docs) /\ docs' \in Seq(Ready)
    BY <2>1 DEF Handled, ReadAs
  <2>3. user'.uid \in 0..Len(docs') BY <1>1, <2>2 DEF Own
  <2>4. /\ sess.uid # 0 => sess'.uid = sess.uid
        /\ sess'.uid # 0 /\ user.uid # 0 => sess'.uid = user.uid
        /\ r.cmd = kCmdUserLogin /\ r.err = kErrNone => sess'.uid # 0 /\ r.uid = sess'.uid
    <3>1. CASE ByUser(m, r)
      <4>1. sess'.uid = Asker(sess, m) /\ r.uid = Asker(sess, m)
            /\ (sess.uid # 0 \/ m.cmd = kCmdUserLogin)
        BY <3>1 DEF ByUser, Served
      <4>2. /\ sess.uid # 0 => Asker(sess, m) = sess.uid
            /\ user.uid # 0 => Asker(sess, m) = user.uid
            /\ Asker(sess, m) # 0
        BY <2>2, <4>1, OwnRequest
      <4> QED BY <4>1, <4>2
    <3>2. CASE ByStranger(m, r) BY <2>2, <3>2 DEF ByStranger, Own
    <3>3. CASE Failed(m, r)
      BY <2>2, <3>3 DEF Failed, kErrWriteDB, kErrNone, Own
    <3> QED BY <2>2, <3>1, <3>2, <3>3
  <2>5. \A i \in 1..Len(up') :
          /\ up'[i].uid \in {0, user'.uid}
          /\ up'[i].uid = 0 => user'.uid = 0 \/ sess'.uid # 0
    BY <1>1, <2>2, <2>4, TailAt DEF Own
  <2>6. \A i \in 1..Len(down') :
          down'[i].cmd = kCmdUserLogin /\ down'[i].err = kErrNone =>
            sess'.uid # 0 /\ down'[i].uid = sess'.uid
    BY <1>1, <2>2, <2>4, AppendAt DEF Own
  <2> QED BY <2>2, <2>3, <2>4, <2>5, <2>6 DEF Own
<1>12. CASE CAProductByNotify
  <2>1. Sold BY <1>12, CreditShape
  <2> DEFINE x == Outgoing(kCmdIAPAddHeart, Body([addheart |-> PurchaseHearts]))
  <2>2. x \in Sent /\ x.uid = user.uid
    <3>1. kCmdIAPAddHeart \in Commands BY DEF kCmdIAPAddHeart, Commands
    <3> QED BY <3>1, HeartBody, OutgoingSent
  <2>3. up' \in {up, Append(up, x)} BY <2>1 DEF Sold
  <2> HIDE DEF x
  <2>4. \A i \in 1..Len(up') : up'[i].uid \in {0, user.uid}
          /\ (up'[i].uid = 0 => user.uid = 0 \/ sess.uid # 0)
    <3>1. CASE up' = up BY <3>1 DEF Own
    <3>2. CASE up' = Append(up, x) BY <1>1, <2>2, <3>2, AppendAt DEF Own
    <3> QED BY <2>3, <3>1, <3>2
  <2>5. user'.uid = user.uid
    <3>1. user \in UserStates BY DEF Types, TypeOK, UserStates
    <3> QED BY <2>1, <3>1 DEF Sold, UserStates
  <2>6. user.uid # 0 BY <2>1 DEF Sold, Own
  <2>7. scene'.at = "game" BY <2>1, NewSceneFacts DEF Sold, Scenes
  <2>8. UNCHANGED <<down, sess, docs>> BY <2>1 DEF Sold, server
  <2> QED BY <2>4, <2>5, <2>6, <2>7, <2>8 DEF Own
<1>13. CASE Stops
  <2>1. /\ NewScene("off").at = "off" /\ FreshDelegate.target = "start"
        /\ ClosedShop.iap = FALSE
    BY NewSceneFacts DEF FreshDelegate, ClosedShop
  <2>2. user'.uid = user.uid
    <3>1. user \in UserStates BY DEF Types, TypeOK, UserStates
    <3> QED BY <1>13, <3>1, UserTypes, StopsShape
  <2> QED BY <1>13, <2>1, <2>2, StopsShape DEF NoSession, Own
<1>14. CASE Launch
  <2>1. /\ Schedule(NewScene("start")).at = "start"
        /\ Schedule(NewScene("start")).login = 0
    BY FirstScene
  <2> QED BY <1>14, <2>1 DEF Launch, server, Own
<1>15. CASE UNCHANGED vars
  BY <1>15 DEF vars, net, server, Own
<1>16. CASE ServeOld
  <2>1. PICK o, m, clean : Drifts(o, m, clean) BY <1>16, DriftShape
  <2>2. /\ UNCHANGED <<scene, delegate, user, shop, up, down, sess>>
        /\ docs' \in Seq(Ready) /\ Len(docs') >= Len(docs)
    BY <2>1 DEF Drifts, net
  <2>3. user'.uid \in 0..Len(docs') BY <1>1, <2>2 DEF Own
  <2> QED BY <2>2, <2>3 DEF Own
<1> QED
  BY <1>3, <1>4, <1>5, <1>6, <1>7, <1>8, <1>9, <1>10, <1>11, <1>12, <1>13, <1>14,
     <1>15, <1>16, NextCases DEF Network

(* A request left behind names nobody, or an account there is.               *)
LEMMA LeftUids ==
  ASSUME Types, Own, OldUids, NEW q \in Seq(Sent),
         \A i \in 1..Len(q) : q[i].uid \in {0, user.uid},
         GiveUp(q), docs' = docs
  PROVE  OldUids'
<1>1. user.uid \in 0..Len(docs) /\ Len(docs) \in Nat BY TypeFacts DEF Own
<1>2. \A i \in 1..Len(q) : q[i].uid \in 0..Len(docs) BY <1>1
<1> SUFFICES ASSUME NEW o \in old', NEW i \in 1..Len(o.up)
             PROVE  o.up[i].uid \in 0..Len(docs')
  BY DEF OldUids
<1>3. o \in old \/ o.up = q BY DEF GiveUp
<1> QED BY <1>2, <1>3 DEF OldUids

LEMMA OldUidsNext ==
  ASSUME Types, Targeted, StartLine, Accounts, [Next]_vars
  PROVE  OldUids'
<1>0. Own /\ OldUids BY DEF Accounts
<1>1. up \in Seq(Sent) /\ Len(docs) \in Nat /\ user \in UserStates
  BY TypeFacts DEF Types, TypeOK, UserStates
<1>2. \A i \in 1..Len(up) : up[i].uid \in {0, user.uid} BY <1>0 DEF Own
<1>3. ASSUME old' = old, docs' = docs PROVE OldUids'
  BY <1>0, <1>3 DEF OldUids
<1>4. CASE Restarts
  <2>1. GiveUp(up) /\ docs' = docs BY <1>4 DEF Restarts, Restart
  <2> QED BY <1>0, <1>1, <1>2, <2>1, LeftUids
<1>5. CASE Asks
  <2>1. PICK s, c, f : AskFrom(s, c, f) BY <1>5, AsksShape
  <2> QED BY <1>3, <2>1 DEF AskFrom, Rest, server
<1>6. CASE Leaves BY <1>3, <1>6, LeavesShape DEF Left, server
<1>7. CASE Stays BY <1>3, <1>7, StaysShape DEF Stayed, server
<1>8. CASE Sells BY <1>3, <1>8 DEF Sells, onBtnSale, ProductFailed, server
<1>9. CASE onOpen BY <1>3, <1>9 DEF onOpen, server
<1>10. CASE onClose
  <2>1. GiveUp(up) /\ docs' = docs BY <1>10 DEF onClose
  <2> QED BY <1>0, <1>1, <1>2, <2>1, LeftUids
<1>11. CASE onMessage BY <1>3, <1>11 DEF onMessage, server
<1>12. CASE ServeNext
  <2>1. PICK m, clean, r : Handled(m, clean, r) BY <1>12, ServeShape
  <2>2. old' = old /\ docs' \in Seq(Ready) /\ Len(docs') >= Len(docs)
    BY <2>1 DEF Handled
  <2>3. \A n \in 0..Len(docs) : n \in 0..Len(docs') BY <1>1, <2>2
  <2> QED BY <1>0, <2>2, <2>3 DEF OldUids
<1>13. CASE CAProductByNotify BY <1>3, <1>13, CreditShape DEF Sold, server
<1>14. CASE Stops
  <2>1. PICK q : Stop(q) /\ q \in {up, Transmitted(kCmdIAPAddHeart,
                    Body([addheart |-> PurchaseHearts]), delegate)}
    BY <1>14 DEF Stops
  <2>2. GiveUp(q) /\ docs' = docs BY <2>1 DEF Stop
  <2> DEFINE x == Outgoing(kCmdIAPAddHeart, Body([addheart |-> PurchaseHearts]))
  <2>3. x \in Sent /\ x.uid = user.uid
    <3>1. kCmdIAPAddHeart \in Commands BY DEF kCmdIAPAddHeart, Commands
    <3> QED BY <3>1, HeartBody, OutgoingSent
  <2>4. q \in {up, Append(up, x)} BY <2>1 DEF Transmitted, Outgoing
  <2> HIDE DEF x
  <2>5. q \in Seq(Sent) /\ \A i \in 1..Len(q) : q[i].uid \in {0, user.uid}
    <3>1. CASE q = up BY <1>1, <1>2, <3>1
    <3>2. CASE q = Append(up, x)
      <4>1. q \in Seq(Sent) BY <1>1, <2>3, <3>2
      <4> QED BY <1>1, <1>2, <2>3, <3>2, <4>1, AppendAt
    <3> QED BY <2>4, <3>1, <3>2
  <2> QED BY <1>0, <2>2, <2>5, LeftUids
<1>15. CASE Launch BY <1>3, <1>15 DEF Launch, server
<1>16. CASE ServeOld
  <2>1. PICK o, m, clean : Drifts(o, m, clean) BY <1>16, DriftShape
  <2>2. /\ o \in old /\ docs' \in Seq(Ready) /\ Len(docs') >= Len(docs)
        /\ \A p \in old' : p \in old \/ p.up = Tail(o.up)
    <3>1. \A s : [o EXCEPT !.sess = s, !.up = Tail(@)].up = Tail(o.up)
      <4>1. o \in old BY <2>1 DEF Drifts
      <4> QED BY <4>1, OldFacts
    <3> QED BY <2>1, <3>1 DEF Drifts
  <2>3. \A n \in 0..Len(docs) : n \in 0..Len(docs') BY <1>1, <2>2
  <2>4. o.up \in Seq(Sent) /\ o.up # <<>> BY <2>2, OldFacts
  <2>5. \A k \in 1..Len(Tail(o.up)) : Tail(o.up)[k].uid \in 0..Len(docs)
    BY <1>0, <2>2, <2>4, TailAt DEF OldUids
  <2> QED BY <1>0, <2>2, <2>3, <2>5 DEF OldUids
<1>17. CASE UNCHANGED vars BY <1>3, <1>17 DEF vars, server
<1> QED
  BY <1>4, <1>5, <1>6, <1>7, <1>8, <1>9, <1>10, <1>11, <1>12, <1>13, <1>14, <1>15,
     <1>16, <1>17, NextCases DEF Network

LEMMA AccountsNext ==
  ASSUME Types, Targeted, StartLine, Accounts, Numbered, [Next]_vars
  PROVE  Accounts'
<1>1. Own BY DEF Accounts
<1>2. Own' BY <1>1, OwnNext
<1>3. OldUids' BY OldUidsNext
<1> QED BY <1>2, <1>3 DEF Accounts

(* A document is made for a connection that was left only by a login without *)
(* an id, and that is behind it then.                                        *)
LEMMA DriftMakes ==
  ASSUME Types, NEW o, NEW m, NEW clean, Drifts(o, m, clean)
  PROVE  Len(docs') # Len(docs) => \E p \in old \ old' : Nameless(p)
<1> SUFFICES ASSUME Len(docs') # Len(docs) PROVE \E p \in old \ old' : Nameless(p)
  OBVIOUS
<1>0. o \in old /\ ReadAs(o.up, m, clean) BY DEF Drifts
<1>1. o.up \in Seq(Sent) /\ o.up # <<>> /\ Len(o.up) \in Nat BY <1>0, OldFacts
<1>2. Len(docs) \in Nat /\ docs' # docs BY TypeFacts
<1>3. o.sess.uid = 0 /\ m.uid = 0 /\ m.cmd = kCmdUserLogin
  <2>1. /\ o.sess.uid # 0 \/ m.cmd = kCmdUserLogin
        /\ Asker(o.sess, m) = Len(docs) + 1 => o.sess.uid = 0 /\ m.uid = 0
        /\ Asker(o.sess, m) <= Len(docs) => Len(docs') = Len(docs)
        /\ Asker(o.sess, m) <= Len(docs) + 1
    BY <1>2 DEF Drifts
  <2>2. ~(Asker(o.sess, m) <= Len(docs)) BY <2>1
  <2>3. Asker(o.sess, m) = Len(docs) + 1
    <3>1. o \in old /\ m \in Sent /\ m.uid \in Nat /\ o.sess.uid \in Nat
      <4>1. o.sess \in Sessions /\ m \in Sent BY <1>0, OldFacts DEF ReadAs
      <4> QED BY <1>0, <1>2, <4>1 DEF Sessions, Sent
    <3>2. Asker(o.sess, m) \in Nat BY <1>2, <3>1 DEF Asker
    <3> HIDE DEF Asker
    <3> QED BY <1>2, <2>1, <2>2, <3>2
  <2> QED BY <2>1, <2>3
<1>4. \E i \in 1..Len(o.up) : o.up[i].cmd = kCmdUserLogin /\ o.up[i].uid = 0
  <2>1. 1 \in 1..Len(o.up) BY <1>1
  <2>2. CASE m.cmd = o.up[1].cmd /\ m.uid = o.up[1].uid BY <1>3, <2>1, <2>2
  <2>3. CASE Len(o.up) >= 2 /\ m = o.up[2]
    <3>1. 2 \in 1..Len(o.up) BY <1>1, <2>3
    <3> QED BY <1>3, <2>3, <3>1
  <2> QED BY <1>0, <2>2, <2>3 DEF ReadAs
<1>5. Nameless(o)
  <2>1. DOMAIN o.up = 1..Len(o.up) BY <1>1
  <2> QED BY <1>3, <1>4, <2>1 DEF Nameless
<1>6. o \notin old'
  <2>1. CASE old' = old \ {o} BY <2>1
  <2>2. ASSUME NEW s, s.uid # 0,
               old' = (old \ {o}) \cup {[o EXCEPT !.sess = s, !.up = Tail(@)]}
        PROVE  o \notin old'
    <3>1. [o EXCEPT !.sess = s, !.up = Tail(@)].sess = s BY <1>0, OldFacts
    <3>2. [o EXCEPT !.sess = s, !.up = Tail(@)] # o BY <1>3, <2>2, <3>1
    <3> QED BY <2>2, <3>2
  <2> QED BY <2>1, <2>2 DEF Drifts
<1> QED BY <1>0, <1>5, <1>6

LEMMA AccountStep ==
  ASSUME Types, Targeted, StartLine, Accounts, [Next]_vars, user.uid # 0
  PROVE  /\ user'.uid = user.uid
         /\ Len(docs') # Len(docs) => \E o \in old \ old' : Nameless(o)
<1>1. user \in UserStates BY DEF Types, TypeOK, UserStates
<1>2. CASE Restarts BY <1>2 DEF Restarts
<1>3. CASE Asks
  <2>1. PICK s, c, f : AskFrom(s, c, f) BY <1>3, AsksShape
  <2> QED BY <2>1 DEF AskFrom, Rest, server
<1>4. CASE Leaves BY <1>4, LeavesShape DEF Left, server
<1>5. CASE Stays
  <2>1. Stayed BY <1>5, StaysShape
  <2> QED BY <1>1, <2>1 DEF Stayed, server, onBtnClothes, UserStates
<1>6. CASE Sells BY <1>6 DEF Sells, onBtnSale, ProductFailed, server
<1>7. CASE onOpen BY <1>7 DEF onOpen, server
<1>8. CASE onClose BY <1>8 DEF onClose
<1>9. CASE onMessage
  <2>1. CASE Dropped BY <2>1 DEF Dropped, server
  <2>2. CASE \E r : Taken(r)
    <3>1. PICK r : Taken(r) BY <2>2
    <3>2. /\ user' = Heard(user, delegate.target, r)
          /\ delegate.target \in {"start", "game", "play", "event"}
          /\ docs' = docs
      BY <3>1 DEF Taken, server
    <3> QED BY <1>1, <3>2 DEF Heard, UserStates
  <2> QED BY <1>9, <2>1, <2>2, MessageShape
<1>10. CASE ServeNext BY <1>10, NoNewDocument DEF ServeNext
<1>11. CASE CAProductByNotify
  <2>1. Sold BY <1>11, CreditShape
  <2> QED BY <1>1, <2>1 DEF Sold, server, UserStates
<1>12. CASE Stops BY <1>1, <1>12, UserTypes, StopsShape
<1>13. CASE Launch BY <1>13 DEF Launch, server
<1>14. CASE UNCHANGED vars BY <1>14 DEF vars, server
<1>15. CASE ServeOld
  <2>1. PICK o, m, clean : Drifts(o, m, clean) BY <1>15, DriftShape
  <2>2. user' = user BY <2>1 DEF Drifts
  <2> QED BY <2>1, <2>2, DriftMakes
<1> QED
  BY <1>2, <1>3, <1>4, <1>5, <1>6, <1>7, <1>8, <1>9, <1>10, <1>11, <1>12, <1>13,
     <1>14, <1>15, NextCases DEF Network

-----------------------------------------------------------------------------
LEMMA BaseInit ==
  ASSUME Init
  PROVE  Base
BY TypesInit, NumberedInit, TargetedInit, StartLineInit, AccountsInit DEF Base

LEMMA BaseNext ==
  ASSUME Base, [Next]_vars
  PROVE  Base'
BY TypesNext, NumberedNext, TargetedNext, StartLineNext, AccountsNext DEF Base

LEMMA BaseHolds == Spec => []Base
<1>1. Init => Base BY BaseInit
<1>2. Base /\ [Next]_vars => Base' BY BaseNext
<1> QED BY <1>1, <1>2, PTL DEF Spec

(* Every variable keeps its type, whatever the player, the network and the   *)
(* server do (start_scene.cpp, game_scene.cpp, play_scene.cpp).              *)
THEOREM ClientTypeCorrect == Spec => []TypeOK
<1>1. Base => TypeOK BY DEF Base, Types
<1> QED BY <1>1, BaseHolds, PTL

(* The timeout of a scene's timer never calls back NULL or a scene that is   *)
(* gone, however long the timers are (start_scene.cpp:72-97).                *)
THEOREM PollingTargetHereAlways == Spec => []PollingTargetHere
<1>1. Base => PollingTargetHere
  <2> SUFFICES ASSUME Base, scene.poll > 0
               PROVE  delegate.here /\ delegate.target = scene.at
    BY DEF PollingTargetHere
  <2>1. Targeted BY DEF Base
  <2>2. scene.at # "off"
    <3>1. NewScene("off").poll = 0 BY NewSceneFacts
    <3> QED BY <2>1, <3>1 DEF Targeted
  <2> QED BY <2>1, <2>2 DEF Targeted
<1> QED BY <1>1, BaseHolds, PTL

(* The start scene's timer, which outlasts the delegate's by assumption,     *)
(* never runs out before the player may go on or has been refused            *)
(* (start_scene.cpp:233-312).                                                *)
THEOREM StartSettlesAlways == Spec => []StartSettles
<1>1. Base => StartSettles BY DEF Base, StartLine, StartSettles
<1> QED BY <1>1, BaseHolds, PTL

(* A device keeps the account of its first login through every later step;   *)
(* and if the server makes another after that, it is for a login without an  *)
(* id that it had received over a connection the client has left since, and  *)
(* serves late (user.cpp:97-118, client.go:186-233).                         *)
THEOREM AccountKeptAlways == Spec => AccountKept
<1>1. Base /\ [Next]_vars =>
        [user.uid # 0 =>
           /\ user'.uid = user.uid
           /\ Len(docs') # Len(docs) => \E o \in old \ old' : Nameless(o)]_vars
  BY AccountStep DEF Base
<1> QED BY <1>1, BaseHolds, PTL DEF Spec, AccountKept
-----------------------------------------------------------------------------
(* What is entered and used has been paid for.                               *)
LEMMA TallyFacts ==
  ASSUME NEW t \in Tallies
  PROVE  /\ t.unpaid \in Int /\ t.owed \in [Girls -> Int] /\ t.strays \in Nat
         /\ t.strangers \in Nat /\ t.items \in Nat /\ t.itemsPaid \in Nat
         /\ t.refused \in Nat /\ t.bought \in Int /\ t.credited \in Nat
         /\ t.overtaken \in Nat /\ t.opens \in Nat /\ t.unheard \in Nat
         /\ t.unfinished \in Nat
BY DEF Tallies

LEMMA PaidInit ==
  ASSUME Init
  PROVE  Paid
<1>1. tally = [NoTally EXCEPT !.bought = pending] BY DEF Init
<1>2. /\ tally.unpaid = 0 /\ \A s \in Girls : tally.owed[s] = 0
      /\ tally.strays = 0 /\ tally.strangers = 0 /\ tally.items = 0
      /\ tally.itemsPaid = 0 /\ tally.refused = 0 /\ tally.opens = 0
  BY <1>1 DEF NoTally
<1>3. scene.at = "start" BY FirstScene DEF Init
<1>4. ~Entering /\ ~Ticket /\ ~ItemTicket BY <1>3 DEF Entering, Ticket, ItemTicket
<1>5. AskedFor BY <1>4 DEF AskedFor
<1>6. /\ One(Ticket) = 0 /\ One(ItemTicket) = 0
      /\ \A s \in Girls : One(Ticket /\ scene.want = s) = 0
  BY <1>4 DEF One
<1>7. Covered BY <1>2, <1>6 DEF Covered
<1> QED BY <1>5, <1>7 DEF Paid

(* No more is owed, no less excused, and nobody may enter who could not.     *)
LEMMA CoveredStill ==
  ASSUME tally \in Tallies, tally' \in Tallies, Covered,
         tally'.unpaid <= tally.unpaid,
         \A s \in Girls : tally'.owed[s] <= tally.owed[s],
         tally'.items = tally.items,
         tally.strays <= tally'.strays, tally.strangers <= tally'.strangers,
         tally.opens <= tally'.opens, tally.itemsPaid <= tally'.itemsPaid,
         tally.refused <= tally'.refused,
         Ticket' => Ticket /\ scene'.want = scene.want,
         ItemTicket' => ItemTicket
  PROVE  Covered'
<1>1. /\ One(Ticket) \in {0, 1} /\ One(ItemTicket) \in {0, 1}
      /\ \A s \in Girls : One(Ticket /\ scene.want = s) \in {0, 1}
      /\ One(Ticket)' \in {0, 1} /\ One(ItemTicket)' \in {0, 1}
      /\ \A s \in Girls : One(Ticket /\ scene.want = s)' \in {0, 1}
  BY DEF One
<1>2. One(Ticket)' <= One(Ticket) /\ One(ItemTicket)' <= One(ItemTicket)
  BY DEF One
<1>3. \A s \in Girls : One(Ticket /\ scene.want = s)' <= One(Ticket /\ scene.want = s)
  BY DEF One
<1>4. tally.unpaid + One(Ticket) <= tally.strangers + tally.opens BY DEF Covered
<1>5. \A s \in Girls : tally.owed[s] + One(Ticket /\ scene.want = s)
                         <= tally.strays + tally.strangers + tally.opens
  BY DEF Covered
<1>6. tally.items + One(ItemTicket)
        <= tally.itemsPaid + tally.strangers + tally.refused + tally.opens
  BY DEF Covered
<1>7. tally'.unpaid + One(Ticket)' <= tally'.strangers + tally'.opens
  BY <1>1, <1>2, <1>4, TallyFacts
<1>8. tally'.items + One(ItemTicket)'
        <= tally'.itemsPaid + tally'.strangers + tally'.refused + tally'.opens
  BY <1>1, <1>2, <1>6, TallyFacts
<1>9. \A s \in Girls : tally'.owed[s] + One(Ticket /\ scene.want = s)'
                         <= tally'.strays + tally'.strangers + tally'.opens
  <2> TAKE s \in Girls
  <2>1. tally.owed[s] \in Int /\ tally'.owed[s] \in Int BY TallyFacts
  <2> QED BY <1>1, <1>3, <1>5, <2>1, TallyFacts
<1> QED BY <1>7, <1>8, <1>9 DEF Covered
LEMMA BaseFacts ==
  ASSUME Base
  PROVE  /\ Types /\ Numbered /\ Targeted /\ StartLine /\ Accounts
         /\ scene \in SceneStates /\ delegate \in DelegateStates
         /\ user \in UserStates /\ up \in Seq(Sent) /\ down \in Seq(Answered)
         /\ docs \in Seq(Ready) /\ tally \in Tallies
         /\ Len(up) \in Nat /\ Len(down) \in Nat /\ Len(docs) \in Nat
         /\ sess.uid \in 0..Len(docs) /\ sess \in Sessions
         /\ sess.uid # 0 => sess.udb \in Ready
         /\ pending \in Nat /\ attempts \in Nat \ {0} /\ scene.poll \in Nat
         /\ delegate.last \in Nat /\ delegate.seq = delegate.last + 1
         /\ delegate.flag \in BOOLEAN /\ gotostart \in BOOLEAN
<1>1. Types /\ Numbered /\ Targeted /\ StartLine /\ Accounts BY DEF Base
<1>2. user \in UserStates /\ gotostart \in BOOLEAN
  BY <1>1 DEF Types, TypeOK, UserStates
<1>3. delegate.seq = delegate.last + 1 BY <1>1 DEF Numbered
<1> QED BY <1>1, <1>2, <1>3, TypeFacts

(* While a stage is waited for, the newest request is the one for it, also   *)
(* as the server reads it.                                                   *)
LEMMA ReadNewest ==
  ASSUME Base, NEW m, NEW clean, ReadAs(up, m, clean), up # <<>>, m.seq = delegate.last
  PROVE  \E k \in 1..Len(up) : m = up[k]
<1>1. up \in Seq(Sent) /\ Len(up) \in Nat /\ delegate.last \in Nat BY BaseFacts
<1>2. Len(up) >= 1 BY <1>1
<1>3. CASE m = up[1] BY <1>2, <1>3
<1>4. CASE Len(up) >= 2 /\ m = up[2] BY <1>1, <1>4
<1>5. CASE Len(up) >= 2 /\ m.seq = up[1].seq
  <2>1. 1 \in 1..Len(up) /\ 2 \in 1..Len(up) BY <1>1, <1>5
  <2>2. up[1].seq < up[2].seq /\ up[2].seq <= delegate.last
    BY <2>1, BaseFacts DEF Numbered
  <2>3. up[1].seq \in Nat /\ up[2].seq \in Nat
    <3>1. up[1] \in Sent /\ up[2] \in Sent BY <1>1, <2>1
    <3> QED BY <3>1 DEF Sent
  <2> QED BY <1>1, <1>5, <2>2, <2>3
<1> QED BY <1>3, <1>4, <1>5 DEF ReadAs

LEMMA AskedForNext ==
  ASSUME Base, AskedFor, [Next]_vars
  PROVE  AskedFor'
<1>1. /\ Types /\ Targeted /\ StartLine /\ Accounts
      /\ scene \in SceneStates /\ delegate \in DelegateStates
      /\ up \in Seq(Sent) /\ down \in Seq(Answered) /\ scene.poll \in Nat
      /\ Len(up) \in Nat /\ Len(down) \in Nat
      /\ delegate.last \in Nat /\ delegate.seq = delegate.last + 1
  BY BaseFacts
<1>2. /\ \A k \in 1..Len(up) : up[k].seq <= delegate.last
      /\ \A k \in 1..Len(down) : down[k].seq <= delegate.last
  BY BaseFacts DEF Numbered
<1>3. /\ \A k \in 1..Len(up) : up[k].seq \in Nat
      /\ \A k \in 1..Len(down) : down[k].seq \in Nat
  <2>1. \A k \in 1..Len(up) : up[k] \in Sent BY <1>1
  <2>2. \A k \in 1..Len(down) : down[k] \in Answered BY <1>1
  <2> QED BY <2>1, <2>2 DEF Sent, Answered
<1>4. ASSUME scene'.at # "game" \/ scene'.poll = 0
      PROVE  AskedFor'
  BY <1>4 DEF AskedFor, Entering
<1>5. ASSUME scene'.at = scene.at, scene'.poll > 0 => scene.poll > 0,
             scene'.want = scene.want, delegate'.last = delegate.last,
             UNCHANGED <<up, down>>
      PROVE  AskedFor'
  BY <1>5 DEF AskedFor, Entering
<1>6. CASE Restarts
  <2>1. scene'.at = "start" BY <1>6, FirstScene DEF Restarts, Restart
  <2> QED BY <1>4, <2>1
<1>7. CASE Asks
  <2>1. PICK s, c, f : AskFrom(s, c, f) /\ AskedAs(s, c, f) BY <1>1, <1>7, AsksShape
  <2>2. scene'.at = scene.at /\ (scene.at = "game" => scene'.want = scene.stage)
    BY <1>1, <2>1, AskScene
  <2>3. CASE scene.at # "game" BY <1>4, <2>2, <2>3
  <2>4. CASE scene.at = "game"
    <3>1. scene.stage \in Girls /\ c = kCmdStartPlay /\ f["stageid"] = scene.stage
      BY <1>1, <2>1, <2>4 DEF Types, AskedAs, LoginAsked
    <3>2. /\ Outgoing(c, f) \in Sent /\ Outgoing(c, f).seq = delegate.seq
          /\ Outgoing(c, f).cmd = c /\ Outgoing(c, f).body = f
      BY <1>1, <2>1, OutgoingSent DEF AskFrom
    <3>3. delegate'.last = delegate.seq BY <1>1, <2>1, SendingFields DEF AskFrom
    <3>4. \A k \in 1..Len(up') : up'[k].seq = delegate'.last =>
            up'[k].cmd = kCmdStartPlay /\ up'[k].body["stageid"] = scene'.want
      <4>1. \A k \in 1..Len(up) : up[k].seq # delegate'.last
        BY <1>1, <1>2, <1>3, <3>3
      <4>2. CASE up' = up BY <4>1, <4>2
      <4>3. CASE up' = Append(up, Outgoing(c, f))
        <5> DEFINE x == Outgoing(c, f)
        <5>1. /\ x \in Sent /\ x.cmd = kCmdStartPlay
              /\ x.body["stageid"] = scene'.want
          BY <2>2, <2>4, <3>1, <3>2
        <5> HIDE DEF x
        <5> QED BY <1>1, <4>1, <4>3, <5>1, AppendAt DEF x
      <4> QED BY <2>1, <4>2, <4>3 DEF AskFrom
    <3>5. \A k \in 1..Len(down') : down'[k].seq # delegate'.last
      <4>1. down' = down BY <2>1 DEF AskFrom, Rest
      <4>2. \A n \in Nat : n <= delegate.last => n # delegate.seq BY <1>1
      <4> QED BY <1>2, <1>3, <3>3, <4>1, <4>2
    <3> QED BY <2>2, <2>4, <3>1, <3>4, <3>5 DEF AskedFor
  <2> QED BY <2>3, <2>4
<1>8. CASE Leaves
  <2>1. scene'.poll = 0 BY <1>1, <1>8, LeavesShape DEF Left
  <2> QED BY <1>4, <2>1
<1>9. CASE Stays
  <2>1. Stayed BY <1>1, <1>9, StaysShape
  <2>2. delegate'.last = delegate.last
    <3>1. CASE delegate' = delegate BY <3>1
    <3>2. CASE delegate' = Counting(delegate) BY <1>1, <3>2, DelegateFields
    <3> QED BY <2>1, <3>1, <3>2 DEF Stayed
  <2>3. scene'.poll > 0 => scene.poll > 0 BY <1>1, <2>1 DEF Stayed
  <2>4. scene'.at = scene.at /\ scene'.want = scene.want /\ UNCHANGED <<up, down>>
    BY <2>1 DEF Stayed
  <2> QED BY <1>5, <2>2, <2>3, <2>4
<1>10. CASE Sells
  BY <1>5, <1>10 DEF Sells, onBtnSale, ProductFailed, net
<1>11. CASE onOpen
  <2>1. up' = <<>> /\ down' = <<>>
    BY <1>11, BaseFacts DEF onOpen, Numbered
  <2>2. scene'.at = scene.at /\ scene'.poll = scene.poll /\ scene'.want = scene.want
    <3>1. CASE scene' = scene BY <3>1
    <3>2. CASE scene' = [scene EXCEPT !.login = 1] BY <1>1, <3>2 DEF SceneStates
    <3> QED BY <1>11, <3>1, <3>2 DEF onOpen
  <2> QED BY <2>1, <2>2 DEF AskedFor, Entering
<1>12. CASE onClose
  <2>1. up' = <<>> /\ down' = <<>> /\ scene' = scene BY <1>12 DEF onClose, GiveUp
  <2> QED BY <2>1 DEF AskedFor, Entering
<1>13. CASE onMessage
  <2>1. down # <<>> /\ down' = Tail(down) /\ up' = up BY <1>13 DEF onMessage
  <2>2. \A k \in 1..Len(down') : k + 1 \in 1..Len(down) /\ down'[k] = down[k + 1]
    BY <1>1, <2>1, TailAt
  <2>3. /\ scene'.at = scene.at /\ scene'.poll = scene.poll
        /\ scene'.want = scene.want /\ delegate'.last = delegate.last
    <3>1. CASE Dropped BY <3>1 DEF Dropped
    <3>2. CASE \E r : Taken(r)
      <4>1. /\ delegate' = Flagged(delegate)
            /\ scene'.at = scene.at /\ scene'.poll = scene.poll
            /\ scene'.want = scene.want
        BY <3>2 DEF Taken
      <4> QED BY <1>1, <4>1, DelegateFields
    <3> QED BY <1>1, <1>13, <3>1, <3>2, MessageShape
  <2> QED BY <2>1, <2>2, <2>3 DEF AskedFor, Entering
<1>14. CASE ServeNext
  <2>1. PICK m, clean, r : Handled(m, clean, r) BY <1>1, <1>14, ServeShape
  <2>2. /\ up # <<>> /\ up' = Tail(up) /\ UNCHANGED <<scene, delegate>>
        /\ down' = Append(down, r) /\ r \in Answered
        /\ r.cmd = m.cmd /\ r.seq = m.seq /\ r.sid = m.body["stageid"]
        /\ ReadAs(up, m, clean)
    BY <2>1 DEF Handled
  <2>3. CASE ~Entering BY <2>2, <2>3 DEF AskedFor, Entering
  <2>4. CASE Entering
    <3>1. r.seq = delegate.last => r.cmd = kCmdStartPlay /\ r.sid = scene.want
      <4> HAVE r.seq = delegate.last
      <4>1. m.seq = delegate.last BY <2>2
      <4>2. PICK k \in 1..Len(up) : m = up[k] BY <2>2, <4>1, ReadNewest
      <4> QED BY <2>2, <2>4, <4>1, <4>2 DEF AskedFor
    <3>2. \A k \in 1..Len(up') : k + 1 \in 1..Len(up) /\ up'[k] = up[k + 1]
      BY <1>1, <2>2, TailAt
    <3>3. \A k \in 1..Len(down') :
            \/ k \in 1..Len(down) /\ down'[k] = down[k]
            \/ down'[k] = r
      BY <1>1, <2>2, AppendAt
    <3> QED BY <2>2, <2>4, <3>1, <3>2, <3>3 DEF AskedFor, Entering
  <2> QED BY <2>3, <2>4
<1>15. CASE CAProductByNotify
  <2>1. scene'.poll = 0
    BY <1>1, <1>15, CreditShape, NewSceneFacts DEF Sold, Scenes
  <2> QED BY <1>4, <2>1
<1>16. CASE Stops
  <2>1. scene'.at = "off" BY <1>1, <1>16, NewSceneFacts, StopsShape
  <2> QED BY <1>4, <2>1
<1>17. CASE Launch
  <2>1. scene'.at = "start" BY <1>17, FirstScene DEF Launch
  <2> QED BY <1>4, <2>1
<1>18. CASE UNCHANGED vars BY <1>5, <1>18 DEF vars, net
<1>19. CASE ServeOld
  <2>1. UNCHANGED <<scene, delegate, up, down>> BY <1>19 DEF ServeOld, net
  <2> QED BY <1>5, <2>1
<1> QED
  BY <1>1, <1>6, <1>7, <1>8, <1>9, <1>10, <1>11, <1>12, <1>13, <1>14, <1>15, <1>16,
     <1>17, <1>18, <1>19, NextCases DEF Network

(* One more excuse covers whoever may enter or use now.                      *)
LEMMA CoveredMore ==
  ASSUME tally \in Tallies, tally' \in Tallies, Covered,
         tally'.unpaid <= tally.unpaid,
         \A s \in Girls : tally'.owed[s] <= tally.owed[s],
         tally'.items = tally.items,
         tally.strays <= tally'.strays, tally.itemsPaid <= tally'.itemsPaid,
         tally.refused <= tally'.refused,
         tally.strangers + tally.opens + 1 <= tally'.strangers + tally'.opens
  PROVE  Covered'
<1>1. /\ One(Ticket) \in {0, 1} /\ One(ItemTicket) \in {0, 1}
      /\ \A s \in Girls : One(Ticket /\ scene.want = s) \in {0, 1}
      /\ One(Ticket)' \in {0, 1} /\ One(ItemTicket)' \in {0, 1}
      /\ \A s \in Girls : One(Ticket /\ scene.want = s)' \in {0, 1}
  BY DEF One
<1>2. tally.unpaid + One(Ticket) <= tally.strangers + tally.opens BY DEF Covered
<1>3. \A s \in Girls : tally.owed[s] + One(Ticket /\ scene.want = s)
                         <= tally.strays + tally.strangers + tally.opens
  BY DEF Covered
<1>4. tally.items + One(ItemTicket)
        <= tally.itemsPaid + tally.strangers + tally.refused + tally.opens
  BY DEF Covered
<1>5. tally'.unpaid + One(Ticket)' <= tally'.strangers + tally'.opens
  BY <1>1, <1>2, TallyFacts
<1>6. tally'.items + One(ItemTicket)'
        <= tally'.itemsPaid + tally'.strangers + tally'.refused + tally'.opens
  BY <1>1, <1>4, TallyFacts
<1>7. \A s \in Girls : tally'.owed[s] + One(Ticket /\ scene.want = s)'
                         <= tally'.strays + tally'.strangers + tally'.opens
  <2> TAKE s \in Girls
  <2>1. tally.owed[s] \in Int /\ tally'.owed[s] \in Int BY TallyFacts
  <2>2. tally'.owed[s] <= tally.owed[s] OBVIOUS
  <2> QED BY <1>1, <1>3, <2>1, <2>2, TallyFacts
<1> QED BY <1>5, <1>6, <1>7 DEF Covered

(* What an answer sent, and what an answer read, may let the player do.      *)
LEMMA TicketSent ==
  ASSUME Base, NEW r \in Answered, down' = Append(down, r),
         UNCHANGED <<scene, delegate, gotostart>>
  PROVE  /\ Ticket' => Ticket \/ (Entering /\ Newest(r))
         /\ ItemTicket' => ItemTicket \/ (Newest(r) /\ r.cmd = kCmdUseItem)
<1>1. \A i \in 1..Len(down') : (i \in 1..Len(down) /\ down'[i] = down[i]) \/ down'[i] = r
  BY BaseFacts, AppendAt
<1>2. \A x : Newest(x)' <=> Newest(x) BY DEF Newest
<1>3. Ticket' => Ticket \/ (Entering /\ Newest(r))
  <2> HAVE Ticket'
  <2>1. Entering BY DEF Ticket, Entering
  <2>2. CASE delegate'.flag /\ ~gotostart' BY <2>1, <2>2 DEF Ticket
  <2>3. CASE \E i \in 1..Len(down') : Newest(down'[i])
    BY <1>1, <2>1, <2>3 DEF Ticket
  <2> QED BY <2>2, <2>3 DEF Ticket, Newest
<1>4. ItemTicket' => ItemTicket \/ (Newest(r) /\ r.cmd = kCmdUseItem)
  <2> HAVE ItemTicket'
  <2>1. scene.at = "play" /\ scene.poll > 0 BY DEF ItemTicket
  <2>2. CASE delegate'.flag /\ scene'.cmd = kCmdUseItem BY <2>1, <2>2 DEF ItemTicket
  <2>3. CASE \E i \in 1..Len(down') : Newest(down'[i]) /\ down'[i].cmd = kCmdUseItem
    BY <1>1, <2>1, <2>3 DEF ItemTicket
  <2> QED BY <2>2, <2>3 DEF ItemTicket, Newest
<1> QED BY <1>3, <1>4

LEMMA TicketRead ==
  ASSUME Base, NEW r, Taken(r)
  PROVE  /\ Ticket' => Ticket /\ scene'.want = scene.want
         /\ ItemTicket' => ItemTicket \/ (delegate.target = "play" /\ r.err # kErrNone)
<1>1. /\ scene \in SceneStates /\ delegate \in DelegateStates /\ Targeted
      /\ down \in Seq(Answered) /\ gotostart \in BOOLEAN
  BY BaseFacts
<1>2. /\ down # <<>> /\ r = down[1] /\ r.seq = delegate.last /\ down' = Tail(down)
      /\ delegate' = Flagged(delegate)
      /\ scene'.at = scene.at /\ scene'.poll = scene.poll
      /\ scene'.want = scene.want
      /\ gotostart' = (gotostart \/ (r.err # kErrNone /\ delegate.target \in {"game", "event"}))
  BY DEF Taken
<1>3. delegate'.last = delegate.last BY <1>1, <1>2, DelegateFields
<1>4. 1 \in 1..Len(down) BY <1>1, <1>2
<1>5. \A i \in 1..Len(down') : i + 1 \in 1..Len(down) /\ down'[i] = down[i + 1]
  BY <1>1, <1>2, TailAt
<1>7. scene.poll > 0 /\ scene.at # "off" => delegate.here /\ delegate.target = scene.at
  BY <1>1 DEF Targeted
<1>8. ASSUME Ticket' PROVE Ticket
  <2>1. Entering /\ scene.at = "game" /\ scene.poll > 0
    BY <1>2, <1>8 DEF Ticket, Entering
  <2>2. delegate.target = "game" BY <1>7, <2>1
  <2>3. CASE ~gotostart'
    <3>1. Newest(down[1]) BY <1>2, <2>2, <2>3 DEF Newest
    <3> QED BY <1>4, <2>1, <3>1 DEF Ticket
  <2>4. CASE \E i \in 1..Len(down') : Newest(down[i])'
    <3>1. PICK i \in 1..Len(down') : Newest(down[i])' BY <2>4
    <3>2. Newest(down[i + 1]) BY <1>3, <1>5, <3>1 DEF Newest
    <3> QED BY <1>5, <2>1, <3>2 DEF Ticket
  <2> QED BY <1>8, <2>3, <2>4 DEF Ticket, Newest
<1>9. ASSUME ItemTicket', ~(delegate.target = "play" /\ r.err # kErrNone)
      PROVE  ItemTicket
  <2>1. scene.at = "play" /\ scene.poll > 0 BY <1>2, <1>9 DEF ItemTicket
  <2>2. delegate.target = "play" /\ delegate.here /\ r.err = kErrNone
    BY <1>7, <1>9, <2>1
  <2>3. CASE scene'.cmd = kCmdUseItem
    <3>1. scene' = Told(scene, r) BY <2>2 DEF Taken
    <3>2. scene' = [scene EXCEPT !.cmd = r.cmd] BY <2>1, <2>2, <3>1 DEF Told
    <3>3. r.cmd = kCmdUseItem BY <1>1, <2>3, <3>2 DEF SceneStates
    <3>4. Newest(down[1]) /\ down[1].cmd = kCmdUseItem
      BY <1>2, <2>2, <3>3 DEF Newest
    <3> QED BY <1>4, <2>1, <3>4 DEF ItemTicket
  <2>4. CASE \E i \in 1..Len(down') : Newest(down[i])' /\ down'[i].cmd = kCmdUseItem
    <3>1. PICK i \in 1..Len(down') : Newest(down[i])' /\ down'[i].cmd = kCmdUseItem
      BY <2>4
    <3>2. Newest(down[i + 1]) /\ down[i + 1].cmd = kCmdUseItem
      BY <1>3, <1>5, <3>1 DEF Newest
    <3> QED BY <1>5, <2>1, <3>2 DEF ItemTicket
  <2> QED BY <1>9, <2>3, <2>4 DEF ItemTicket, Newest
<1> QED BY <1>2, <1>8, <1>9

(* An answer that lets the player do something has been counted.             *)
LEMMA CoveredServed ==
  ASSUME Base, AskedFor, Covered, NEW m, NEW clean, NEW r,
         Handled(m, clean, r), Counted(clean, r)
  PROVE  Covered'
<1>1. tally \in Tallies /\ tally' \in Tallies BY BaseFacts DEF Counted
<1>2. /\ tally'.strangers = tally.strangers + One(r.bare /\ r.err = kErrNone)
      /\ tally'.unpaid = tally.unpaid - One(Charged(r) /\ r.cmd = kCmdStartPlay)
      /\ \A s \in Girls : tally'.owed[s] =
           tally.owed[s] - One(Charged(r) /\ r.cmd = kCmdStartPlay /\ s = r.sid)
      /\ tally'.itemsPaid = tally.itemsPaid + One(Charged(r) /\ r.cmd = kCmdUseItem)
      /\ tally'.strays = tally.strays /\ tally'.items = tally.items
      /\ tally'.refused = tally.refused /\ tally'.opens = tally.opens
  BY DEF Counted
<1>3. /\ up # <<>> /\ r \in Answered /\ r.cmd = m.cmd /\ r.seq = m.seq
      /\ r.sid = m.body["stageid"] /\ down' = Append(down, r) /\ ReadAs(up, m, clean)
      /\ UNCHANGED <<scene, delegate, gotostart>>
      /\ ByUser(m, r) \/ ByStranger(m, r) \/ Failed(m, r)
  BY DEF Handled
<1>4. r.bare \in BOOLEAN BY <1>3 DEF Answered
<1>5. /\ Ticket' => Ticket \/ (Entering /\ Newest(r))
      /\ ItemTicket' => ItemTicket \/ (Newest(r) /\ r.cmd = kCmdUseItem)
  BY <1>3, TicketSent
<1>6. Entering /\ Newest(r) => r.cmd = kCmdStartPlay /\ r.sid = scene.want
  <2> HAVE Entering /\ Newest(r)
  <2>1. m.seq = delegate.last BY <1>3 DEF Newest
  <2>2. PICK k \in 1..Len(up) : m = up[k] BY <1>3, <2>1, ReadNewest
  <2> QED BY <1>3, <2>1, <2>2 DEF AskedFor
<1>7. \A b \in BOOLEAN : One(b) \in {0, 1} /\ (b => One(b) = 1) /\ (~b => One(b) = 0)
  BY DEF One
<1>8. /\ tally.unpaid \in Int /\ tally.strangers \in Nat /\ tally.itemsPaid \in Nat
      /\ tally.strays \in Nat /\ tally.refused \in Nat /\ tally.opens \in Nat
      /\ tally.items \in Nat /\ \A s \in Girls : tally.owed[s] \in Int
  BY <1>1, TallyFacts
<1>9. /\ tally'.unpaid <= tally.unpaid
      /\ \A s \in Girls : tally'.owed[s] <= tally.owed[s]
      /\ tally.strangers <= tally'.strangers /\ tally.itemsPaid <= tally'.itemsPaid
  BY <1>2, <1>8 DEF One
<1>10. CASE r.bare /\ r.err = kErrNone
  <2>1. tally'.strangers = tally.strangers + 1 BY <1>2, <1>10 DEF One
  <2> QED BY <1>1, <1>2, <1>8, <1>9, <2>1, CoveredMore
<1>11. CASE ~Newest(r) \/ r.cmd \notin {kCmdStartPlay, kCmdUseItem}
  <2>1. (Ticket' => Ticket) /\ (ItemTicket' => ItemTicket)
    BY <1>5, <1>6, <1>11
  <2>2. /\ tally.strays <= tally'.strays /\ tally.opens <= tally'.opens
        /\ tally.refused <= tally'.refused
    BY <1>2, <1>8
  <2>3. scene'.want = scene.want BY <1>3
  <2> HIDE DEF Ticket, ItemTicket
  <2> QED BY <1>1, <1>2, <1>9, <2>1, <2>2, <2>3, CoveredStill
<1>12. CASE ~r.bare /\ Newest(r) /\ r.cmd \in {kCmdStartPlay, kCmdUseItem}
  <2>1. Charged(r)
    <3>1. ByUser(m, r) BY <1>3, <1>12 DEF ByStranger, Failed
    <3>2. sess.uid # 0
      BY <1>3, <1>12, <3>1 DEF ByUser, kCmdUserLogin, kCmdStartPlay, kCmdUseItem
    <3> QED BY <1>4, <1>12, <3>2 DEF Charged, Newest
  <2>2. /\ One(Ticket) \in {0, 1} /\ One(ItemTicket) \in {0, 1}
        /\ One(Ticket)' \in {0, 1} /\ One(ItemTicket)' \in {0, 1}
        /\ \A s \in Girls : One(Ticket /\ scene.want = s) \in {0, 1}
        /\ \A s \in Girls : One(Ticket /\ scene.want = s)' \in {0, 1}
    BY DEF One
  <2>3. /\ tally.unpaid + One(Ticket) <= tally.strangers + tally.opens
        /\ \A s \in Girls : tally.owed[s] + One(Ticket /\ scene.want = s)
                              <= tally.strays + tally.strangers + tally.opens
        /\ tally.items + One(ItemTicket)
             <= tally.itemsPaid + tally.strangers + tally.refused + tally.opens
    BY DEF Covered
  <2>4. tally'.strangers = tally.strangers BY <1>2, <1>8, <1>12 DEF One
  <2>5. CASE r.cmd = kCmdStartPlay
    <3>1. /\ tally'.unpaid = tally.unpaid - 1
          /\ \A s \in Girls : s = r.sid => tally'.owed[s] = tally.owed[s] - 1
          /\ tally'.itemsPaid = tally.itemsPaid
      BY <1>2, <1>8, <2>1, <2>5 DEF One, kCmdStartPlay, kCmdUseItem
    <3>2. ItemTicket' => ItemTicket BY <1>5, <2>5 DEF kCmdStartPlay, kCmdUseItem
    <3>3. One(ItemTicket)' <= One(ItemTicket) BY <3>2 DEF One
    <3>4. \A s \in Girls : \/ One(Ticket /\ scene.want = s)' <= One(Ticket /\ scene.want = s)
                           \/ s = r.sid
      BY <1>3, <1>5, <1>6 DEF One
    <3>5. tally'.unpaid + One(Ticket)' <= tally'.strangers + tally'.opens
      BY <1>2, <1>8, <2>2, <2>3, <2>4, <3>1
    <3>6. \A s \in Girls : tally'.owed[s] + One(Ticket /\ scene.want = s)'
                             <= tally'.strays + tally'.strangers + tally'.opens
      <4> TAKE s \in Girls
      <4>1. tally.owed[s] \in Int /\ tally'.owed[s] <= tally.owed[s]
            /\ tally'.owed[s] \in Int
        BY <1>1, <1>8, <1>9, TallyFacts
      <4> QED BY <1>2, <1>8, <2>2, <2>3, <2>4, <3>1, <3>4, <4>1
    <3>7. tally'.items + One(ItemTicket)'
            <= tally'.itemsPaid + tally'.strangers + tally'.refused + tally'.opens
      BY <1>2, <1>8, <2>2, <2>3, <2>4, <3>1, <3>3
    <3> QED BY <3>5, <3>6, <3>7 DEF Covered
  <2>6. CASE r.cmd = kCmdUseItem
    <3>1. /\ tally'.unpaid = tally.unpaid
          /\ tally'.itemsPaid = tally.itemsPaid + 1
      BY <1>2, <1>8, <2>1, <2>6 DEF One, kCmdStartPlay, kCmdUseItem
    <3>2. Ticket' => Ticket BY <1>5, <1>6, <2>6 DEF kCmdStartPlay, kCmdUseItem
    <3>3. One(Ticket)' <= One(Ticket) BY <3>2 DEF One
    <3>4. \A s \in Girls :
            One(Ticket /\ scene.want = s)' <= One(Ticket /\ scene.want = s)
      BY <1>3, <3>2 DEF One
    <3>5. tally'.unpaid + One(Ticket)' <= tally'.strangers + tally'.opens
      BY <1>2, <1>8, <2>2, <2>3, <2>4, <3>1, <3>3
    <3>6. \A s \in Girls : tally'.owed[s] + One(Ticket /\ scene.want = s)'
                             <= tally'.strays + tally'.strangers + tally'.opens
      <4> TAKE s \in Girls
      <4>1. tally.owed[s] \in Int /\ tally'.owed[s] <= tally.owed[s]
            /\ tally'.owed[s] \in Int
        BY <1>1, <1>8, <1>9, TallyFacts
      <4> QED BY <1>2, <1>8, <2>2, <2>3, <2>4, <3>4, <4>1
    <3>7. tally'.items + One(ItemTicket)'
            <= tally'.itemsPaid + tally'.strangers + tally'.refused + tally'.opens
      BY <1>2, <1>8, <2>2, <2>3, <2>4, <3>1
    <3> QED BY <3>5, <3>6, <3>7 DEF Covered
  <2> QED BY <1>12, <2>5, <2>6
<1> QED BY <1>4, <1>10, <1>11, <1>12 DEF Newest

LEMMA CoveredNext ==
  ASSUME Base, AskedFor, Covered, [Next]_vars
  PROVE  Covered'
<1>1. /\ Types /\ Targeted /\ StartLine /\ Accounts
      /\ scene \in SceneStates /\ delegate \in DelegateStates
      /\ down \in Seq(Answered) /\ scene.poll \in Nat
      /\ delegate.last \in Nat /\ delegate.seq = delegate.last + 1
      /\ tally \in Tallies /\ delegate.flag \in BOOLEAN
  BY BaseFacts
<1>2. tally' \in Tallies
  <2>1. Base' BY BaseNext
  <2> QED BY <2>1 DEF Base, Types
<1>3. /\ \A s \in Girls : tally.owed[s] \in Int
      /\ tally.unpaid \in Int /\ tally.strays \in Nat /\ tally.strangers \in Nat
      /\ tally.opens \in Nat /\ tally.itemsPaid \in Nat /\ tally.refused \in Nat
      /\ tally.items \in Nat
  BY <1>1, TallyFacts
<1>4. /\ tally.unpaid + One(Ticket) <= tally.strangers + tally.opens
      /\ \A s \in Girls : tally.owed[s] + One(Ticket /\ scene.want = s)
                            <= tally.strays + tally.strangers + tally.opens
      /\ tally.items + One(ItemTicket)
           <= tally.itemsPaid + tally.strangers + tally.refused + tally.opens
  BY DEF Covered
<1>5. ASSUME tally' = tally, Ticket' => Ticket /\ scene'.want = scene.want,
             ItemTicket' => ItemTicket
      PROVE  Covered'
  <2> HIDE DEF Ticket, ItemTicket
  <2>1. \A s \in Girls : tally'.owed[s] <= tally.owed[s] BY <1>3, <1>5
  <2> QED BY <1>1, <1>2, <1>3, <1>5, <2>1, CoveredStill
<1>20. ASSUME \/ tally' = [tally EXCEPT !.unfinished = @ + 1]
              \/ \E i, j : tally' = [tally EXCEPT !.overtaken = i, !.credited = j],
              Ticket' => Ticket /\ scene'.want = scene.want,
              ItemTicket' => ItemTicket
       PROVE  Covered'
  <2> HIDE DEF Ticket, ItemTicket
  <2>1. /\ tally'.unpaid = tally.unpaid /\ tally'.strays = tally.strays
        /\ tally'.strangers = tally.strangers /\ tally'.opens = tally.opens
        /\ tally'.itemsPaid = tally.itemsPaid /\ tally'.items = tally.items
        /\ tally'.refused = tally.refused /\ tally'.owed = tally.owed
    BY <1>1, <1>20 DEF Tallies
  <2>2. \A s \in Girls : tally'.owed[s] <= tally.owed[s] BY <1>3, <2>1
  <2>3. /\ tally'.unpaid <= tally.unpaid /\ tally.strays <= tally'.strays
        /\ tally.strangers <= tally'.strangers /\ tally.opens <= tally'.opens
        /\ tally.itemsPaid <= tally'.itemsPaid /\ tally.refused <= tally'.refused
    BY <1>3, <2>1
  <2>4. (Ticket' => Ticket /\ scene'.want = scene.want) /\ (ItemTicket' => ItemTicket)
    BY <1>20
  <2> QED BY <1>1, <1>2, <2>1, <2>2, <2>3, <2>4, CoveredStill
<1>6. ASSUME scene'.at \notin {"game", "play"} \/ scene'.poll = 0
      PROVE  ~Ticket' /\ ~ItemTicket'
  BY <1>6 DEF Ticket, ItemTicket, Entering
<1>7. CASE Restarts
  <2>1. scene'.at = "start" BY <1>7, FirstScene DEF Restarts, Restart
  <2>2. tally' = tally BY <1>7 DEF Restarts
  <2> QED BY <1>5, <1>6, <2>1, <2>2
<1>8. CASE Asks
  <2>1. PICK s, c, f : AskFrom(s, c, f) /\ AskedAs(s, c, f) BY <1>1, <1>8, AsksShape
  <2>2. delegate'.last = delegate.seq /\ delegate'.flag = FALSE
    BY <1>1, <2>1, SendingFields DEF AskFrom
  <2>3. tally' = tally /\ down' = down BY <2>1 DEF AskFrom, Rest
  <2>4. \A k \in 1..Len(down) : down[k].seq \in Nat /\ down[k].seq <= delegate.last
    <3>1. \A k \in 1..Len(down) : down[k] \in Answered BY <1>1
    <3> QED BY <3>1, BaseFacts DEF Answered, Numbered
  <2>5. \A n \in Nat : n <= delegate.last => n # delegate.seq BY <1>1
  <2>6. \A k \in 1..Len(down') : down'[k].seq # delegate'.last
    BY <2>2, <2>3, <2>4, <2>5
  <2>7. ~Ticket' /\ ~ItemTicket' BY <2>2, <2>6 DEF Ticket, ItemTicket, Newest
  <2> QED BY <1>5, <2>3, <2>7
<1>9. CASE Leaves
  <2>1. Left BY <1>1, <1>9, LeavesShape
  <2>2. scene'.poll = 0 BY <2>1 DEF Left
  <2>3. CASE scene'.at # "play"
    <3>1. tally' = tally BY <2>1, <2>3 DEF Left
    <3> QED BY <1>5, <1>6, <2>2, <3>1
  <2>4. CASE scene'.at = "play"
    <3>1. StageEntered BY <2>1, <2>4 DEF Left
    <3>2. Ticket BY <3>1 DEF StageEntered, Ticket, Entering, Ticking
    <3> DEFINE n == IF scene.stage = scene.want THEN 0 ELSE 1
    <3>3. tally' = [tally EXCEPT !.unpaid = @ + 1, !.owed[scene.stage] = @ + 1,
                      !.strays = @ + n]
      BY <3>1 DEF StageEntered
    <3>4. n \in {0, 1} /\ (scene.stage # scene.want => n = 1) OBVIOUS
    <3>5. scene.stage \in Girls BY <1>1, <3>1 DEF Types, StageEntered
    <3> HIDE DEF n
    <3>6. /\ tally'.unpaid = tally.unpaid + 1 /\ tally'.strays = tally.strays + n
          /\ tally'.strangers = tally.strangers /\ tally'.opens = tally.opens
          /\ tally'.items = tally.items /\ tally'.itemsPaid = tally.itemsPaid
          /\ tally'.refused = tally.refused
          /\ tally'.owed = [tally.owed EXCEPT ![scene.stage] = @ + 1]
      BY <1>1, <3>3 DEF Tallies
    <3>7. \A s \in Girls : tally'.owed[s] =
            IF s = scene.stage THEN tally.owed[s] + 1 ELSE tally.owed[s]
      <4>1. tally.owed \in [Girls -> Int] BY <1>1, TallyFacts
      <4> QED BY <3>5, <3>6, <4>1
    <3>8. One(Ticket)' = 0 /\ One(ItemTicket)' = 0
          /\ \A s \in Girls : One(Ticket /\ scene.want = s)' = 0
      BY <1>6, <2>2 DEF One
    <3>9. /\ One(Ticket) = 1 /\ One(ItemTicket) \in {0, 1}
          /\ \A s \in Girls : /\ One(Ticket /\ scene.want = s) \in {0, 1}
                              /\ scene.want = s => One(Ticket /\ scene.want = s) = 1
      BY <3>2 DEF One
    <3>10. \A s \in Girls : tally'.owed[s] + 0
                              <= tally'.strays + tally'.strangers + tally'.opens
      BY <1>3, <1>4, <3>4, <3>6, <3>7, <3>9
    <3>11. tally'.unpaid + 0 <= tally'.strangers + tally'.opens
      BY <1>3, <1>4, <3>6, <3>9
    <3>12. tally'.items + 0
             <= tally'.itemsPaid + tally'.strangers + tally'.refused + tally'.opens
      BY <1>3, <1>4, <3>6, <3>9
    <3> QED BY <3>8, <3>10, <3>11, <3>12 DEF Covered
  <2> QED BY <2>3, <2>4
<1>10. CASE Stays
  <2>1. Stayed BY <1>1, <1>10, StaysShape
  <2>2. delegate'.last = delegate.last /\ delegate'.flag = delegate.flag
    <3>1. CASE delegate' = delegate BY <3>1
    <3>2. CASE delegate' = Counting(delegate) BY <1>1, <3>2, DelegateFields
    <3> QED BY <2>1, <3>1, <3>2 DEF Stayed
  <2>3. /\ scene'.at = scene.at /\ scene'.want = scene.want
        /\ scene'.poll > 0 => scene.poll > 0
        /\ gotostart' = gotostart /\ down' = down
    BY <1>1, <2>1 DEF Stayed
  <2>4. Ticket' => Ticket BY <2>2, <2>3 DEF Ticket, Entering, Newest
  <2>5. CASE scene'.cmd = scene.cmd /\ tally' = tally
    <3>1. ItemTicket' => ItemTicket BY <2>2, <2>3, <2>5 DEF ItemTicket, Newest
    <3> QED BY <1>5, <2>3, <2>4, <2>5, <3>1
  <2>6. CASE PlayDone /\ scene'.poll = 0
    <3>1. ~Ticket' /\ ~ItemTicket' BY <1>6, <2>6
    <3>2. CASE scene.cmd # kCmdUseItem
      <4>1. tally' = tally BY <2>6, <3>2 DEF PlayDone
      <4> QED BY <1>5, <3>1, <4>1
    <3>3. CASE scene.cmd = kCmdUseItem
      <4>1. tally' = [tally EXCEPT !.items = @ + 1] BY <2>6, <3>3 DEF PlayDone
      <4>2. ItemTicket BY <2>6, <3>3 DEF PlayDone, ItemTicket, Ticking
      <4>3. One(ItemTicket) = 1 BY <4>2 DEF One
      <4>4. /\ One(Ticket)' = 0 /\ One(ItemTicket)' = 0
            /\ \A s \in Girls : One(Ticket /\ scene.want = s)' = 0
            /\ One(Ticket) \in {0, 1}
            /\ \A s \in Girls : One(Ticket /\ scene.want = s) \in {0, 1}
        BY <3>1 DEF One
      <4>5. /\ tally'.items = tally.items + 1
            /\ tally'.unpaid = tally.unpaid /\ tally'.strays = tally.strays
            /\ tally'.strangers = tally.strangers /\ tally'.opens = tally.opens
            /\ tally'.itemsPaid = tally.itemsPaid
            /\ tally'.refused = tally.refused /\ tally'.owed = tally.owed
        BY <1>1, <4>1 DEF Tallies
      <4>6. \A s \in Girls : tally'.owed[s] + 0
                               <= tally'.strays + tally'.strangers + tally'.opens
        BY <1>3, <1>4, <4>4, <4>5
      <4>7. /\ tally'.unpaid + 0 <= tally'.strangers + tally'.opens
            /\ tally'.items + 0
                 <= tally'.itemsPaid + tally'.strangers + tally'.refused + tally'.opens
        BY <1>3, <1>4, <4>3, <4>4, <4>5
      <4> QED BY <4>4, <4>6, <4>7 DEF Covered
    <3> QED BY <3>2, <3>3
  <2> QED BY <2>1, <2>5, <2>6 DEF Stayed
<1>11. CASE Sells
  <2>1. UNCHANGED <<scene, delegate, gotostart, down>>
    BY <1>11 DEF Sells, onBtnSale, ProductFailed, net
  <2>2. (Ticket' => Ticket) /\ (ItemTicket' => ItemTicket)
    BY <2>1 DEF Ticket, ItemTicket, Entering, Newest
  <2>3. \E n : tally' = [tally EXCEPT !.bought = n]
    BY <1>11 DEF Sells, onBtnSale, ProductFailed
  <2>4. /\ tally'.unpaid = tally.unpaid /\ tally'.strays = tally.strays
        /\ tally'.strangers = tally.strangers /\ tally'.opens = tally.opens
        /\ tally'.itemsPaid = tally.itemsPaid /\ tally'.items = tally.items
        /\ tally'.refused = tally.refused /\ tally'.owed = tally.owed
    BY <1>1, <2>3 DEF Tallies
  <2> HIDE DEF Ticket, ItemTicket
  <2>5. \A s \in Girls : tally'.owed[s] <= tally.owed[s] BY <1>3, <2>4
  <2> QED BY <1>1, <1>2, <1>3, <2>1, <2>2, <2>4, <2>5, CoveredStill
<1>12. CASE onOpen
  <2>1. scene'.at = scene.at /\ scene'.poll = scene.poll
    <3>1. CASE scene' = scene BY <3>1
    <3>2. CASE scene' = [scene EXCEPT !.login = 1] BY <1>1, <3>2 DEF SceneStates
    <3> QED BY <1>12, <3>1, <3>2 DEF onOpen
  <2>2. CASE delegate.target \in {"start", "none"}
    <3>1. tally' = tally BY <1>12, <2>2 DEF onOpen
    <3>2. scene.at \notin {"game", "play"} \/ scene.poll = 0
      BY <1>1, <2>2 DEF Targeted
    <3> QED BY <1>5, <1>6, <2>1, <3>1, <3>2
  <2>3. CASE delegate.target \notin {"start", "none"}
    <3>1. tally' = [tally EXCEPT !.opens = @ + 1] BY <1>12, <2>3 DEF onOpen
    <3>2. /\ tally'.opens = tally.opens + 1
          /\ tally'.unpaid = tally.unpaid /\ tally'.strays = tally.strays
          /\ tally'.strangers = tally.strangers /\ tally'.items = tally.items
          /\ tally'.itemsPaid = tally.itemsPaid
          /\ tally'.refused = tally.refused /\ tally'.owed = tally.owed
      BY <1>1, <3>1 DEF Tallies
    <3>3. \A s \in Girls : tally'.owed[s] <= tally.owed[s] BY <1>3, <3>2
    <3> QED BY <1>1, <1>2, <1>3, <3>2, <3>3, CoveredMore
  <2> QED BY <2>2, <2>3
<1>13. CASE onClose
  <2>1. /\ scene' = scene /\ down' = <<>> /\ gotostart' = TRUE /\ tally' = tally
        /\ delegate' = Freed(delegate)
    BY <1>13 DEF onClose, GiveUp, Freed
  <2>2. delegate'.flag = delegate.flag BY <1>1, <2>1, DelegateFields
  <2>3. ~Ticket' BY <2>1 DEF Ticket
  <2>4. ItemTicket' => ItemTicket BY <2>1, <2>2 DEF ItemTicket
  <2> QED BY <1>5, <2>1, <2>3, <2>4
<1>14. CASE onMessage
  <2>1. CASE Dropped
    <3>1. /\ UNCHANGED <<delegate, scene, gotostart, tally>>
          /\ down # <<>> /\ down' = Tail(down)
      BY <2>1 DEF Dropped
    <3>2. \A i \in 1..Len(down') : i + 1 \in 1..Len(down) /\ down'[i] = down[i + 1]
      BY <1>1, <3>1, TailAt
    <3>3. Ticket' => Ticket BY <3>1, <3>2 DEF Ticket, Entering, Newest
    <3>4. ItemTicket' => ItemTicket BY <3>1, <3>2 DEF ItemTicket, Newest
    <3> QED BY <1>5, <3>1, <3>3, <3>4
  <2>2. CASE \E r : Taken(r)
    <3>1. PICK r : Taken(r) BY <2>2
    <3>2. /\ Ticket' => Ticket /\ scene'.want = scene.want
          /\ ItemTicket' => ItemTicket \/ (delegate.target = "play" /\ r.err # kErrNone)
      BY <3>1, TicketRead
    <3>3. PICK n \in {0, 1} :
            /\ tally' = [tally EXCEPT !.err = r.err, !.refused = @ + n]
            /\ delegate.target = "play" /\ r.err # kErrNone => n = 1
      BY <3>1 DEF Taken
    <3>4. /\ tally'.refused = tally.refused + n
          /\ tally'.unpaid = tally.unpaid /\ tally'.strays = tally.strays
          /\ tally'.strangers = tally.strangers /\ tally'.items = tally.items
          /\ tally'.itemsPaid = tally.itemsPaid
          /\ tally'.opens = tally.opens /\ tally'.owed = tally.owed
      BY <1>1, <3>3 DEF Tallies
    <3>5. \A s \in Girls : tally'.owed[s] <= tally.owed[s] BY <1>3, <3>4
    <3>6. CASE ItemTicket' => ItemTicket
      <4> HIDE DEF Ticket, ItemTicket
      <4>1. tally.refused <= tally'.refused BY <1>3, <3>3, <3>4
      <4> QED BY <1>1, <1>2, <1>3, <3>2, <3>4, <3>5, <3>6, <4>1, CoveredStill
    <3>7. CASE n = 1
      <4>1. /\ One(Ticket)' <= One(Ticket)
            /\ \A s \in Girls :
                 One(Ticket /\ scene.want = s)' <= One(Ticket /\ scene.want = s)
        BY <3>2 DEF One
      <4>2. /\ One(Ticket) \in {0, 1} /\ One(ItemTicket) \in {0, 1}
            /\ One(Ticket)' \in {0, 1} /\ One(ItemTicket)' \in {0, 1}
            /\ \A s \in Girls : One(Ticket /\ scene.want = s) \in {0, 1}
            /\ \A s \in Girls : One(Ticket /\ scene.want = s)' \in {0, 1}
        BY DEF One
      <4>3. \A s \in Girls : tally'.owed[s] + One(Ticket /\ scene.want = s)'
                               <= tally'.strays + tally'.strangers + tally'.opens
        BY <1>3, <1>4, <3>4, <4>1, <4>2
      <4>4. tally'.unpaid + One(Ticket)' <= tally'.strangers + tally'.opens
        BY <1>3, <1>4, <3>4, <4>1, <4>2
      <4>5. tally'.items + One(ItemTicket)'
              <= tally'.itemsPaid + tally'.strangers + tally'.refused + tally'.opens
        BY <1>3, <1>4, <3>4, <3>7, <4>2
      <4> QED BY <4>3, <4>4, <4>5 DEF Covered
    <3> QED BY <3>2, <3>3, <3>6, <3>7
  <2> QED BY <1>1, <1>14, <2>1, <2>2, MessageShape
<1>15. CASE ServeNext
  <2>1. PICK m, clean, r : Handled(m, clean, r) /\ Counted(clean, r)
    BY <1>1, <1>15, ServeShape
  <2> QED BY <2>1, CoveredServed
<1>16. CASE CAProductByNotify
  <2>1. Sold BY <1>1, <1>16, CreditShape
  <2>2. scene'.poll = 0 BY <2>1, NewSceneFacts DEF Sold, Scenes
  <2>3. ~Ticket' /\ ~ItemTicket' BY <1>6, <2>2
  <2>4. CASE tally' = tally BY <1>5, <2>3, <2>4
  <2>5. CASE tally' = [tally EXCEPT !.unheard = @ + 1]
    <3>1. /\ tally'.unpaid = tally.unpaid /\ tally'.strays = tally.strays
          /\ tally'.strangers = tally.strangers /\ tally'.opens = tally.opens
          /\ tally'.itemsPaid = tally.itemsPaid /\ tally'.items = tally.items
          /\ tally'.refused = tally.refused /\ tally'.owed = tally.owed
      BY <1>1, <2>5 DEF Tallies
    <3> HIDE DEF Ticket, ItemTicket
    <3>2. \A s \in Girls : tally'.owed[s] <= tally.owed[s] BY <1>3, <3>1
    <3> QED BY <1>1, <1>2, <1>3, <2>3, <3>1, <3>2, CoveredStill
  <2> QED BY <2>1, <2>4, <2>5 DEF Sold
<1>17. CASE Stops
  <2>1. /\ scene'.at = "off"
        /\ tally' = tally \/ tally' = [tally EXCEPT !.unfinished = @ + 1]
    BY <1>1, <1>17, NewSceneFacts, StopsShape
  <2>2. ~Ticket' /\ ~ItemTicket' BY <1>6, <2>1
  <2> QED BY <1>5, <1>20, <2>1, <2>2
<1>18. CASE Launch
  <2>1. scene'.at = "start" BY <1>18, FirstScene DEF Launch
  <2>2. tally' = tally BY <1>18 DEF Launch
  <2> QED BY <1>5, <1>6, <2>1, <2>2
<1>19. CASE UNCHANGED vars
  <2>1. UNCHANGED <<scene, delegate, gotostart, down, tally>>
    BY <1>19 DEF vars, net
  <2> QED BY <1>5, <2>1 DEF Ticket, ItemTicket, Entering, Newest
<1>21. CASE ServeOld
  <2>1. UNCHANGED <<scene, delegate, gotostart, down>> BY <1>21 DEF ServeOld, net
  <2>2. PICK o, m, clean : Drifts(o, m, clean) BY <1>1, <1>21, DriftShape
  <2>3. \E i, j : tally' = [tally EXCEPT !.overtaken = i, !.credited = j]
    BY <2>2 DEF Drifts
  <2>4. (Ticket' => Ticket) /\ (ItemTicket' => ItemTicket)
    BY <2>1 DEF Ticket, ItemTicket, Entering, Newest
  <2> QED BY <1>20, <2>1, <2>3, <2>4
<1> QED
  BY <1>1, <1>7, <1>8, <1>9, <1>10, <1>11, <1>12, <1>13, <1>14, <1>15, <1>16,
     <1>17, <1>18, <1>19, <1>21, NextCases DEF Network

LEMMA PaidHolds == Spec => [](Base /\ Paid)
<1>1. Init => Base /\ Paid BY BaseInit, PaidInit
<1>2. (Base /\ Paid) /\ [Next]_vars => (Base /\ Paid)'
  <2> SUFFICES ASSUME Base, AskedFor, Covered, [Next]_vars
               PROVE  Base' /\ AskedFor' /\ Covered'
    BY DEF Paid
  <2> QED BY BaseNext, AskedForNext, CoveredNext
<1> QED BY <1>1, <1>2, PTL DEF Spec

(* Nobody plays without having paid: every entry into a play scene has its   *)
(* charge, or one of the two things that let a player in without one: the    *)
(* empty reply that sends away a stranger, and a socket that opens late      *)
(* (game_scene.cpp:225-268, client.go:216-243).                              *)
THEOREM PlayIsPaidForAlways == Spec => []PlayIsPaidFor
<1>1. Base /\ Paid => PlayIsPaidFor
  <2> SUFFICES ASSUME Base, Covered PROVE PlayIsPaidFor BY DEF Paid
  <2>1. One(Ticket) \in {0, 1} BY DEF One
  <2>2. tally.unpaid + One(Ticket) <= tally.strangers + tally.opens BY DEF Covered
  <2> QED BY <2>1, <2>2, BaseFacts, TallyFacts DEF PlayIsPaidFor
<1> QED BY <1>1, PaidHolds, PTL

(* ... and it has been charged for that stage, unless another girl was       *)
(* tapped while the answer was under way (game_scene.cpp:225-231).           *)
THEOREM StageIsPaidForAlways == Spec => []StageIsPaidFor
<1>1. Base /\ Paid => StageIsPaidFor
  <2> SUFFICES ASSUME Base, Covered, NEW s \in Girls
               PROVE  tally.owed[s] <= tally.strays + tally.strangers + tally.opens
    BY DEF Paid, StageIsPaidFor
  <2>1. One(Ticket /\ scene.want = s) \in {0, 1} BY DEF One
  <2>2. tally.owed[s] + One(Ticket /\ scene.want = s)
          <= tally.strays + tally.strangers + tally.opens
    BY DEF Covered
  <2> QED BY <2>1, <2>2, BaseFacts, TallyFacts
<1> QED BY <1>1, PaidHolds, PTL

(* Fingers and replays that take effect are charged for, but for those that  *)
(* a refused request repeats (play_scene.cpp:78-118).                        *)
THEOREM ItemsArePaidForAlways == Spec => []ItemsArePaidFor
<1>1. Base /\ Paid => ItemsArePaidFor
  <2> SUFFICES ASSUME Base, Covered PROVE ItemsArePaidFor BY DEF Paid
  <2>1. One(ItemTicket) \in {0, 1} BY DEF One
  <2>2. tally.items + One(ItemTicket)
          <= tally.itemsPaid + tally.strangers + tally.refused + tally.opens
    BY DEF Covered
  <2>3. /\ tally.items \in Nat /\ tally.itemsPaid \in Nat /\ tally.strangers \in Nat
        /\ tally.refused \in Nat /\ tally.opens \in Nat
    BY BaseFacts, TallyFacts
  <2>4. tally.items <=
          tally.itemsPaid + tally.strangers + tally.refused + tally.opens
    BY <2>1, <2>2, <2>3
  <2> QED BY <2>4 DEF ItemsArePaidFor
<1> QED BY <1>1, PaidHolds, PTL

-----------------------------------------------------------------------------
(* The connections that were left.                                           *)
LEMMA LeftsInit ==
  ASSUME Init
  PROVE  Lefts
BY DEF Init, Lefts

LEMMA LeftsGivenUp ==
  ASSUME Types, Lefts, NEW q \in Seq(Sent), Rising(q), GiveUp(q),
         \/ attempts' = attempts + 1
         \/ attempts' = attempts /\ conn' = "closed"
  PROVE  Lefts'
<1>1. attempts \in Nat BY TypeFacts
<1>2. \A p \in old' : \/ p \in old
                      \/ conn = "open" /\ p = [no |-> attempts, sess |-> sess, up |-> q]
  BY DEF GiveUp
<1>3. \A p \in old : p.no \in Nat /\ p.no <= attempts
  BY <1>1, OldFacts
<1>4. \A p \in old' : Rising(p.up) BY <1>2 DEF Lefts
<1>5. \A p \in old' : conn' # "closed" => p.no < attempts'
  BY <1>1, <1>2, <1>3
<1>6. ASSUME NEW p \in old', NEW r \in old', p.no = r.no PROVE p = r
  <2>1. CASE p \in old /\ r \in old BY <1>6, <2>1 DEF Lefts
  <2>2. ASSUME conn = "open" PROVE \A z \in old : z.no # attempts
    BY <1>1, <1>3, <2>2 DEF Lefts
  <2> QED BY <1>2, <1>6, <2>1, <2>2
<1> QED BY <1>4, <1>5, <1>6 DEF Lefts

LEMMA LeftsDrift ==
  ASSUME Types, Lefts, NEW o, NEW m, NEW clean, Drifts(o, m, clean)
  PROVE  Lefts'
<1>1. /\ o \in old /\ conn' = conn /\ attempts' = attempts BY DEF Drifts, net
<1>2. o.up \in Seq(Sent) /\ o.up # <<>> /\ Len(o.up) \in Nat BY <1>1, OldFacts
<1>3. \A p \in old' : \/ p \in old /\ p # o
                      \/ p.no = o.no /\ p.up = Tail(o.up)
  <2>1. \A s : LET p == [o EXCEPT !.sess = s, !.up = Tail(@)]
               IN p.no = o.no /\ p.up = Tail(o.up)
    BY <1>1, OldFacts
  <2> QED BY <2>1 DEF Drifts
<1>4. Rising(Tail(o.up))
  <2>1. \A k \in 1..Len(Tail(o.up)) : k + 1 \in 1..Len(o.up)
                                      /\ Tail(o.up)[k] = o.up[k + 1]
    BY <1>2, TailAt
  <2> SUFFICES ASSUME NEW k \in 1..Len(Tail(o.up)), NEW l \in 1..Len(Tail(o.up)), k < l
               PROVE  Tail(o.up)[k].seq < Tail(o.up)[l].seq
    BY DEF Rising
  <2>2. k + 1 \in 1..Len(o.up) /\ l + 1 \in 1..Len(o.up) /\ k + 1 < l + 1 BY <2>1
  <2>3. Rising(o.up) BY <1>1 DEF Lefts
  <2>4. o.up[k + 1].seq < o.up[l + 1].seq BY <2>2, <2>3 DEF Rising
  <2> QED BY <2>1, <2>4
<1>5. \A p \in old' : Rising(p.up) BY <1>3, <1>4 DEF Lefts
<1>6. \A p \in old' : conn' # "closed" => p.no < attempts'
  BY <1>1, <1>3 DEF Lefts
<1>7. \A p, r \in old' : p.no = r.no => p = r
  <2>1. CASE old' = old \ {o} BY <2>1 DEF Lefts
  <2>2. ASSUME NEW s, old' = (old \ {o}) \cup {[o EXCEPT !.sess = s, !.up = Tail(@)]}
        PROVE  \A p, r \in old' : p.no = r.no => p = r
    <3> DEFINE z == [o EXCEPT !.sess = s, !.up = Tail(@)]
    <3>1. z.no = o.no BY <1>1, OldFacts
    <3>2. \A p \in old : p.no = o.no => p = o BY <1>1 DEF Lefts
    <3>3. old' = (old \ {o}) \cup {z} BY <2>2
    <3> HIDE DEF z
    <3> QED BY <3>1, <3>2, <3>3 DEF Lefts
  <2> QED BY <2>1, <2>2 DEF Drifts
<1> QED BY <1>5, <1>6, <1>7 DEF Lefts

(* What is under way to the server rises in number, and so it does with one  *)
(* request more.                                                             *)
LEMMA SentRises ==
  ASSUME Base, NEW c \in Commands, NEW f \in Bodies
  PROVE  Rising(up) /\ Rising(Append(up, Outgoing(c, f)))
<1>1. /\ up \in Seq(Sent) /\ Len(up) \in Nat /\ Types /\ Numbered
      /\ delegate.last \in Nat /\ delegate.seq = delegate.last + 1
  BY BaseFacts
<1>2. /\ \A i \in 1..Len(up) : up[i].seq <= delegate.last
      /\ \A i, j \in 1..Len(up) : i < j => up[i].seq < up[j].seq
  BY <1>1 DEF Numbered
<1>3. \A i \in 1..Len(up) : up[i].seq \in Nat
  <2>1. \A i \in 1..Len(up) : up[i] \in Sent BY <1>1
  <2> QED BY <2>1 DEF Sent
<1> DEFINE x == Outgoing(c, f)
           q == Append(up, x)
<1>4. x \in Sent /\ x.seq = delegate.seq BY <1>1, OutgoingSent
<1> HIDE DEF x
<1>5. /\ Len(q) = Len(up) + 1 /\ \A i \in 1..Len(up) : q[i] = up[i]
      /\ q[Len(up) + 1] = x
  BY <1>1, <1>4, AppendAt
<1> HIDE DEF q
<1>6. Rising(q)
  <2> SUFFICES ASSUME NEW i \in 1..Len(q), NEW j \in 1..Len(q), i < j
               PROVE  q[i].seq < q[j].seq
    BY DEF Rising
  <2>1. i \in 1..Len(up) /\ (j \in 1..Len(up) \/ j = Len(up) + 1) BY <1>1, <1>5
  <2>2. CASE j \in 1..Len(up) BY <1>2, <1>5, <2>1, <2>2
  <2>3. CASE j = Len(up) + 1
    <3>1. q[i].seq = up[i].seq /\ q[j].seq = delegate.last + 1
      BY <1>1, <1>4, <1>5, <2>1, <2>3
    <3>2. up[i].seq <= delegate.last /\ up[i].seq \in Nat BY <1>2, <1>3, <2>1
    <3> QED BY <1>1, <3>1, <3>2
  <2> QED BY <2>1, <2>2, <2>3
<1> QED BY <1>2, <1>6 DEF Rising, q, x

LEMMA LeftsNext ==
  ASSUME Base, Lefts, [Next]_vars
  PROVE  Lefts'
<1>1. Types /\ Targeted /\ StartLine /\ Accounts /\ Numbered /\ up \in Seq(Sent)
      /\ attempts \in Nat
  BY BaseFacts
<1>2. Rising(up) BY <1>1 DEF Numbered, Rising
<1>3. ASSUME old' = old, attempts' = attempts, conn' = "closed" \/ conn # "closed"
      PROVE  Lefts'
  BY <1>3 DEF Lefts
<1>4. CASE Restarts
  <2>1. GiveUp(up) /\ attempts' = attempts + 1 BY <1>4 DEF Restarts, Restart
  <2> QED BY <1>1, <1>2, <2>1, LeftsGivenUp
<1>5. CASE Asks
  <2>1. PICK s, c, f : AskFrom(s, c, f) BY <1>1, <1>5, AsksShape
  <2> QED BY <1>3, <2>1 DEF AskFrom, Rest, server
<1>6. CASE Leaves BY <1>1, <1>3, <1>6, LeavesShape DEF Left, server, net
<1>7. CASE Stays BY <1>1, <1>3, <1>7, StaysShape DEF Stayed, server
<1>8. CASE Sells BY <1>3, <1>8 DEF Sells, onBtnSale, ProductFailed, server, net
<1>9. CASE onOpen BY <1>3, <1>9 DEF onOpen, server
<1>10. CASE onClose
  <2>1. GiveUp(up) /\ attempts' = attempts /\ conn' = "closed" BY <1>10 DEF onClose
  <2> QED BY <1>1, <1>2, <2>1, LeftsGivenUp
<1>11. CASE onMessage BY <1>3, <1>11 DEF onMessage, server
<1>12. CASE ServeNext
  <2>1. PICK m, clean, r : Handled(m, clean, r) BY <1>1, <1>12, ServeShape
  <2>2. old' = old /\ attempts' = attempts /\ conn = "open" BY <2>1 DEF Handled
  <2> QED BY <1>3, <2>2
<1>13. CASE CAProductByNotify BY <1>1, <1>3, <1>13, CreditShape DEF Sold, server
<1>14. CASE Stops
  <2>1. PICK q : Stop(q) /\ q \in {up, Transmitted(kCmdIAPAddHeart,
                    Body([addheart |-> PurchaseHearts]), delegate)}
    BY <1>14 DEF Stops
  <2>2. GiveUp(q) /\ attempts' = attempts /\ conn' = "closed" BY <2>1 DEF Stop
  <2> DEFINE x == Outgoing(kCmdIAPAddHeart, Body([addheart |-> PurchaseHearts]))
  <2>3. Append(up, x) \in Seq(Sent) /\ Rising(Append(up, x))
    <3>1. kCmdIAPAddHeart \in Commands BY DEF kCmdIAPAddHeart, Commands
    <3> QED BY <1>1, <3>1, HeartBody, AppendSent, SentRises
  <2>4. q \in {up, Append(up, x)} BY <2>1 DEF Transmitted, Outgoing
  <2> HIDE DEF x
  <2>5. q \in Seq(Sent) /\ Rising(q) BY <1>1, <1>2, <2>3, <2>4
  <2> QED BY <1>1, <2>2, <2>5, LeftsGivenUp
<1>15. CASE Launch
  <2>1. old' = old /\ attempts' = attempts + 1 BY <1>15 DEF Launch, server
  <2>2. \A o \in old : o.no < attempts' BY <1>1, <2>1, OldFacts
  <2> QED BY <2>1, <2>2 DEF Lefts
<1>16. CASE ServeOld
  <2>1. PICK o, m, clean : Drifts(o, m, clean) BY <1>1, <1>16, DriftShape
  <2> QED BY <1>1, <2>1, LeftsDrift
<1>17. CASE UNCHANGED vars BY <1>17 DEF vars, server, net, Lefts
<1> QED
  BY <1>1, <1>4, <1>5, <1>6, <1>7, <1>8, <1>9, <1>10, <1>11, <1>12, <1>13, <1>14,
     <1>15, <1>16, <1>17, NextCases DEF Network

-----------------------------------------------------------------------------
(* The requests under way that announce a purchase.                          *)
LEMMA SaleIn ==
  ASSUME NEW n, NEW q, NEW k
  PROVE  k \in Sales(n, q) <=>
           \E i \in 1..Len(q) : q[i].cmd = kCmdIAPAddHeart /\ k = <<n, q[i].seq>>
BY DEF Sales

LEMMA SalesNone ==
  ASSUME NEW n
  PROVE  Sales(n, <<>>) = {}
<1>1. \A i \in 1..Len(<<>>) : FALSE OBVIOUS
<1> QED BY <1>1, SaleIn

LEMMA SalesAppend ==
  ASSUME NEW n, NEW q \in Seq(Sent), NEW x \in Sent
  PROVE  /\ Sales(n, Append(q, x)) \subseteq Sales(n, q) \cup {<<n, x.seq>>}
         /\ x.cmd # kCmdIAPAddHeart => Sales(n, Append(q, x)) \subseteq Sales(n, q)
<1>1. /\ Len(q) \in Nat /\ \A i \in 1..Len(q) : Append(q, x)[i] = q[i]
      /\ Append(q, x)[Len(q) + 1] = x
      /\ \A i \in 1..Len(Append(q, x)) : i \in 1..Len(q) \/ i = Len(q) + 1
  BY AppendAt
<1> SUFFICES ASSUME NEW k \in Sales(n, Append(q, x))
             PROVE  k \in Sales(n, q) \/ (x.cmd = kCmdIAPAddHeart /\ k = <<n, x.seq>>)
  OBVIOUS
<1>2. PICK i \in 1..Len(Append(q, x)) :
        /\ Append(q, x)[i].cmd = kCmdIAPAddHeart
        /\ k = <<n, Append(q, x)[i].seq>>
  BY DEF Sales
<1>3. CASE i \in 1..Len(q) BY <1>1, <1>2, <1>3, SaleIn
<1>4. CASE i = Len(q) + 1 BY <1>1, <1>2, <1>4
<1> QED BY <1>1, <1>3, <1>4

LEMMA SalesTail ==
  ASSUME NEW n, NEW q \in Seq(Sent), q # <<>>
  PROVE  /\ Sales(n, Tail(q)) \subseteq Sales(n, q)
         /\ q[1].cmd = kCmdIAPAddHeart => <<n, q[1].seq>> \in Sales(n, q)
         /\ Rising(q) => <<n, q[1].seq>> \notin Sales(n, Tail(q))
<1>1. /\ Len(q) \in Nat /\ 1 \in 1..Len(q)
      /\ \A i \in 1..Len(Tail(q)) : i + 1 \in 1..Len(q) /\ Tail(q)[i] = q[i + 1]
  BY TailAt
<1>2. Sales(n, Tail(q)) \subseteq Sales(n, q)
  <2> SUFFICES ASSUME NEW k \in Sales(n, Tail(q)) PROVE k \in Sales(n, q) OBVIOUS
  <2>1. PICK i \in 1..Len(Tail(q)) :
          Tail(q)[i].cmd = kCmdIAPAddHeart /\ k = <<n, Tail(q)[i].seq>>
    BY DEF Sales
  <2> QED BY <1>1, <2>1, SaleIn
<1>3. q[1].cmd = kCmdIAPAddHeart => <<n, q[1].seq>> \in Sales(n, q)
  BY <1>1, SaleIn
<1>4. ASSUME Rising(q), <<n, q[1].seq>> \in Sales(n, Tail(q)) PROVE FALSE
  <2>1. PICK i \in 1..Len(Tail(q)) : <<n, q[1].seq>> = <<n, Tail(q)[i].seq>>
    BY <1>4 DEF Sales
  <2>2. i + 1 \in 1..Len(q) /\ 1 < i + 1 /\ q[1].seq = q[i + 1].seq BY <1>1, <2>1
  <2>3. q[1].seq < q[i + 1].seq BY <1>1, <1>4, <2>2 DEF Rising
  <2>4. q[1].seq \in Nat
    <3>1. q[1] \in Sent BY <1>1
    <3> QED BY <3>1 DEF Sent
  <2> QED BY <2>2, <2>3, <2>4
<1> QED BY <1>2, <1>3, <1>4

LEMMA SaleNumber ==
  ASSUME NEW n, NEW q, NEW k \in Sales(n, q)
  PROVE  k[1] = n
BY SaleIn

LEMMA UnreadIn ==
  ASSUME NEW k
  PROVE  k \in Unread <=> k \in Sales(attempts, up) \/ \E o \in old : k \in Sales(o.no, o.up)
BY DEF Unread

LEMMA ExcessFacts ==
  ASSUME Base
  PROVE  /\ Excess \in Int /\ pending \in Nat
         /\ tally.credited \in Nat /\ tally.bought \in Int
         /\ tally.overtaken \in Nat /\ tally.unfinished \in Nat
<1>1. pending \in Nat /\ tally \in Tallies BY BaseFacts
<1>2. /\ tally.credited \in Nat /\ tally.bought \in Int
      /\ tally.overtaken \in Nat /\ tally.unfinished \in Nat
  BY <1>1, TallyFacts
<1> QED BY <1>1, <1>2 DEF Excess

LEMMA ExcessMoved ==
  ASSUME Base, NEW c \in Int, NEW p \in Int, NEW b \in Int, NEW v \in Int,
         tally'.credited = tally.credited + c, pending' = pending + p,
         tally'.bought = tally.bought + b, tally'.overtaken = tally.overtaken + v,
         tally'.unfinished = tally.unfinished
  PROVE  Excess' = Excess + (c + p) - (b + v)
<1>1. Excess' = (tally.credited + c) + (pending + p)
                 - ((tally.bought + b) + (tally.overtaken + v) + tally.unfinished)
  BY DEF Excess
<1>2. Excess = tally.credited + pending
                - (tally.bought + tally.overtaken + tally.unfinished)
  BY DEF Excess
<1>3. /\ pending \in Int /\ tally.credited \in Int /\ tally.bought \in Int
      /\ tally.overtaken \in Int /\ tally.unfinished \in Int /\ Excess \in Int
  BY ExcessFacts
<1> QED BY <1>1, <1>2, <1>3

LEMMA OneMore ==
  ASSUME NEW S, IsFiniteSet(S), NEW k, NEW T, T \subseteq S \cup {k}
  PROVE  /\ IsFiniteSet(T) /\ Cardinality(T) \in Nat
         /\ Cardinality(T) <= Cardinality(S) + 1
<1> DEFINE a == Cardinality(S \cup {k})
           b == Cardinality(T)
           c == Cardinality(S)
<1>1. IsFiniteSet(S \cup {k}) /\ (a = c \/ a = c + 1) BY FS_AddElement
<1>2. IsFiniteSet(T) /\ b <= a BY <1>1, FS_Subset
<1>3. b \in Nat /\ c \in Nat BY <1>2, FS_CardinalityType
<1> HIDE DEF a, b, c
<1>4. b <= c + 1 BY <1>1, <1>2, <1>3
<1> QED BY <1>2, <1>3, <1>4 DEF b, c

(* An announcement more wants an excess less, and one read allows one more.  *)
LEMMA PurchasesMove ==
  ASSUME Base, Base', Purchases, NEW k,
         \/ Unread' \subseteq Unread /\ Excess' <= Excess
         \/ Unread' \subseteq Unread \cup {k} /\ Excess' + 1 <= Excess
         \/ k \in Unread /\ Unread' \subseteq Unread \ {k} /\ Excess' <= Excess + 1
  PROVE  Purchases'
<1>1. Excess \in Int BY ExcessFacts
<1>2. Excess' \in Int
  <2>1. pending' \in Nat /\ tally' \in Tallies BY DEF Base, Types, TypeOK
  <2>2. /\ tally'.credited \in Nat /\ tally'.bought \in Int
        /\ tally'.overtaken \in Nat /\ tally'.unfinished \in Nat
    BY <2>1, TallyFacts
  <2> QED BY <2>1, <2>2 DEF Excess
<1> DEFINE S == Unread
           T == Unread'
<1>3. IsFiniteSet(S) /\ Excess + Cardinality(S) <= 0 BY DEF Purchases
<1>4. Cardinality(S) \in Nat BY <1>3, FS_CardinalityType
<1>5. \/ T \subseteq S /\ Excess' <= Excess
      \/ T \subseteq S \cup {k} /\ Excess' + 1 <= Excess
      \/ k \in S /\ T \subseteq S \ {k} /\ Excess' <= Excess + 1
  OBVIOUS
<1> HIDE DEF S, T
<1>6. IsFiniteSet(T) /\ Excess' + Cardinality(T) <= 0
  <2>1. CASE T \subseteq S /\ Excess' <= Excess
    <3>1. IsFiniteSet(T) /\ Cardinality(T) <= Cardinality(S)
      BY <1>3, <2>1, FS_Subset
    <3>2. Cardinality(T) \in Nat BY <3>1, FS_CardinalityType
    <3> QED BY <1>1, <1>2, <1>3, <1>4, <2>1, <3>1, <3>2
  <2>2. CASE T \subseteq S \cup {k} /\ Excess' + 1 <= Excess
    <3>1. /\ IsFiniteSet(T) /\ Cardinality(T) \in Nat
          /\ Cardinality(T) <= Cardinality(S) + 1
      BY <1>3, <2>2, OneMore
    <3> DEFINE b == Cardinality(T)
               c == Cardinality(S)
               e == Excess
               f == Excess'
    <3>2. /\ b \in Nat /\ b <= c + 1 /\ c \in Nat /\ e \in Int /\ f \in Int
          /\ e + c <= 0 /\ f + 1 <= e
      BY <1>1, <1>2, <1>3, <1>4, <2>2, <3>1
    <3> HIDE DEF b, c, e, f
    <3>3. f + b <= 0 BY <3>2
    <3> QED BY <3>1, <3>3 DEF b, f
  <2>3. CASE k \in S /\ T \subseteq S \ {k} /\ Excess' <= Excess + 1
    <3>1. IsFiniteSet(S \ {k}) /\ Cardinality(S \ {k}) = Cardinality(S) - 1
      BY <1>3, <2>3, FS_RemoveElement
    <3>2. IsFiniteSet(T) /\ Cardinality(T) <= Cardinality(S \ {k})
      BY <2>3, <3>1, FS_Subset
    <3>3. Cardinality(T) \in Nat BY <3>2, FS_CardinalityType
    <3> QED BY <1>1, <1>2, <1>3, <1>4, <2>3, <3>1, <3>2, <3>3
  <2> QED BY <1>5, <2>1, <2>2, <2>3
<1> QED BY <1>6 DEF Purchases, T

(* Nothing is sold, announced or credited.                                   *)
LEMMA PurchasesStill ==
  ASSUME Base, Base', Purchases, Unread' \subseteq Unread, pending' = pending,
         tally'.credited = tally.credited, tally'.bought = tally.bought,
         tally'.overtaken = tally.overtaken, tally'.unfinished = tally.unfinished
  PROVE  Purchases'
<1>1. Excess' = Excess BY DEF Excess
<1>2. Excess' <= Excess BY <1>1, ExcessFacts
<1> QED BY <1>2, PurchasesMove

LEMMA UnreadSame ==
  ASSUME up' = up, old' = old, attempts' = attempts
  PROVE  Unread' \subseteq Unread
BY DEF Unread

LEMMA UnreadSent ==
  ASSUME Base, NEW c \in Commands, NEW f \in Bodies, old' = old, attempts' = attempts,
         up' = IF conn = "open" THEN Append(up, Outgoing(c, f)) ELSE up
  PROVE  /\ Unread' \subseteq Unread \cup {<<attempts, delegate.seq>>}
         /\ c # kCmdIAPAddHeart => Unread' \subseteq Unread
<1> DEFINE x == Outgoing(c, f)
<1>1. x \in Sent /\ x.cmd = c /\ x.seq = delegate.seq /\ up \in Seq(Sent)
  BY BaseFacts, OutgoingSent
<1>2. up' = up \/ up' = Append(up, x) OBVIOUS
<1> HIDE DEF x
<1>3. /\ Sales(attempts, Append(up, x))
           \subseteq Sales(attempts, up) \cup {<<attempts, delegate.seq>>}
      /\ c # kCmdIAPAddHeart =>
           Sales(attempts, Append(up, x)) \subseteq Sales(attempts, up)
  BY <1>1, SalesAppend
<1>4. CASE up' = up BY <1>4, UnreadSame
<1>5. CASE up' = Append(up, x)
  <2>1. \A k : k \in Unread' <=> \/ k \in Sales(attempts, Append(up, x))
                                 \/ \E o \in old : k \in Sales(o.no, o.up)
    BY <1>5 DEF Unread
  <2> QED BY <1>3, <2>1, UnreadIn
<1> QED BY <1>2, <1>4, <1>5

LEMMA UnreadGivenUp ==
  ASSUME NEW q, GiveUp(q)
  PROVE  Unread' \subseteq Sales(attempts, q) \cup Unread
<1> SUFFICES ASSUME NEW k \in Unread' PROVE k \in Sales(attempts, q) \/ k \in Unread
  OBVIOUS
<1>1. k \in Sales(attempts', <<>>) \/ \E o \in old' : k \in Sales(o.no, o.up)
  BY DEF Unread, GiveUp
<1>2. PICK o \in old' : k \in Sales(o.no, o.up) BY <1>1, SalesNone
<1>3. o \in old \/ (o.no = attempts /\ o.up = q) BY DEF GiveUp
<1> QED BY <1>2, <1>3, UnreadIn

(* A sale that is read first is not unread any more.                         *)
LEMMA UnreadServed ==
  ASSUME Base, Lefts, up # <<>>, conn = "open", up' = Tail(up), old' = old,
         attempts' = attempts
  PROVE  LET k == <<attempts, up[1].seq>>
         IN /\ Unread' \subseteq Unread
            /\ up[1].cmd = kCmdIAPAddHeart => k \in Unread /\ Unread' \subseteq Unread \ {k}
<1> DEFINE k == <<attempts, up[1].seq>>
<1>1. up \in Seq(Sent) /\ attempts \in Nat /\ Types /\ Rising(up)
  BY BaseFacts DEF Numbered, Rising
<1>2. \A z : z \in Unread' <=> \/ z \in Sales(attempts, Tail(up))
                               \/ \E o \in old : z \in Sales(o.no, o.up)
  BY DEF Unread
<1>3. /\ Sales(attempts, Tail(up)) \subseteq Sales(attempts, up)
      /\ up[1].cmd = kCmdIAPAddHeart => k \in Sales(attempts, up)
      /\ k \notin Sales(attempts, Tail(up))
  BY <1>1, SalesTail
<1>4. \A o \in old : k \notin Sales(o.no, o.up)
  <2> SUFFICES ASSUME NEW o \in old, k \in Sales(o.no, o.up) PROVE FALSE OBVIOUS
  <2>1. o.no < attempts BY DEF Lefts
  <2>2. k[1] = o.no BY SaleNumber
  <2>3. k[1] = attempts OBVIOUS
  <2>4. o.no \in Nat BY <1>1, OldFacts
  <2> HIDE DEF k
  <2> QED BY <1>1, <2>1, <2>2, <2>3, <2>4
<1> HIDE DEF k
<1> QED BY <1>2, <1>3, <1>4, UnreadIn DEF k

LEMMA UnreadDrifted ==
  ASSUME Base, Lefts, NEW o, NEW m, NEW clean, Drifts(o, m, clean)
  PROVE  LET k == <<o.no, o.up[1].seq>>
         IN /\ Unread' \subseteq Unread
            /\ o.up[1].cmd = kCmdIAPAddHeart => k \in Unread /\ Unread' \subseteq Unread \ {k}
<1> DEFINE k == <<o.no, o.up[1].seq>>
<1>1. /\ Types /\ Numbered /\ attempts \in Nat BY BaseFacts
<1>2. /\ o \in old /\ up' = up /\ attempts' = attempts BY DEF Drifts, net
<1>3. o.up \in Seq(Sent) /\ o.up # <<>> /\ Rising(o.up) /\ o.no \in Nat
  BY <1>1, <1>2, OldFacts DEF Lefts
<1>4. \A p \in old' : \/ p \in old /\ p # o
                      \/ p.no = o.no /\ p.up = Tail(o.up)
  <2>1. \A s : LET p == [o EXCEPT !.sess = s, !.up = Tail(@)]
               IN p.no = o.no /\ p.up = Tail(o.up)
    BY <1>1, <1>2, OldFacts
  <2> QED BY <2>1 DEF Drifts
<1>5. \A z : z \in Unread' <=> \/ z \in Sales(attempts, up)
                               \/ \E p \in old' : z \in Sales(p.no, p.up)
  BY <1>2 DEF Unread
<1>6. /\ Sales(o.no, Tail(o.up)) \subseteq Sales(o.no, o.up)
      /\ o.up[1].cmd = kCmdIAPAddHeart => k \in Sales(o.no, o.up)
      /\ k \notin Sales(o.no, Tail(o.up))
  BY <1>3, SalesTail
<1>7. k[1] = o.no OBVIOUS
<1> HIDE DEF k
<1>8. k \notin Sales(attempts, up)
  <2> SUFFICES ASSUME k \in Sales(attempts, up) PROVE FALSE OBVIOUS
  <2>1. attempts = o.no BY <1>7, SaleNumber
  <2>2. conn = "closed" BY <1>2, <1>3, <2>1 DEF Lefts
  <2>3. up = <<>> BY <1>1, <2>2 DEF Numbered
  <2> QED BY <2>3, SalesNone
<1>9. \A p \in old : p # o => k \notin Sales(p.no, p.up)
  <2> SUFFICES ASSUME NEW p \in old, p # o, k \in Sales(p.no, p.up) PROVE FALSE
    OBVIOUS
  <2>1. k[1] = p.no BY SaleNumber
  <2> QED BY <1>2, <1>7, <2>1 DEF Lefts
<1>10. Unread' \subseteq Unread
  <2> SUFFICES ASSUME NEW z \in Unread' PROVE z \in Unread OBVIOUS
  <2>1. CASE z \in Sales(attempts, up) BY <2>1, UnreadIn
  <2>2. ASSUME NEW p \in old', z \in Sales(p.no, p.up) PROVE z \in Unread
    <3>1. CASE p \in old BY <2>2, <3>1, UnreadIn
    <3>2. CASE p.no = o.no /\ p.up = Tail(o.up)
      <4>1. z \in Sales(o.no, o.up) BY <1>6, <2>2, <3>2
      <4> QED BY <1>2, <4>1, UnreadIn
    <3> QED BY <1>4, <3>1, <3>2
  <2> QED BY <1>5, <2>1, <2>2
<1>11. k \notin Unread'
  <2> SUFFICES ASSUME NEW p \in old', k \in Sales(p.no, p.up) PROVE FALSE
    BY <1>5, <1>8
  <2>1. CASE p \in old /\ p # o BY <1>9, <2>1
  <2>2. CASE p.no = o.no /\ p.up = Tail(o.up) BY <1>6, <2>2
  <2> QED BY <1>4, <2>1, <2>2
<1>12. o.up[1].cmd = kCmdIAPAddHeart => k \in Unread BY <1>2, <1>6, UnreadIn
<1> QED BY <1>10, <1>11, <1>12 DEF k

LEMMA PurchasesInit ==
  ASSUME Init
  PROVE  Purchases
<1>1. /\ tally = [NoTally EXCEPT !.bought = pending] /\ up = <<>> /\ old = {}
      /\ pending \in Nat
  BY ClientAssumption DEF Init
<1>2. /\ tally.credited = 0 /\ tally.bought = pending /\ tally.overtaken = 0
      /\ tally.unfinished = 0
  BY <1>1 DEF NoTally
<1>3. Excess = 0 BY <1>1, <1>2 DEF Excess
<1>4. Unread = {} BY <1>1, SalesNone DEF Unread
<1> QED BY <1>3, <1>4, FS_EmptySet DEF Purchases

LEMMA PurchasesNext ==
  ASSUME Base, Lefts, Purchases, [Next]_vars
  PROVE  Purchases'
<1>1. /\ Types /\ Targeted /\ StartLine /\ Accounts
      /\ up \in Seq(Sent) /\ tally \in Tallies
      /\ Excess \in Int /\ pending \in Nat
      /\ tally.credited \in Nat /\ tally.bought \in Int
      /\ tally.overtaken \in Nat /\ tally.unfinished \in Nat
  BY BaseFacts, ExcessFacts
<1>2. Base' BY BaseNext
<1>3. ASSUME Unread' \subseteq Unread, tally' = tally, pending' = pending
      PROVE  Purchases'
  BY <1>2, <1>3, PurchasesStill
<1>4. ASSUME Unread' \subseteq Unread, pending' = pending,
             \/ tally' = [tally EXCEPT !.opens = @ + 1]
             \/ tally' = [tally EXCEPT !.items = @ + 1]
             \/ \E e, n : tally' = [tally EXCEPT !.err = e, !.refused = @ + n]
             \/ StageEntered
      PROVE  Purchases'
  <2>1. /\ tally'.credited = tally.credited /\ tally'.bought = tally.bought
        /\ tally'.overtaken = tally.overtaken /\ tally'.unfinished = tally.unfinished
    BY <1>1, <1>4 DEF Tallies, StageEntered
  <2> QED BY <1>2, <1>4, <2>1, PurchasesStill
<1>5. Unread = Unread \cup Sales(attempts, up) BY UnreadIn
<1>6. CASE Restarts
  <2>1. GiveUp(up) /\ tally' = tally /\ pending' = pending
    BY <1>6 DEF Restarts, Restart
  <2>2. Unread' \subseteq Unread BY <1>5, <2>1, UnreadGivenUp
  <2> QED BY <1>3, <2>1, <2>2
<1>7. CASE Asks
  <2>1. PICK s, c, f : AskFrom(s, c, f) /\ AskedAs(s, c, f) BY <1>1, <1>7, AsksShape
  <2>2. c # kCmdIAPAddHeart
    BY <2>1 DEF AskedAs, kCmdIAPAddHeart, kCmdUserLogin, kCmdStartPlay,
                kCmdEventLock, kCmdUseItem, kCmdEndPlay
  <2>3. /\ c \in Commands /\ f \in Bodies
        /\ up' = IF conn = "open" THEN Append(up, Outgoing(c, f)) ELSE up
        /\ old' = old /\ attempts' = attempts
        /\ tally' = tally /\ pending' = pending
    BY <2>1 DEF AskFrom, Rest, server
  <2>4. Unread' \subseteq Unread BY <2>2, <2>3, UnreadSent
  <2> QED BY <1>3, <2>3, <2>4
<1>8. CASE Leaves
  <2>1. Left BY <1>1, <1>8, LeavesShape
  <2>2. Unread' \subseteq Unread /\ pending' = pending
    BY <2>1, UnreadSame DEF Left, net, server
  <2>3. tally' = tally \/ StageEntered BY <2>1 DEF Left
  <2> QED BY <1>3, <1>4, <2>2, <2>3
<1>9. CASE Stays
  <2>1. Stayed BY <1>1, <1>9, StaysShape
  <2>2. Unread' \subseteq Unread /\ pending' = pending
    BY <2>1, UnreadSame DEF Stayed, server
  <2>3. tally' = tally \/ tally' = [tally EXCEPT !.items = @ + 1] BY <2>1 DEF Stayed
  <2> QED BY <1>3, <1>4, <2>2, <2>3
<1>10. CASE Sells
  <2>1. Unread' \subseteq Unread
    BY <1>10, UnreadSame DEF Sells, onBtnSale, ProductFailed, net, server
  <2>2. \E n \in {-1, 0, 1} : /\ pending' = pending + n
                              /\ tally' = [tally EXCEPT !.bought = tally.bought + n]
    <3>1. CASE onBtnSale
      <4>1. PICK n \in {0, 1} : /\ pending' = pending + n
                                /\ tally' = [tally EXCEPT !.bought = @ + n]
        BY <3>1 DEF onBtnSale
      <4> QED BY <4>1
    <3>2. CASE ProductFailed
      <4>1. pending' = pending - 1 /\ tally' = [tally EXCEPT !.bought = @ - 1]
        BY <3>2 DEF ProductFailed
      <4>2. pending - 1 = pending + (-1) /\ tally.bought - 1 = tally.bought + (-1)
        BY <1>1
      <4> QED BY <4>1, <4>2
    <3> QED BY <1>10, <3>1, <3>2 DEF Sells
  <2>3. PICK n \in {-1, 0, 1} : /\ pending' = pending + n
                                /\ tally' = [tally EXCEPT !.bought = tally.bought + n]
    BY <2>2
  <2>4. /\ tally'.credited = tally.credited /\ tally'.bought = tally.bought + n
        /\ tally'.overtaken = tally.overtaken /\ tally'.unfinished = tally.unfinished
    BY <1>1, <2>3 DEF Tallies
  <2>5. n \in Int /\ 0 \in Int /\ Excess \in Int BY ExcessFacts
  <2>6. tally'.credited = tally.credited + 0 /\ tally'.overtaken = tally.overtaken + 0
    BY <2>4, ExcessFacts
  <2>7. Excess' = Excess
    <3>1. pending' = pending + n BY <2>3
    <3>2. Excess' = Excess + (0 + n) - (n + 0)
      BY <1>1, <2>4, <2>5, <2>6, <3>1, ExcessMoved
    <3> QED BY <2>5, <3>2
  <2>8. Excess' <= Excess BY <2>5, <2>7
  <2> QED BY <1>2, <2>1, <2>8, PurchasesMove
<1>11. CASE onOpen
  <2>1. Unread' \subseteq Unread /\ pending' = pending
    BY <1>11, UnreadSame DEF onOpen, server
  <2> QED BY <1>3, <1>4, <1>11, <2>1 DEF onOpen
<1>12. CASE onClose
  <2>1. GiveUp(up) /\ tally' = tally /\ pending' = pending BY <1>12 DEF onClose
  <2>2. Unread' \subseteq Unread BY <1>5, <2>1, UnreadGivenUp
  <2> QED BY <1>3, <2>1, <2>2
<1>13. CASE onMessage
  <2>1. Unread' \subseteq Unread /\ pending' = pending
    BY <1>13, UnreadSame DEF onMessage, server
  <2>2. CASE Dropped BY <1>3, <2>1, <2>2 DEF Dropped
  <2>3. CASE \E r : Taken(r)
    <3>1. PICK r : Taken(r) BY <2>3
    <3>2. PICK n \in {0, 1} : tally' = [tally EXCEPT !.err = r.err, !.refused = @ + n]
      BY <3>1 DEF Taken
    <3>3. \E e, k : tally' = [tally EXCEPT !.err = e, !.refused = @ + k] BY <3>2
    <3> QED BY <1>4, <2>1, <3>3
  <2> QED BY <1>1, <1>13, <2>2, <2>3, MessageShape
<1>14. CASE ServeNext
  <2>1. PICK m, clean, r : Handled(m, clean, r) /\ Counted(clean, r)
    BY <1>1, <1>14, ServeShape
  <2>2. /\ up # <<>> /\ conn = "open" /\ up' = Tail(up) /\ old' = old
        /\ attempts' = attempts /\ pending' = pending /\ r.cmd = m.cmd
        /\ clean \in BOOLEAN /\ ReadAs(up, m, clean)
    BY <2>1 DEF Handled
  <2>3. /\ tally'.overtaken = tally.overtaken + One(~clean)
        /\ tally'.credited = tally.credited
             + One(sess.uid # 0 /\ r.cmd = kCmdIAPAddHeart)
        /\ tally'.bought = tally.bought /\ tally'.unfinished = tally.unfinished
    BY <2>1 DEF Counted
  <2>4. LET k == <<attempts, up[1].seq>>
        IN /\ Unread' \subseteq Unread
           /\ up[1].cmd = kCmdIAPAddHeart => k \in Unread /\ Unread' \subseteq Unread \ {k}
    BY <2>2, UnreadServed
  <2> DEFINE i == One(~clean)
             j == One(sess.uid # 0 /\ r.cmd = kCmdIAPAddHeart)
  <2>5. /\ i \in {0, 1} /\ j \in {0, 1} /\ (~clean => i = 1)
        /\ r.cmd # kCmdIAPAddHeart => j = 0
    BY <2>2 DEF One
  <2>6. tally'.overtaken = tally.overtaken + i /\ tally'.credited = tally.credited + j
    BY <2>3
  <2> HIDE DEF i, j
  <2>7. Excess' = Excess + (j + 0) - (0 + i)
    <3>1. i \in Int /\ j \in Int /\ 0 \in Int BY <2>5
    <3>2. pending' = pending + 0 /\ tally'.bought = tally.bought + 0
      BY <2>2, <2>3, ExcessFacts
    <3> QED BY <1>1, <2>3, <2>6, <3>1, <3>2, ExcessMoved
  <2>8. Excess \in Int BY ExcessFacts
  <2>9. CASE ~clean
    <3>1. Excess' <= Excess BY <2>5, <2>7, <2>8, <2>9
    <3> QED BY <1>2, <2>4, <3>1, PurchasesMove
  <2>10. CASE clean /\ up[1].cmd # kCmdIAPAddHeart
    <3>1. r.cmd # kCmdIAPAddHeart BY <2>2, <2>10 DEF ReadAs
    <3>2. Excess' <= Excess BY <2>5, <2>7, <2>8, <3>1
    <3> QED BY <1>2, <2>4, <3>2, PurchasesMove
  <2>11. CASE clean /\ up[1].cmd = kCmdIAPAddHeart
    <3>1. Excess' <= Excess + 1 BY <2>5, <2>7, <2>8
    <3> QED BY <1>2, <2>4, <2>11, <3>1, PurchasesMove
  <2> QED BY <2>2, <2>9, <2>10, <2>11
<1>15. CASE CAProductByNotify
  <2>1. Sold BY <1>1, <1>15, CreditShape
  <2> DEFINE f == Body([addheart |-> PurchaseHearts])
  <2>2. kCmdIAPAddHeart \in Commands /\ f \in Bodies
    BY HeartBody DEF kCmdIAPAddHeart, Commands
  <2>3. /\ up' = IF conn = "open" THEN Append(up, Outgoing(kCmdIAPAddHeart, f)) ELSE up
        /\ old' = old /\ attempts' = attempts /\ pending' = pending - 1
    BY <2>1 DEF Sold, server
  <2> HIDE DEF f
  <2>4. Unread' \subseteq Unread \cup {<<attempts, delegate.seq>>}
    BY <2>2, <2>3, UnreadSent
  <2>5. /\ tally'.credited = tally.credited /\ tally'.bought = tally.bought
        /\ tally'.overtaken = tally.overtaken /\ tally'.unfinished = tally.unfinished
    <3>1. CASE tally' = tally BY <3>1
    <3>2. CASE tally' = [tally EXCEPT !.unheard = @ + 1] BY <1>1, <3>2 DEF Tallies
    <3> QED BY <2>1, <3>1, <3>2 DEF Sold
  <2>6. Excess' + 1 <= Excess
    <3>1. /\ tally'.credited = tally.credited + 0 /\ pending' = pending + (-1)
          /\ tally'.bought = tally.bought + 0 /\ tally'.overtaken = tally.overtaken + 0
      BY <2>3, <2>5, ExcessFacts
    <3>2. Excess' = Excess + (0 + (-1)) - (0 + 0)
      BY <1>1, <2>5, <3>1, ExcessMoved
    <3> QED BY <3>2, ExcessFacts
  <2> QED BY <1>2, <2>4, <2>6, PurchasesMove
<1>16. CASE Stops
  <2>1. PICK q : /\ Stop(q) /\ q \in {up, Transmitted(kCmdIAPAddHeart,
                                   Body([addheart |-> PurchaseHearts]), delegate)}
                 /\ \/ q = up /\ tally' = tally
                    \/ tally' = [tally EXCEPT !.unfinished = @ + 1]
    BY <1>16 DEF Stops
  <2>2. GiveUp(q) /\ pending' = pending BY <2>1 DEF Stop
  <2>3. Unread' \subseteq Sales(attempts, q) \cup Unread BY <2>2, UnreadGivenUp
  <2>4. CASE q = up /\ tally' = tally
    <3>1. Unread' \subseteq Unread BY <1>5, <2>3, <2>4
    <3> QED BY <1>3, <2>2, <2>4, <3>1
  <2>5. CASE tally' = [tally EXCEPT !.unfinished = @ + 1]
    <3>1. /\ tally'.credited = tally.credited /\ tally'.bought = tally.bought
          /\ tally'.overtaken = tally.overtaken
          /\ tally'.unfinished = tally.unfinished + 1
      BY <1>1, <2>5 DEF Tallies
    <3>2. Excess' + 1 <= Excess
      <4>1. Excess' = tally.credited + pending
                        - (tally.bought + tally.overtaken + (tally.unfinished + 1))
        BY <2>2, <3>1 DEF Excess
      <4> QED BY <4>1, ExcessFacts DEF Excess
    <3>3. Sales(attempts, q) \subseteq Sales(attempts, up) \cup {<<attempts, delegate.seq>>}
      <4> DEFINE x == Outgoing(kCmdIAPAddHeart, Body([addheart |-> PurchaseHearts]))
      <4>1. x \in Sent /\ x.seq = delegate.seq
        <5>1. kCmdIAPAddHeart \in Commands BY DEF kCmdIAPAddHeart, Commands
        <5> QED BY <1>1, <5>1, HeartBody, OutgoingSent
      <4>2. q \in {up, Append(up, x)} BY <2>1 DEF Transmitted, Outgoing
      <4> HIDE DEF x
      <4>3. CASE q = up BY <4>3
      <4>4. CASE q = Append(up, x) BY <1>1, <4>1, <4>4, SalesAppend
      <4> QED BY <4>2, <4>3, <4>4
    <3>4. Unread' \subseteq Unread \cup {<<attempts, delegate.seq>>}
      BY <1>5, <2>3, <3>3
    <3> QED BY <1>2, <3>2, <3>4, PurchasesMove
  <2> QED BY <2>1, <2>4, <2>5
<1>17. CASE Launch
  <2>1. conn = "closed" BY <1>1, <1>17 DEF Launch, Targeted
  <2>2. up = <<>> BY <2>1, BaseFacts DEF Numbered
  <2>3. /\ up' = up /\ old' = old /\ tally' = tally /\ pending' = pending
    BY <1>17 DEF Launch, server
  <2>4. Unread' \subseteq Unread BY <2>2, <2>3, SalesNone DEF Unread
  <2> QED BY <1>3, <2>3, <2>4
<1>18. CASE ServeOld
  <2>1. PICK o, m, clean : Drifts(o, m, clean) BY <1>1, <1>18, DriftShape
  <2>2. /\ pending' = pending /\ clean \in BOOLEAN /\ ReadAs(o.up, m, clean)
        /\ tally' = [tally EXCEPT
             !.overtaken = @ + One(~clean),
             !.credited = @ + One(o.sess.uid # 0 /\ m.cmd = kCmdIAPAddHeart)]
    BY <2>1 DEF Drifts
  <2> DEFINE i == One(~clean)
             j == One(o.sess.uid # 0 /\ m.cmd = kCmdIAPAddHeart)
  <2>3. /\ i \in {0, 1} /\ j \in {0, 1} /\ (~clean => i = 1)
        /\ m.cmd # kCmdIAPAddHeart => j = 0
    BY <2>2 DEF One
  <2>4. tally' = [tally EXCEPT !.overtaken = @ + i, !.credited = @ + j] BY <2>2
  <2> HIDE DEF i, j
  <2>5. /\ tally'.overtaken = tally.overtaken + i
        /\ tally'.credited = tally.credited + j
        /\ tally'.bought = tally.bought /\ tally'.unfinished = tally.unfinished
    BY <1>1, <2>4 DEF Tallies
  <2>6. LET k == <<o.no, o.up[1].seq>>
        IN /\ Unread' \subseteq Unread
           /\ o.up[1].cmd = kCmdIAPAddHeart => k \in Unread /\ Unread' \subseteq Unread \ {k}
    BY <2>1, UnreadDrifted
  <2>7. Excess' = Excess + (j + 0) - (0 + i) /\ Excess \in Int /\ i \in Int /\ j \in Int
    <3>1. 0 \in Int /\ i \in Int /\ j \in Int BY <2>3
    <3>2. pending' = pending + 0 /\ tally'.bought = tally.bought + 0
      BY <2>2, <2>5, ExcessFacts
    <3> QED BY <1>1, <2>5, <3>1, <3>2, ExcessMoved, ExcessFacts
  <2>8. CASE ~clean
    <3>1. Excess' <= Excess BY <2>3, <2>7, <2>8
    <3> QED BY <1>2, <2>6, <3>1, PurchasesMove
  <2>9. CASE clean /\ o.up[1].cmd # kCmdIAPAddHeart
    <3>1. j = 0 BY <2>2, <2>3, <2>9 DEF ReadAs
    <3>2. Excess' <= Excess BY <2>3, <2>7, <3>1
    <3> QED BY <1>2, <2>6, <3>2, PurchasesMove
  <2>10. CASE clean /\ o.up[1].cmd = kCmdIAPAddHeart
    <3>1. Excess' <= Excess + 1 BY <2>3, <2>7
    <3> QED BY <1>2, <2>6, <2>10, <3>1, PurchasesMove
  <2> QED BY <2>2, <2>8, <2>9, <2>10
<1>19. CASE UNCHANGED vars
  <2>1. Unread' \subseteq Unread /\ tally' = tally /\ pending' = pending
    BY <1>19, UnreadSame DEF vars, net, server
  <2> QED BY <1>3, <2>1
<1> QED
  BY <1>1, <1>6, <1>7, <1>8, <1>9, <1>10, <1>11, <1>12, <1>13, <1>14, <1>15, <1>16,
     <1>17, <1>18, <1>19, NextCases DEF Network

(* A purchase is credited once at most, whenever its transaction completes,  *)
(* whatever is lost on the way and whatever the server still serves of the   *)
(* connections lost; unless the server reads one request over another, or    *)
(* the app dies between announcing it and finishing it (IAPHelper.m:130-135, *)
(* shop_scene.cpp:121-153, client.go:186-233).                               *)
THEOREM PurchaseCreditedOnceAlways == Spec => []PurchaseCreditedOnce
<1>1. Init => Base /\ Lefts /\ Purchases BY BaseInit, LeftsInit, PurchasesInit
<1>2. (Base /\ Lefts /\ Purchases) /\ [Next]_vars => (Base /\ Lefts /\ Purchases)'
  BY BaseNext, LeftsNext, PurchasesNext
<1>3. Base /\ Purchases => PurchaseCreditedOnce
  <2> SUFFICES ASSUME Base, Purchases PROVE PurchaseCreditedOnce OBVIOUS
  <2>1. IsFiniteSet(Unread) /\ Excess + Cardinality(Unread) <= 0 BY DEF Purchases
  <2>2. Cardinality(Unread) \in Nat BY <2>1, FS_CardinalityType
  <2>3. Excess <= 0 BY <2>1, <2>2, ExcessFacts
  <2> QED BY <2>3, ExcessFacts DEF Excess, PurchaseCreditedOnce
<1> QED BY <1>1, <1>2, <1>3, PTL DEF Spec

-----------------------------------------------------------------------------
(* The hearts shown are the hearts there are.                                *)
LEMMA LastOne ==
  ASSUME NEW S, NEW q \in Seq(S), q # <<>>, Tail(q) = <<>>
  PROVE  Len(q) = 1
<1>1. Len(Tail(q)) = Len(q) - 1 /\ Len(q) \in Nat \ {0} BY TailAt
<1>2. Len(<<>>) = 0 OBVIOUS
<1>3. Len(q) - 1 = 0 BY <1>1, <1>2
<1> QED BY <1>1, <1>3

LEMMA AgreedStill ==
  ASSUME Agreed, UNCHANGED <<conn, up, down, sess>>,
         delegate'.target = delegate.target, delegate'.flag = delegate.flag,
         delegate'.last = delegate.last,
         tally'.err = tally.err, user'.uid = user.uid, user'.heart = user.heart
  PROVE  Agreed'
<1> SUFFICES ASSUME conn' = "open" PROVE Agreed' BY DEF Agreed
<1>1. /\ down' # <<>> => sess'.uid # 0
      /\ \A i \in 1..Len(down') : ~down'[i].bare
  BY DEF Agreed
<1>2. ASSUME sess'.uid # 0, delegate'.target # "none", up' = <<>>, down' # <<>>
      PROVE  /\ down'[Len(down')].seq = delegate'.last
             /\ down'[Len(down')].doc = sess'.udb
  BY <1>2 DEF Agreed
<1>3. ASSUME sess'.uid # 0, delegate'.flag, up' = <<>>, down' = <<>>, tally'.err = kErrNone
      PROVE  user'.uid = sess'.uid /\ user'.heart = asInt(sess'.udb.heart)
  BY <1>3 DEF Agreed
<1> QED BY <1>1, <1>2, <1>3 DEF Agreed

LEMMA AgreedInit ==
  ASSUME Init
  PROVE  Agreed
BY DEF Init, Agreed, NoSession

LEMMA AgreedRead ==
  ASSUME Base, Agreed, NEW r, Taken(r), conn = "open", up = <<>>, down' = <<>>,
         sess.uid # 0, r.err = kErrNone
  PROVE  user'.uid = sess.uid /\ user'.heart = asInt(sess.udb.heart)
<1>1. /\ user \in UserStates /\ down \in Seq(Answered) /\ Len(down) \in Nat
      /\ StartLine /\ Accounts
  BY BaseFacts
<1>2. /\ down # <<>> /\ r = down[1] /\ r \in Answered /\ down' = Tail(down)
      /\ delegate.target \in {"start", "game", "play", "event"}
      /\ user' = Heard(user, delegate.target, r)
  BY DEF Taken
<1>3. Len(down) = 1 /\ 1 \in 1..Len(down)
  <2>1. Tail(down) = <<>> BY <1>2
  <2>2. Len(down) = 1 BY <1>1, <1>2, <2>1, LastOne
  <2> QED BY <2>2
<1>4. r.doc = sess.udb /\ ~r.bare BY <1>2, <1>3 DEF Agreed
<1>5. Heart(r) = asInt(sess.udb.heart) BY <1>4 DEF Heart
<1>6. user'.heart = Heart(r) BY <1>1, <1>2 DEF Heard, UserStates
<1>7. CASE delegate.target = "start"
  <2>1. r.cmd = kCmdUserLogin BY <1>1, <1>2, <1>3, <1>7 DEF StartLine
  <2>2. r.uid = sess.uid BY <1>1, <1>2, <1>3, <2>1 DEF Accounts, Own
  <2>3. user'.uid = IF user.uid = 0 THEN r.uid ELSE user.uid
    BY <1>2, <1>7 DEF Heard
  <2>4. user.uid # 0 => sess.uid = user.uid BY <1>1 DEF Accounts, Own
  <2> QED BY <1>5, <1>6, <2>2, <2>3, <2>4
<1>8. CASE delegate.target # "start"
  <2>1. user'.uid = user.uid BY <1>1, <1>2, <1>8 DEF Heard, UserStates
  <2>2. user.uid # 0 BY <1>1, <1>8 DEF Accounts, Own
  <2>3. sess.uid = user.uid BY <1>1, <2>2 DEF Accounts, Own
  <2> QED BY <1>5, <1>6, <2>1, <2>3
<1> QED BY <1>7, <1>8

LEMMA AgreedNext ==
  ASSUME Base, Agreed, [Next]_vars
  PROVE  Agreed'
<1>1. /\ Types /\ Numbered /\ Targeted /\ StartLine /\ Accounts
      /\ delegate \in DelegateStates /\ user \in UserStates /\ tally \in Tallies
      /\ up \in Seq(Sent) /\ down \in Seq(Answered)
      /\ Len(up) \in Nat /\ Len(down) \in Nat
  BY BaseFacts
<1>2. ASSUME conn' # "open" PROVE Agreed' BY <1>2 DEF Agreed
<1>3. ASSUME delegate'.flag = FALSE, UNCHANGED <<conn, down, sess>>,
             conn = "open" => up' # <<>>
      PROVE  Agreed'
  BY <1>3 DEF Agreed
<1>4. CASE Restarts BY <1>2, <1>4 DEF Restarts, Restart
<1>5. CASE Asks
  <2>1. PICK s, c, f : AskFrom(s, c, f) /\ AskedAs(s, c, f) BY <1>1, <1>5, AsksShape
  <2>2. delegate'.flag = FALSE BY <1>1, <2>1, SendingFields DEF AskFrom
  <2>3. UNCHANGED <<conn, down, sess>> BY <2>1 DEF AskFrom, Rest, server
  <2>4. conn = "open" => up' # <<>>
    <3>1. Outgoing(c, f) \in Sent BY <1>1, <2>1, OutgoingSent DEF AskFrom
    <3>2. Append(up, Outgoing(c, f)) # <<>> BY <1>1, <3>1, AppendAt
    <3> QED BY <2>1, <3>2 DEF AskFrom
  <2> QED BY <1>3, <2>2, <2>3, <2>4
<1>6. CASE Leaves
  <2>1. Left BY <1>1, <1>6, LeavesShape
  <2>2. /\ delegate'.target = delegate.target /\ delegate'.flag = delegate.flag
        /\ delegate'.last = delegate.last
    <3>1. delegate' = Leave(delegate) BY <2>1 DEF Left
    <3> QED BY <1>1, <3>1, DelegateFields
  <2>3. tally'.err = tally.err
    <3>1. CASE tally' = tally BY <3>1
    <3>2. CASE StageEntered BY <1>1, <3>2 DEF StageEntered, Tallies
    <3> QED BY <2>1, <3>1, <3>2 DEF Left
  <2>4. UNCHANGED <<conn, up, down, sess, user>> BY <2>1 DEF Left, net, server
  <2> QED BY <2>2, <2>3, <2>4, AgreedStill
<1>7. CASE Stays
  <2>1. Stayed BY <1>1, <1>7, StaysShape
  <2>2. /\ delegate'.target = delegate.target /\ delegate'.flag = delegate.flag
        /\ delegate'.last = delegate.last
    <3>1. CASE delegate' = delegate BY <3>1
    <3>2. CASE delegate' = Counting(delegate) BY <1>1, <3>2, DelegateFields
    <3> QED BY <2>1, <3>1, <3>2 DEF Stayed
  <2>3. tally'.err = tally.err
    <3>1. CASE tally' = tally BY <3>1
    <3>2. CASE tally' = [tally EXCEPT !.items = @ + 1] BY <1>1, <3>2 DEF Tallies
    <3> QED BY <2>1, <3>1, <3>2 DEF Stayed
  <2>4. user'.uid = user.uid /\ user'.heart = user.heart
    <3>1. CASE user' = user BY <3>1
    <3>2. CASE onBtnClothes BY <1>1, <3>2 DEF onBtnClothes, UserStates
    <3> QED BY <2>1, <3>1, <3>2 DEF Stayed
  <2>5. UNCHANGED <<conn, up, down, sess>> BY <2>1 DEF Stayed, server
  <2> QED BY <2>2, <2>3, <2>4, <2>5, AgreedStill
<1>8. CASE Sells
  <2>1. UNCHANGED <<delegate, user, conn, up, down, sess>>
    BY <1>8 DEF Sells, onBtnSale, ProductFailed, net, server
  <2>2. PICK n : tally' = [tally EXCEPT !.bought = n]
    BY <1>8 DEF Sells, onBtnSale, ProductFailed
  <2>3. tally'.err = tally.err BY <1>1, <2>2 DEF Tallies
  <2> QED BY <2>1, <2>3, AgreedStill
<1>9. CASE onOpen
  <2>1. down' = <<>> /\ sess' = NoSession BY <1>1, <1>9 DEF onOpen, server, Numbered
  <2>2. sess'.uid = 0 BY <2>1 DEF NoSession
  <2> QED BY <2>1, <2>2 DEF Agreed
<1>10. CASE onClose BY <1>2, <1>10 DEF onClose
<1>11. CASE onMessage
  <2>1. /\ down # <<>> /\ down' = Tail(down) /\ UNCHANGED <<conn, up, sess>>
    BY <1>11 DEF onMessage, server
  <2>2. CASE conn # "open" BY <1>2, <2>1, <2>2
  <2>3. CASE conn = "open"
    <3>1. sess.uid # 0 /\ \A i \in 1..Len(down) : ~down[i].bare
      BY <2>1, <2>3 DEF Agreed
    <3>2. /\ Len(down') = Len(down) - 1 /\ Len(down) \in Nat \ {0}
          /\ \A i \in 1..Len(down') : i + 1 \in 1..Len(down) /\ down'[i] = down[i + 1]
      BY <1>1, <2>1, TailAt
    <3>3. \A i \in 1..Len(down') : ~down'[i].bare BY <3>1, <3>2
    <3>4. delegate'.target = delegate.target /\ delegate'.last = delegate.last
      <4>1. CASE Dropped BY <4>1 DEF Dropped
      <4>2. CASE \E r : Taken(r)
        <5>1. delegate' = Flagged(delegate) BY <4>2 DEF Taken
        <5> QED BY <1>1, <5>1, DelegateFields
      <4> QED BY <1>1, <1>11, <4>1, <4>2, MessageShape
    <3>5. ASSUME delegate.target # "none", up = <<>>, down' # <<>>
          PROVE  /\ down'[Len(down')].seq = delegate.last
                 /\ down'[Len(down')].doc = sess.udb
      <4>1. Len(down') >= 1 /\ Len(down') \in Nat
        <5>1. down' \in Seq(Answered) BY <1>1, <2>1
        <5> QED BY <3>5, <5>1
      <4>2. Len(down') \in 1..Len(down') /\ Len(down') + 1 = Len(down) BY <3>2, <4>1
      <4>3. down'[Len(down')] = down[Len(down)] BY <3>2, <4>2
      <4> QED BY <2>1, <2>3, <3>1, <3>5, <4>3 DEF Agreed
    <3>6. ASSUME delegate'.flag, up = <<>>, down' = <<>>, tally'.err = kErrNone
          PROVE  user'.uid = sess.uid /\ user'.heart = asInt(sess.udb.heart)
      <4>1. CASE Dropped
        <5>1. delegate' = delegate /\ (down[1].seq # delegate.last \/ delegate.target = "none")
          BY <4>1 DEF Dropped
        <5>2. delegate.target # "none" BY <1>1, <3>6, <5>1 DEF Targeted
        <5>3. Len(down) = 1 BY <1>1, <2>1, <3>6, LastOne
        <5>4. down[1].seq = delegate.last
          BY <2>1, <2>3, <3>1, <3>6, <5>2, <5>3 DEF Agreed
        <5> QED BY <5>1, <5>2, <5>4
      <4>2. CASE \E r : Taken(r)
        <5>1. PICK r : Taken(r) BY <4>2
        <5>2. r.err = kErrNone
          <6>1. PICK n : tally' = [tally EXCEPT !.err = r.err, !.refused = @ + n]
            BY <5>1 DEF Taken
          <6>2. tally'.err = r.err BY <1>1, <6>1 DEF Tallies
          <6> QED BY <3>6, <6>2
        <5> QED BY <2>3, <3>1, <3>6, <5>1, <5>2, AgreedRead
      <4> QED BY <1>1, <1>11, <4>1, <4>2, MessageShape
    <3> QED BY <2>1, <3>1, <3>3, <3>4, <3>5, <3>6 DEF Agreed
  <2> QED BY <2>2, <2>3
<1>12. CASE ServeNext
  <2>1. PICK m, clean, r : Handled(m, clean, r) BY <1>1, <1>12, ServeShape
  <2>2. /\ conn = "open" /\ up # <<>> /\ up' = Tail(up) /\ down' = Append(down, r)
        /\ r \in Answered /\ r.seq = m.seq /\ delegate' = delegate
        /\ clean \in BOOLEAN /\ ReadAs(up, m, clean) /\ m \in Sent
        /\ ByUser(m, r) \/ ByStranger(m, r) \/ Failed(m, r)
    BY <2>1 DEF Handled, ReadAs
  <2>3. CASE ByStranger(m, r) \/ Failed(m, r)
    BY <1>2, <2>3 DEF ByStranger, Failed
  <2>4. CASE ByUser(m, r)
    <3>1. /\ sess.uid # 0 \/ m.cmd = kCmdUserLogin
          /\ sess' = Served(sess, m) /\ r.bare = FALSE /\ r.doc = Result(sess, m).udb
      BY <2>4 DEF ByUser
    <3>2. sess'.uid = Asker(sess, m) /\ sess'.udb = r.doc BY <3>1 DEF Served
    <3>3. sess'.uid # 0 /\ r.doc = sess'.udb BY <1>1, <2>2, <3>1, <3>2, OwnRequest
    <3>4. /\ Len(down') = Len(down) + 1 /\ down' # <<>>
          /\ \A i \in 1..Len(down) : down'[i] = down[i]
          /\ down'[Len(down) + 1] = r
          /\ \A i \in 1..Len(down') : i \in 1..Len(down) \/ i = Len(down) + 1
      BY <1>1, <2>2, AppendAt
    <3>5. \A i \in 1..Len(down') : ~down'[i].bare
      <4>1. \A i \in 1..Len(down) : ~down[i].bare BY <2>2 DEF Agreed
      <4> QED BY <3>1, <3>4, <4>1
    <3>6. up' = <<>> => r.seq = delegate.last
      <4> HAVE up' = <<>>
      <4>1. Len(up) = 1 BY <1>1, <2>2, LastOne
      <4>2. m = up[1] BY <2>2, <4>1 DEF ReadAs
      <4>3. up[Len(up)].seq = delegate.last BY <1>1, <2>2 DEF Numbered
      <4> QED BY <2>2, <4>1, <4>2, <4>3
    <3>7. down'[Len(down')] = r BY <3>4
    <3> QED BY <2>2, <3>3, <3>4, <3>5, <3>6, <3>7 DEF Agreed
  <2> QED BY <2>2, <2>3, <2>4
<1>13. CASE CAProductByNotify
  <2>1. Sold BY <1>1, <1>13, CreditShape
  <2> DEFINE x == Outgoing(kCmdIAPAddHeart, Body([addheart |-> PurchaseHearts]))
  <2>2. delegate'.flag = FALSE
    <3>1. delegate' = Sending(delegate, "none", FALSE) BY <2>1 DEF Sold
    <3> QED BY <1>1, <3>1, SendingFields
  <2>3. UNCHANGED <<conn, down, sess>> BY <2>1 DEF Sold, server
  <2>4. x \in Sent
    <3>1. kCmdIAPAddHeart \in Commands BY DEF kCmdIAPAddHeart, Commands
    <3> QED BY <1>1, <3>1, HeartBody, OutgoingSent
  <2>5. conn = "open" => up' = Append(up, x) BY <2>1 DEF Sold
  <2> HIDE DEF x
  <2>6. conn = "open" => up' # <<>> BY <1>1, <2>4, <2>5, AppendAt
  <2> QED BY <1>3, <2>2, <2>3, <2>6
<1>14. CASE Stops
  <2>1. conn' = "closed" BY <1>1, <1>14, StopsShape
  <2> QED BY <1>2, <2>1
<1>15. CASE Launch BY <1>2, <1>15 DEF Launch
<1>16. CASE UNCHANGED vars
  <2>1. UNCHANGED <<conn, up, down, sess, delegate, tally, user>>
    BY <1>16 DEF vars, net, server
  <2> QED BY <2>1, AgreedStill
<1>17. CASE ServeOld
  <2>1. PICK o, m, clean : Drifts(o, m, clean) BY <1>1, <1>17, DriftShape
  <2>2. UNCHANGED <<conn, up, down, sess, delegate, user>> BY <2>1 DEF Drifts, net
  <2> DEFINE i == tally.overtaken + One(~clean)
             j == tally.credited + One(o.sess.uid # 0 /\ m.cmd = kCmdIAPAddHeart)
  <2>3. tally' = [tally EXCEPT !.overtaken = i, !.credited = j] BY <2>1 DEF Drifts
  <2> HIDE DEF i, j
  <2>4. tally'.err = tally.err BY <1>1, <2>3 DEF Tallies
  <2> QED BY <2>2, <2>4, AgreedStill
<1> QED
  BY <1>1, <1>4, <1>5, <1>6, <1>7, <1>8, <1>9, <1>10, <1>11, <1>12, <1>13, <1>14,
     <1>15, <1>16, <1>17, NextCases DEF Network

(* When the newest request has been answered well and nothing is under way,  *)
(* the client shows the hearts the server has, and they are this player's    *)
(* (start_scene.cpp:58-97).                                                  *)
THEOREM HeartsAgreeAlways == Spec => []HeartsAgree
<1>1. Init => Base /\ Agreed BY BaseInit, AgreedInit
<1>2. (Base /\ Agreed) /\ [Next]_vars => (Base /\ Agreed)'
  BY BaseNext, AgreedNext
<1>3. Base /\ Agreed => HeartsAgree BY DEF Agreed, HeartsAgree, Quiet
<1> QED BY <1>1, <1>2, <1>3, PTL DEF Spec

-----------------------------------------------------------------------------
(* The stages the client counts as passed.                                   *)
LEMMA ReachGrows ==
  ASSUME NEW n \in Nat, NEW q, NEW top \in Nat, NEW q2, NEW top2 \in Nat,
         top <= top2, WillReach(n, q, top),
         \A i \in 1..Len(q) : \/ \E j \in 1..Len(q2) : q2[j] = q[i]
                              \/ Passes(q[i], n, top) => n <= top2
  PROVE  WillReach(n, q2, top2)
<1>1. CASE n <= top BY <1>1 DEF WillReach
<1>2. CASE \E i \in 1..Len(q) : Passes(q[i], n, top)
  <2>1. PICK i \in 1..Len(q) : Passes(q[i], n, top) BY <1>2
  <2>2. CASE n <= top2 BY <2>2 DEF WillReach
  <2>3. CASE \E j \in 1..Len(q2) : q2[j] = q[i]
    <3>1. PICK j \in 1..Len(q2) : q2[j] = q[i] BY <2>3
    <3>2. Passes(q2[j], n, top2) BY <2>1, <3>1 DEF Passes
    <3> QED BY <3>2 DEF WillReach
  <2> QED BY <2>1, <2>2, <2>3
<1> QED BY <1>1, <1>2 DEF WillReach

LEMMA Unexcused ==
  ASSUME NEW t \in Tallies,
         ~(t.overtaken + t.strays + t.strangers + t.opens + t.unheard > 0)
  PROVE  /\ t.overtaken = 0 /\ t.strays = 0 /\ t.strangers = 0
         /\ t.opens = 0 /\ t.unheard = 0
<1>1. /\ t.overtaken \in Nat /\ t.strays \in Nat /\ t.strangers \in Nat
      /\ t.opens \in Nat /\ t.unheard \in Nat
  BY TallyFacts
<1> DEFINE a == t.overtaken
           b == t.strays
           c == t.strangers
           d == t.opens
           e == t.unheard
<1>2. a \in Nat /\ b \in Nat /\ c \in Nat /\ d \in Nat /\ e \in Nat BY <1>1
<1>3. ~(a + b + c + d + e > 0) OBVIOUS
<1> HIDE DEF a, b, c, d, e
<1>4. a + b + c + d + e <= 0 BY <1>2, <1>3
<1>5. a = 0 /\ b = 0 /\ c = 0 /\ d = 0 /\ e = 0 BY <1>2, <1>4
<1> QED BY <1>5 DEF a, b, c, d, e

(* An excuse is never taken back.                                            *)
LEMMA ExcusesKept ==
  ASSUME Base, [Next]_vars
  PROVE  /\ tally.overtaken <= tally'.overtaken /\ tally.strays <= tally'.strays
         /\ tally.strangers <= tally'.strangers /\ tally.opens <= tally'.opens
         /\ tally.unheard <= tally'.unheard
<1>1. /\ Types /\ Targeted /\ StartLine /\ Accounts /\ tally \in Tallies
      /\ tally.overtaken \in Nat /\ tally.strays \in Nat /\ tally.strangers \in Nat
      /\ tally.opens \in Nat /\ tally.unheard \in Nat
  BY BaseFacts, TallyFacts
<1>2. CASE tally' = tally BY <1>1, <1>2
<1>3. CASE Leaves
  <2>1. Left BY <1>1, <1>3, LeavesShape
  <2>2. CASE StageEntered
    <3> DEFINE n == IF scene.stage = scene.want THEN 0 ELSE 1
    <3>1. tally' = [tally EXCEPT !.unpaid = @ + 1, !.owed[scene.stage] = @ + 1,
                      !.strays = @ + n]
      BY <2>2 DEF StageEntered
    <3>2. n \in Nat OBVIOUS
    <3> HIDE DEF n
    <3>3. /\ tally'.strays = tally.strays + n /\ tally'.overtaken = tally.overtaken
          /\ tally'.strangers = tally.strangers /\ tally'.opens = tally.opens
          /\ tally'.unheard = tally.unheard
      BY <1>1, <3>1 DEF Tallies
    <3> QED BY <1>1, <3>2, <3>3
  <2> QED BY <1>2, <2>1, <2>2 DEF Left
<1>4. CASE Stays
  <2>1. Stayed BY <1>1, <1>4, StaysShape
  <2>2. CASE tally' = [tally EXCEPT !.items = @ + 1] BY <1>1, <2>2 DEF Tallies
  <2> QED BY <1>2, <2>1, <2>2 DEF Stayed
<1>5. CASE Sells
  <2>1. PICK n : tally' = [tally EXCEPT !.bought = n]
    BY <1>5 DEF Sells, onBtnSale, ProductFailed
  <2> QED BY <1>1, <2>1 DEF Tallies
<1>6. CASE onOpen
  <2>1. CASE tally' = [tally EXCEPT !.opens = @ + 1] BY <1>1, <2>1 DEF Tallies
  <2> QED BY <1>2, <1>6, <2>1 DEF onOpen
<1>7. CASE onMessage
  <2>1. CASE Dropped BY <1>2, <2>1 DEF Dropped
  <2>2. CASE \E r : Taken(r)
    <3>1. PICK r : Taken(r) BY <2>2
    <3>2. PICK n : tally' = [tally EXCEPT !.err = r.err, !.refused = @ + n]
      BY <3>1 DEF Taken
    <3> QED BY <1>1, <3>2 DEF Tallies
  <2> QED BY <1>1, <1>7, <2>1, <2>2, MessageShape
<1>8. CASE ServeNext
  <2>1. PICK m, clean, r : Counted(clean, r) BY <1>1, <1>8, ServeShape
  <2>2. /\ One(~clean) \in {0, 1} /\ One(r.bare /\ r.err = kErrNone) \in {0, 1}
    BY DEF One
  <2>3. /\ tally'.overtaken = tally.overtaken + One(~clean)
        /\ tally'.strangers = tally.strangers + One(r.bare /\ r.err = kErrNone)
        /\ tally'.strays = tally.strays /\ tally'.opens = tally.opens
        /\ tally'.unheard = tally.unheard
    BY <2>1 DEF Counted
  <2> QED BY <1>1, <2>2, <2>3
<1>9. CASE CAProductByNotify
  <2>1. Sold BY <1>1, <1>9, CreditShape
  <2>2. CASE tally' = [tally EXCEPT !.unheard = @ + 1] BY <1>1, <2>2 DEF Tallies
  <2> QED BY <1>2, <2>1, <2>2 DEF Sold
<1>10. CASE Asks
  <2>1. PICK s, c, f : AskFrom(s, c, f) BY <1>1, <1>10, AsksShape
  <2> QED BY <1>2, <2>1 DEF AskFrom
<1>11. CASE Restarts \/ onClose \/ Launch \/ UNCHANGED vars
  BY <1>2, <1>11 DEF Restarts, onClose, Launch, vars
<1>12. CASE Stops
  <2>1. tally' \in {tally, [tally EXCEPT !.unfinished = @ + 1]}
    BY <1>1, <1>12, StopsShape
  <2>2. CASE tally' = [tally EXCEPT !.unfinished = @ + 1] BY <1>1, <2>2 DEF Tallies
  <2> QED BY <1>2, <2>1, <2>2
<1>13. CASE ServeOld
  <2>1. PICK o, m, clean : Drifts(o, m, clean) BY <1>1, <1>13, DriftShape
  <2> DEFINE i == One(~clean)
             j == tally.credited + One(o.sess.uid # 0 /\ m.cmd = kCmdIAPAddHeart)
  <2>2. i \in {0, 1} BY DEF One
  <2>3. tally' = [tally EXCEPT !.overtaken = tally.overtaken + i, !.credited = j]
    BY <2>1 DEF Drifts
  <2> HIDE DEF i, j
  <2>4. /\ tally'.overtaken = tally.overtaken + i /\ tally'.strays = tally.strays
        /\ tally'.strangers = tally.strangers /\ tally'.opens = tally.opens
        /\ tally'.unheard = tally.unheard
    BY <1>1, <2>3 DEF Tallies
  <2> QED BY <1>1, <2>2, <2>4
<1> QED
  BY <1>12, <1>13, <1>3, <1>4, <1>5, <1>6, <1>7, <1>8, <1>9, <1>10, <1>11, NextCases DEF Network

LEMMA ReachedStill ==
  ASSUME Reached, UNCHANGED <<conn, up, sess>>, LoginHeard' => LoginHeard,
         \/ user'.stage = user.stage
         \/ scene.at = "play" /\ scene.won = 1 /\ user'.stage = scene.stage + 1,
         scene'.at = "play" =>
           /\ scene.at = "play" /\ scene'.stage = scene.stage
           /\ scene'.won = 1 => scene.won = 1,
         Entering' /\ delegate'.flag /\ ~gotostart' =>
           Entering /\ delegate.flag /\ ~gotostart /\ scene'.want = scene.want
  PROVE  Reached'
<1> SUFFICES ASSUME conn' = "open", LoginHeard' PROVE Reached' BY DEF Reached
<1>1. /\ sess.uid # 0
      /\ WillReach(user.stage, up, sess.udb.stage)
      /\ scene.at = "play" => scene.stage <= sess.udb.stage
      /\ scene.at = "play" /\ scene.won = 1 =>
           WillReach(scene.stage + 1, up, sess.udb.stage)
      /\ Entering /\ delegate.flag /\ ~gotostart => scene.want <= sess.udb.stage
  BY DEF Reached
<1>2. sess' = sess /\ up' = up /\ sess'.udb = sess.udb OBVIOUS
<1>3. WillReach(user'.stage, up', sess'.udb.stage) BY <1>1, <1>2
<1>4. scene'.at = "play" => scene'.stage <= sess'.udb.stage BY <1>1, <1>2
<1>5. scene'.at = "play" /\ scene'.won = 1 =>
        WillReach(scene'.stage + 1, up', sess'.udb.stage)
  BY <1>1, <1>2
<1>6. Entering' /\ delegate'.flag /\ ~gotostart' => scene'.want <= sess'.udb.stage
  BY <1>1, <1>2
<1> QED BY <1>1, <1>2, <1>3, <1>4, <1>5, <1>6 DEF Reached, WillReach, Passes

LEMMA PassedInit ==
  ASSUME Init
  PROVE  Passed
<1>1. conn = "connecting" BY DEF Init
<1>2. scene.at = "start" BY FirstScene DEF Init
<1> QED BY <1>1, <1>2 DEF Passed, Opened, Reached, AnswersBehind

LEMMA SessionStage ==
  ASSUME Base, sess.uid # 0
  PROVE  sess.udb.stage \in Nat
BY BaseFacts DEF Ready, UserDb

(* What the server does to the stages it has and the client counts on.       *)
LEMMA PassedServed ==
  ASSUME Base, Agreed, Opened, Reached, AnswersBehind,
         NEW m, NEW clean, NEW r, clean = TRUE, Handled(m, clean, r), ByUser(m, r)
  PROVE  Opened' /\ Reached' /\ AnswersBehind'
<1>1. /\ Types /\ Accounts /\ up \in Seq(Sent) /\ down \in Seq(Answered)
      /\ sess \in Sessions /\ (sess.uid # 0 => sess.udb \in Ready)
      /\ user.stage \in Nat /\ scene.stage \in Nat
      /\ Len(up) \in Nat /\ Len(down) \in Nat
  BY BaseFacts, TypeFacts, StageNat
<1>2. /\ conn = "open" /\ up # <<>> /\ up' = Tail(up) /\ down' = Append(down, r)
      /\ r \in Answered /\ r.cmd = m.cmd /\ r.sid = m.body["stageid"]
      /\ UNCHANGED <<scene, delegate, user, gotostart>>
      /\ clean \in BOOLEAN /\ ReadAs(up, m, clean) /\ m \in Sent
  BY DEF Handled, ReadAs
<1>3. /\ sess.uid # 0 \/ m.cmd = kCmdUserLogin
      /\ sess' = Served(sess, m) /\ conn' = conn
      /\ r.err = Result(sess, m).err /\ r.doc = Result(sess, m).udb
  BY DEF ByUser
<1>4. m = up[1] BY <1>2 DEF ReadAs
<1>5. Result(sess, m).udb \in Ready /\ Asker(sess, m) # 0
  <2>1. m.uid \in 0..Len(docs)
    <3>1. \A i \in 1..Len(up) : up[i].uid \in 0..Len(docs)
      <4>1. Len(docs) \in Nat /\ user.uid \in 0..Len(docs) BY <1>1, BaseFacts DEF Accounts, Own
      <4> QED BY <1>1, <4>1 DEF Accounts, Own
    <3> QED BY <1>1, <1>2, <3>1, ReadUid
  <2> QED BY <1>1, <1>2, <1>3, <2>1, ResultType, OwnRequest
<1>6. /\ sess'.uid # 0 /\ sess'.udb = r.doc /\ r.doc \in Ready
      /\ sess'.udb.stage \in Nat
  BY <1>3, <1>5 DEF Served, Ready, UserDb
<1>7. Opened' BY <1>2, <1>3 DEF Opened
<1>8. /\ \A i \in 1..Len(down') : (i \in 1..Len(down) /\ down'[i] = down[i]) \/ down'[i] = r
      /\ \A i \in 1..Len(up) : (i - 1 \in 1..Len(up') /\ up'[i - 1] = up[i]) \/ i = 1
  <2>1. \A i \in 1..Len(down') : (i \in 1..Len(down) /\ down'[i] = down[i]) \/ down'[i] = r
    BY <1>1, <1>2, AppendAt
  <2>2. /\ Len(up') = Len(up) - 1
        /\ \A i \in 1..Len(up') : i + 1 \in 1..Len(up) /\ up'[i] = up[i + 1]
    BY <1>1, <1>2, TailAt
  <2>3. ASSUME NEW i \in 1..Len(up), i # 1
        PROVE  i - 1 \in 1..Len(up') /\ up'[i - 1] = up[i]
    <3>1. i - 1 \in 1..Len(up') /\ (i - 1) + 1 = i BY <1>1, <2>2, <2>3
    <3> QED BY <2>2, <3>1
  <2> QED BY <2>1, <2>3
<1>9. CASE sess.uid = 0
  <2>1. ~LoginHeard BY <1>2, <1>9 DEF Reached
  <2>2. ~LoginHeard' BY <1>2, <2>1 DEF LoginHeard
  <2>3. Reached' BY <2>2 DEF Reached
  <2>4. down = <<>> BY <1>2, <1>9 DEF Agreed
  <2>5. r.cmd # kCmdStartPlay BY <1>2, <1>3, <1>9 DEF kCmdUserLogin, kCmdStartPlay
  <2>6. \A i \in 1..Len(down') : down'[i] = r BY <1>1, <1>8, <2>4
  <2>7. AnswersBehind' BY <1>6, <2>5, <2>6 DEF AnswersBehind
  <2> QED BY <1>7, <2>3, <2>7
<1>10. CASE sess.uid # 0
  <2>1. /\ sess.udb \in Ready /\ sess.udb.stage \in Nat
    <3>1. sess.udb \in Ready BY <1>1, <1>10
    <3> QED BY <3>1 DEF Ready, UserDb
  <2>2. r.doc = Serve(m.cmd, sess.udb, m.body).udb
        /\ r.err = Serve(m.cmd, sess.udb, m.body).err
    BY <1>3, <1>10 DEF Result
  <2>3. /\ sess.udb.stage <= r.doc.stage
        /\ m.cmd = kCmdEndPlay /\ m.body["pass"] = 1
           /\ m.body["stageid"] \in 1..sess.udb.stage
             => r.doc.stage >= m.body["stageid"] + 1
        /\ m.cmd = kCmdStartPlay /\ r.err = kErrNone
             => m.body["stageid"] \in 1..sess.udb.stage
    <3>1. m.cmd \in Commands /\ m.body \in Bodies BY <1>2 DEF Sent
    <3> QED BY <1>6, <2>1, <2>2, <3>1, ServeStage
  <2>4. sess.udb.stage <= sess'.udb.stage BY <1>6, <2>3
  <2>5. \A n \in Nat : WillReach(n, up, sess.udb.stage)
                         => WillReach(n, up', sess'.udb.stage)
    <3> TAKE n \in Nat
    <3> HAVE WillReach(n, up, sess.udb.stage)
    <3>1. ASSUME NEW i \in 1..Len(up)
          PROVE  \/ \E j \in 1..Len(up') : up'[j] = up[i]
                 \/ Passes(up[i], n, sess.udb.stage) => n <= sess'.udb.stage
      <4>1. CASE i # 1 BY <1>8, <3>1, <4>1
      <4>2. ASSUME i = 1, Passes(up[i], n, sess.udb.stage)
            PROVE  n <= sess'.udb.stage
        <5>1. /\ m.cmd = kCmdEndPlay /\ m.body["pass"] = 1
              /\ m.body["stageid"] \in 1..sess.udb.stage
              /\ n <= m.body["stageid"] + 1
          BY <1>4, <4>2 DEF Passes
        <5>2. sess'.udb.stage >= m.body["stageid"] + 1 BY <1>6, <2>3, <5>1
        <5>3. m.body["stageid"] \in Nat BY <2>1, <5>1
        <5> QED BY <1>6, <5>1, <5>2, <5>3
      <4> QED BY <4>1, <4>2
    <3> QED BY <1>6, <2>1, <2>4, <3>1, ReachGrows
  <2>6. Reached'
    <3> SUFFICES ASSUME LoginHeard' PROVE Reached' BY DEF Reached
    <3>1. LoginHeard BY <1>2 DEF LoginHeard
    <3>2. /\ WillReach(user.stage, up, sess.udb.stage)
          /\ scene.at = "play" => scene.stage <= sess.udb.stage
          /\ scene.at = "play" /\ scene.won = 1 =>
               WillReach(scene.stage + 1, up, sess.udb.stage)
          /\ Entering /\ delegate.flag /\ ~gotostart => scene.want <= sess.udb.stage
      BY <1>2, <3>1 DEF Reached
    <3>3. WillReach(user.stage, up', sess'.udb.stage) BY <1>1, <2>5, <3>2
    <3>4. scene.at = "play" => scene.stage <= sess'.udb.stage
      BY <1>1, <1>6, <2>1, <2>4, <3>2
    <3>5. scene.at = "play" /\ scene.won = 1 =>
            WillReach(scene.stage + 1, up', sess'.udb.stage)
      BY <1>1, <2>5, <3>2
    <3>6. ASSUME Entering, delegate.flag, ~gotostart
          PROVE  scene.want <= sess'.udb.stage
      <4>1. scene.want \in Nat
        <5>1. scene \in SceneStates BY BaseFacts
        <5> QED BY <5>1 DEF SceneStates
      <4> QED BY <1>6, <2>1, <2>4, <3>2, <3>6, <4>1
    <3> QED
      BY <1>2, <1>6, <3>3, <3>4, <3>5, <3>6 DEF Reached, Entering, WillReach, Passes
  <2>7. AnswersBehind'
    <3> SUFFICES ASSUME NEW i \in 1..Len(down')
                 PROVE  /\ down'[i].doc.stage <= sess'.udb.stage
                        /\ down'[i].cmd = kCmdStartPlay /\ down'[i].err = kErrNone =>
                             down'[i].sid \in 1..sess'.udb.stage
      BY DEF AnswersBehind
    <3>1. CASE down'[i] = r
      BY <1>2, <1>6, <2>1, <2>3, <2>4, <3>1
    <3>2. CASE i \in 1..Len(down) /\ down'[i] = down[i]
      <4>1. /\ down[i].doc.stage <= sess.udb.stage
            /\ down[i].cmd = kCmdStartPlay /\ down[i].err = kErrNone =>
                 down[i].sid \in 1..sess.udb.stage
        BY <1>2, <3>2 DEF AnswersBehind
      <4>2. down[i].doc.stage \in Nat
        <5>1. down[i] \in Answered BY <1>1, <3>2
        <5> QED BY <5>1 DEF Answered, UserDb
      <4> QED BY <1>6, <2>1, <2>4, <3>2, <4>1, <4>2
    <3> QED BY <1>8, <3>1, <3>2
  <2> QED BY <1>7, <2>6, <2>7
<1> QED BY <1>9, <1>10

(* An answer that is read tells of no stage the server does not have.        *)
LEMMA PassedRead ==
  ASSUME Base, AskedFor, Agreed, Opened, Reached, AnswersBehind, NEW r, Taken(r)
  PROVE  Opened' /\ Reached' /\ AnswersBehind'
<1>1. /\ Types /\ Targeted /\ StartLine /\ Accounts /\ scene \in SceneStates
      /\ user \in UserStates /\ delegate \in DelegateStates
      /\ down \in Seq(Answered) /\ gotostart \in BOOLEAN
  BY BaseFacts
<1>2. /\ down # <<>> /\ r = down[1] /\ r \in Answered /\ r.seq = delegate.last
      /\ delegate.target \in {"start", "game", "play", "event"}
      /\ delegate' = Flagged(delegate)
      /\ scene'.at = scene.at /\ scene'.stage = scene.stage
      /\ scene'.poll = scene.poll /\ scene'.want = scene.want
      /\ scene'.won = scene.won
      /\ delegate.here => scene' = Told(scene, r)
      /\ ~delegate.here => scene' = scene
      /\ user' = Heard(user, delegate.target, r)
      /\ gotostart' = (gotostart \/ (r.err # kErrNone /\ delegate.target \in {"game", "event"}))
      /\ down' = Tail(down) /\ UNCHANGED <<conn, up, sess>>
  BY DEF Taken, server
<1>3. /\ 1 \in 1..Len(down)
      /\ \A i \in 1..Len(down') : i + 1 \in 1..Len(down) /\ down'[i] = down[i + 1]
  BY <1>1, <1>2, TailAt
<1>4. Opened' BY <1>2 DEF Opened
<1>5. AnswersBehind' BY <1>2, <1>3 DEF AnswersBehind
<1>6. ASSUME conn = "open", LoginHeard'
      PROVE  Reached'
  <2>1. sess.uid # 0 /\ ~r.bare BY <1>2, <1>3, <1>6 DEF Agreed
  <2>2. sess.udb.stage \in Nat BY <2>1, SessionStage
  <2>3. /\ r.doc.stage <= sess.udb.stage
        /\ r.cmd = kCmdStartPlay /\ r.err = kErrNone => r.sid \in 1..sess.udb.stage
    BY <1>2, <1>3, <1>6 DEF AnswersBehind
  <2>4. user'.stage = user.stage \/ user'.stage = r.doc.stage
    BY <1>1, <1>2, <2>1 DEF Heard, UserStates, Stage
  <2>5. CASE LoginHeard
    <3>1. /\ WillReach(user.stage, up, sess.udb.stage)
          /\ scene.at = "play" => scene.stage <= sess.udb.stage
          /\ scene.at = "play" /\ scene.won = 1 =>
               WillReach(scene.stage + 1, up, sess.udb.stage)
      BY <1>6, <2>5 DEF Reached
    <3>2. WillReach(user'.stage, up', sess'.udb.stage)
      BY <1>2, <2>3, <2>4, <3>1 DEF WillReach
    <3>3. ASSUME Entering', ~gotostart'
          PROVE  scene'.want <= sess'.udb.stage
      <4>1. Entering /\ delegate.target = "game"
        <5>1. scene.at = "game" /\ scene.poll > 0 BY <1>2, <3>3 DEF Entering
        <5>2. delegate.target = "game" BY <1>1, <5>1 DEF Targeted
        <5> QED BY <5>1, <5>2 DEF Entering
      <4>2. r.err = kErrNone BY <1>2, <3>3, <4>1
      <4>3. r.cmd = kCmdStartPlay /\ r.sid = scene.want
        BY <1>2, <1>3, <4>1 DEF AskedFor
      <4> QED BY <1>2, <2>2, <2>3, <4>2, <4>3
    <3> QED BY <1>2, <2>1, <3>1, <3>2, <3>3 DEF Reached, WillReach, Passes
  <2>6. CASE ~LoginHeard
    <3>1. scene.at = "start" /\ scene'.login = 2 /\ scene.login # 2
      BY <1>2, <1>6, <2>6 DEF LoginHeard
    <3>2. delegate.target = "start" /\ scene' = Told(scene, r)
      BY <1>1, <1>2, <3>1 DEF Targeted
    <3>3. r.err = kErrNone
      <4>1. scene' = [scene EXCEPT !.login = IF r.err = kErrNone THEN 2 ELSE 3]
        BY <3>1, <3>2 DEF Told
      <4>2. scene'.login = IF r.err = kErrNone THEN 2 ELSE 3
        BY <1>1, <4>1 DEF SceneStates
      <4> QED BY <3>1, <4>2
    <3>4. user'.stage = Stage(r) BY <1>2, <3>2, <3>3 DEF Heard
    <3>5. user'.stage = r.doc.stage BY <2>1, <3>4 DEF Stage
    <3>6. WillReach(user'.stage, up', sess'.udb.stage)
      BY <1>2, <2>3, <3>5 DEF WillReach
    <3>7. scene'.at # "play" /\ ~Entering' BY <1>2, <3>1 DEF Entering
    <3> QED BY <1>2, <2>1, <3>6, <3>7 DEF Reached, WillReach, Passes
  <2> QED BY <2>5, <2>6
<1>7. ASSUME ~(conn = "open" /\ LoginHeard') PROVE Reached' BY <1>2, <1>7 DEF Reached
<1> QED BY <1>4, <1>5, <1>6, <1>7

(* A request more on its way, for the pass just made or for anything else.   *)
LEMMA ReachAsked ==
  ASSUME NEW q \in Seq(Sent), NEW x \in Sent, NEW n \in Nat, NEW top \in Nat,
         WillReach(n, q, top) \/ Passes(x, n, top)
  PROVE  WillReach(n, Append(q, x), top)
<1>1. /\ Len(q) \in Nat /\ Len(Append(q, x)) = Len(q) + 1
      /\ \A i \in 1..Len(q) : Append(q, x)[i] = q[i]
      /\ Append(q, x)[Len(q) + 1] = x
  BY AppendAt
<1>2. \A i \in 1..Len(q) : i \in 1..Len(Append(q, x)) BY <1>1
<1>3. Len(q) + 1 \in 1..Len(Append(q, x)) BY <1>1
<1> QED BY <1>1, <1>2, <1>3 DEF WillReach

LEMMA PassedAsked ==
  ASSUME Base, Opened, Reached, AnswersBehind, Asks
  PROVE  Opened' /\ Reached' /\ AnswersBehind'
<1>1. /\ Types /\ delegate \in DelegateStates /\ up \in Seq(Sent)
      /\ user.stage \in Nat /\ scene.stage \in Stages /\ scene.stage \in Nat
  BY BaseFacts, TypeFacts, StageNat
<1>2. PICK s, c, f : AskFrom(s, c, f) /\ AskedAs(s, c, f) BY <1>1, AsksShape
<1>3. /\ UNCHANGED <<user, gotostart, conn, down, sess>>
      /\ up' = IF conn = "open" THEN Append(up, Outgoing(c, f)) ELSE up
      /\ delegate' = Sending(delegate, scene.at, TRUE)
      /\ c \in Commands /\ f \in Bodies
  BY <1>2 DEF AskFrom, Rest, server
<1>4. /\ scene'.at = scene.at /\ scene'.stage = scene.stage
      /\ scene'.login = scene.login
      /\ scene'.won = 1 => c = kCmdEndPlay \/ scene.won = 1
  BY <1>1, <1>2, AskScene
<1>5. delegate'.flag = FALSE BY <1>1, <1>3, SendingFields
<1> DEFINE x == Outgoing(c, f)
<1>6. x \in Sent /\ x.cmd = c /\ x.body = f BY <1>1, <1>3, OutgoingSent
<1> HIDE DEF x
<1>7. Opened' /\ AnswersBehind' BY <1>3, <1>4 DEF Opened, AnswersBehind
<1>8. ASSUME conn = "open", LoginHeard'
      PROVE  Reached'
  <2>1. LoginHeard BY <1>4, <1>8 DEF LoginHeard
  <2>2. /\ sess.uid # 0
        /\ WillReach(user.stage, up, sess.udb.stage)
        /\ scene.at = "play" => scene.stage <= sess.udb.stage
        /\ scene.at = "play" /\ scene.won = 1 =>
             WillReach(scene.stage + 1, up, sess.udb.stage)
    BY <1>8, <2>1 DEF Reached
  <2>3. sess.udb.stage \in Nat BY <2>2, SessionStage
  <2>4. up' = Append(up, x) BY <1>3, <1>8 DEF x
  <2>5. WillReach(user.stage, up', sess.udb.stage)
    BY <1>1, <1>6, <2>2, <2>3, <2>4, ReachAsked
  <2>6. ASSUME scene.at = "play", scene'.won = 1
        PROVE  WillReach(scene.stage + 1, up', sess.udb.stage)
    <3>1. scene.stage + 1 \in Nat BY <1>1
    <3>2. CASE scene.won = 1
      <4>1. WillReach(scene.stage + 1, up, sess.udb.stage) BY <2>2, <2>6, <3>2
      <4> QED BY <1>1, <1>6, <2>3, <2>4, <3>1, <4>1, ReachAsked
    <3>3. CASE c = kCmdEndPlay
      <4>1. f["stageid"] = scene.stage /\ f["pass"] = 1
        BY <1>2, <2>6, <3>3 DEF AskedAs, LoginAsked, kCmdEndPlay, kCmdUserLogin,
                               kCmdStartPlay, kCmdEventLock, kCmdUseItem
      <4>2. scene.stage \in 1..sess.udb.stage
        BY <1>1, <2>2, <2>3, <2>6 DEF Stages
      <4>3. Passes(x, scene.stage + 1, sess.udb.stage)
        BY <1>1, <1>6, <3>3, <4>1, <4>2 DEF Passes
      <4> QED BY <1>1, <1>6, <2>3, <2>4, <3>1, <4>3, ReachAsked
    <3>4. c = kCmdEndPlay \/ scene.won = 1 BY <1>4, <2>6
    <3> QED BY <3>2, <3>3, <3>4
  <2> QED BY <1>3, <1>4, <1>5, <2>2, <2>5, <2>6 DEF Reached, WillReach, Passes
<1>9. ASSUME ~(conn = "open" /\ LoginHeard') PROVE Reached' BY <1>3, <1>9 DEF Reached
<1> QED BY <1>7, <1>8, <1>9

LEMMA PassedLeft ==
  ASSUME Base, Opened, Reached, AnswersBehind, Leaves, scene.at # "off",
         tally'.strays = tally.strays
  PROVE  Opened' /\ Reached' /\ AnswersBehind'
<1>1. /\ Types /\ StartLine /\ scene \in SceneStates /\ scene.poll \in Nat
      /\ delegate \in DelegateStates /\ tally \in Tallies /\ tally.strays \in Nat
  BY BaseFacts, TallyFacts
<1>2. Left BY <1>1, LeavesShape
<1>3. /\ UNCHANGED <<user, gotostart, conn, up, down, sess>>
      /\ delegate' = Leave(delegate)
      /\ scene'.at \in {"game", "play", "event", "shop"}
      /\ scene'.poll = 0 /\ scene'.won = 0
      /\ scene'.at = "play" => StageEntered /\ scene'.stage = scene.stage
      /\ scene.at = "start" => scene.ready
  BY <1>2 DEF Left, net, server
<1>4. LoginHeard /\ (scene.at = "start" => conn # "connecting")
  <2>1. scene.at = "start" => scene.login = 2 /\ conn # "connecting"
    BY <1>1, <1>3 DEF StartLine
  <2> QED BY <2>1 DEF LoginHeard
<1>5. Opened' BY <1>3, <1>4 DEF Opened
<1>6. AnswersBehind' BY <1>3 DEF AnswersBehind
<1>7. ~Entering' BY <1>3 DEF Entering
<1>8. ASSUME scene'.at = "play", conn = "open"
      PROVE  scene.stage <= sess.udb.stage
  <2>1. StageEntered BY <1>3, <1>8
  <2>2. Entering /\ delegate.flag /\ ~gotostart
    BY <2>1 DEF StageEntered, Entering, Ticking
  <2>3. scene.stage = scene.want
    <3> DEFINE n == IF scene.stage = scene.want THEN 0 ELSE 1
    <3>1. tally' = [tally EXCEPT !.unpaid = @ + 1, !.owed[scene.stage] = @ + 1,
                      !.strays = @ + n]
      BY <2>1 DEF StageEntered
    <3>2. n \in Nat OBVIOUS
    <3> HIDE DEF n
    <3>3. tally'.strays = tally.strays + n BY <1>1, <3>1 DEF Tallies
    <3>4. n = 0 BY <1>1, <3>2, <3>3
    <3> QED BY <3>4 DEF n
  <2> QED BY <1>4, <1>8, <2>2, <2>3 DEF Reached
<1>9. Reached'
  <2> SUFFICES ASSUME conn' = "open" PROVE Reached' BY DEF Reached
  <2>1. sess.uid # 0 /\ WillReach(user.stage, up, sess.udb.stage)
    BY <1>3, <1>4 DEF Reached
  <2>2. WillReach(user'.stage, up', sess'.udb.stage) BY <1>3, <2>1
  <2>3. scene'.at = "play" => scene'.stage <= sess'.udb.stage BY <1>3, <1>8
  <2>4. scene'.won # 1 BY <1>3
  <2> QED BY <1>3, <1>7, <2>1, <2>2, <2>3, <2>4 DEF Reached, WillReach, Passes
<1> QED BY <1>5, <1>6, <1>9

LEMMA PassedSold ==
  ASSUME Base, Opened, Reached, AnswersBehind, Sold, scene.at # "off",
         ~(scene.at = "start" /\ scene.login # 2)
  PROVE  Opened' /\ Reached' /\ AnswersBehind'
<1>1. /\ Types /\ StartLine /\ delegate \in DelegateStates /\ up \in Seq(Sent)
      /\ user \in UserStates /\ user.stage \in Nat
  BY BaseFacts, TypeFacts
<1> DEFINE x == Outgoing(kCmdIAPAddHeart, Body([addheart |-> PurchaseHearts]))
<1>2. x \in Sent
  <2>1. kCmdIAPAddHeart \in Commands BY DEF kCmdIAPAddHeart, Commands
  <2> QED BY <1>1, <2>1, HeartBody, OutgoingSent
<1>3. /\ UNCHANGED <<conn, down, sess>> /\ scene' = NewScene("game")
      /\ user' = [user EXCEPT !.heart = @ + PurchaseHearts]
      /\ conn = "open" => up' = Append(up, x)
  BY DEF Sold, server
<1> HIDE DEF x
<1>4. user'.stage = user.stage BY <1>1, <1>3 DEF UserStates
<1>5. scene'.at = "game" /\ scene'.poll = 0
  <2>1. "game" \in Scenes BY DEF Scenes
  <2> QED BY <1>3, <2>1, NewSceneFacts
<1>6. LoginHeard /\ conn # "connecting"
  <2>1. scene.at = "start" => conn # "connecting" BY <1>1 DEF StartLine
  <2> QED BY <2>1 DEF LoginHeard, Opened
<1>7. Opened' /\ AnswersBehind' BY <1>3, <1>6 DEF Opened, AnswersBehind
<1>8. Reached'
  <2> SUFFICES ASSUME conn = "open" PROVE Reached' BY <1>3 DEF Reached
  <2>1. sess.uid # 0 /\ WillReach(user.stage, up, sess.udb.stage)
    BY <1>6 DEF Reached
  <2>2. sess.udb.stage \in Nat BY <2>1, SessionStage
  <2>3. WillReach(user.stage, Append(up, x), sess.udb.stage)
    BY <1>1, <1>2, <2>1, <2>2, ReachAsked
  <2>4. WillReach(user'.stage, up', sess'.udb.stage) BY <1>3, <1>4, <2>3
  <2>5. scene'.at # "play" /\ ~Entering' BY <1>5 DEF Entering
  <2> QED BY <1>3, <2>1, <2>4, <2>5 DEF Reached, WillReach, Passes
<1> QED BY <1>7, <1>8

LEMMA PassedStill ==
  ASSUME Opened, Reached,
         UNCHANGED <<scene, delegate, user, gotostart, conn, up, sess>>
  PROVE  Opened' /\ Reached'
<1>1. Opened' BY DEF Opened
<1>2. Reached' BY ReachedStill DEF LoginHeard, Entering
<1> QED BY <1>1, <1>2

LEMMA PassedNext ==
  ASSUME Base, AskedFor, Agreed, Passed, [Next]_vars
  PROVE  Passed'
<1> SUFFICES ASSUME ~StageExcused'
             PROVE  Opened' /\ Reached' /\ AnswersBehind'
  BY DEF Passed
<1>1. /\ Types /\ Targeted /\ StartLine /\ Accounts /\ Numbered
      /\ scene \in SceneStates /\ delegate \in DelegateStates /\ user \in UserStates
      /\ tally \in Tallies /\ down \in Seq(Answered)
  BY BaseFacts
<1>2. /\ tally'.overtaken = 0 /\ tally'.strays = 0 /\ tally'.strangers = 0
      /\ tally'.opens = 0 /\ tally'.unheard = 0
  <2>1. tally' \in Tallies
    <3>1. Base' BY BaseNext
    <3> QED BY <3>1 DEF Base, Types
  <2>2. ~(tally'.overtaken + tally'.strays + tally'.strangers + tally'.opens
            + tally'.unheard > 0)
    BY DEF StageExcused
  <2> QED BY <2>1, <2>2, Unexcused
<1>3. /\ tally.overtaken = 0 /\ tally.strays = 0 /\ tally.strangers = 0
      /\ tally.opens = 0 /\ tally.unheard = 0
  BY <1>1, <1>2, ExcusesKept, TallyFacts
<1>4. Opened /\ Reached /\ AnswersBehind
  <2>1. ~StageExcused BY <1>3 DEF StageExcused
  <2> QED BY <2>1 DEF Passed
<1>5. ASSUME conn' # "open", Opened' PROVE Reached' /\ AnswersBehind'
  BY <1>5 DEF Reached, AnswersBehind
<1>6. CASE Restarts \/ Launch
  <2>1. scene'.at = "start" /\ conn' = "connecting"
    BY <1>6, FirstScene DEF Restarts, Restart, Launch
  <2> QED BY <1>5, <2>1 DEF Opened
<1>7. CASE onClose \/ Stops
  <2>1. conn' = "closed" BY <1>1, <1>7, StopsShape DEF onClose
  <2> QED BY <1>5, <2>1 DEF Opened
<1>8. CASE Asks BY <1>4, <1>8, PassedAsked
<1>9. CASE scene.at # "off" /\ Leaves BY <1>2, <1>3, <1>4, <1>9, PassedLeft
<1>10. CASE Stays
  <2>1. Stayed BY <1>1, <1>10, StaysShape
  <2>2. /\ scene'.at = scene.at /\ scene'.poll \in 0..scene.poll
        /\ scene'.want = scene.want /\ scene'.login = scene.login
        /\ UNCHANGED <<up, gotostart, conn, down, sess>>
        /\ scene.at # "game" => scene'.stage = scene.stage
        /\ scene'.won = scene.won \/ onBtnClothes
        /\ user' = user \/ onBtnClothes
        /\ delegate' = delegate \/ delegate' = Counting(delegate)
    BY <2>1 DEF Stayed, server
  <2>3. delegate'.flag = delegate.flag
    <3>1. CASE delegate' = delegate BY <3>1
    <3>2. CASE delegate' = Counting(delegate) BY <1>1, <3>2, DelegateFields
    <3> QED BY <2>2, <3>1, <3>2
  <2>4. onBtnClothes => /\ scene.at = "play" /\ scene.won = 1 /\ scene'.won = 2
                        /\ user'.stage = scene.stage + 1
    BY <1>1 DEF onBtnClothes, SceneStates, UserStates
  <2>5. scene'.poll > 0 => scene.poll > 0
    BY <1>1, <2>2, TypeFacts
  <2>6. Opened' /\ AnswersBehind' BY <1>4, <2>2 DEF Opened, AnswersBehind
  <2>7. Entering' => Entering BY <2>2, <2>5 DEF Entering
  <2>8. LoginHeard' => LoginHeard BY <2>2 DEF LoginHeard
  <2>9. scene'.at = "play" => /\ scene.at = "play" /\ scene'.stage = scene.stage
                              /\ scene'.won = 1 => scene.won = 1
    BY <2>2, <2>4
  <2>10. \/ user'.stage = user.stage
         \/ scene.at = "play" /\ scene.won = 1 /\ user'.stage = scene.stage + 1
    BY <2>2, <2>4
  <2>11. Reached' BY <1>4, <2>2, <2>3, <2>7, <2>8, <2>9, <2>10, ReachedStill
  <2> QED BY <2>6, <2>11
<1>11. CASE Sells \/ UNCHANGED vars
  <2>1. CASE Sells
    <3>1. UNCHANGED <<scene, delegate, user, gotostart, conn, up, down, sess>>
      BY <2>1 DEF Sells, onBtnSale, ProductFailed, net, server
    <3> QED BY <1>4, <3>1, PassedStill DEF AnswersBehind
  <2>2. CASE UNCHANGED vars
    <3>1. UNCHANGED <<scene, delegate, user, gotostart, conn, up, down, sess>>
      BY <2>2 DEF vars, net, server
    <3> QED BY <1>4, <3>1, PassedStill DEF AnswersBehind
  <2> QED BY <1>11, <2>1, <2>2
<1>17. CASE Dropped
  <2>1. /\ down # <<>> /\ down' = Tail(down)
        /\ UNCHANGED <<scene, delegate, user, gotostart, conn, up, sess>>
    BY <1>17 DEF Dropped, server
  <2>2. \A i \in 1..Len(down') : i + 1 \in 1..Len(down) /\ down'[i] = down[i + 1]
    BY <1>1, <2>1, TailAt
  <2>3. AnswersBehind' BY <1>4, <2>1, <2>2 DEF AnswersBehind
  <2> QED BY <1>4, <2>1, <2>3, PassedStill
<1>12. CASE onMessage /\ \E r : Taken(r)
  BY <1>4, <1>12, PassedRead
<1>13. CASE scene.at # "off" /\ onOpen
  <2>1. scene.at = "start" BY <1>4, <1>13 DEF onOpen, Opened
  <2>2. delegate.target = "start" BY <1>1, <2>1 DEF Targeted
  <2>3. scene' = [scene EXCEPT !.login = 1] /\ down' = <<>>
    BY <1>1, <1>13, <2>2 DEF onOpen, Numbered
  <2>4. scene'.at = "start" /\ scene'.login = 1 BY <1>1, <2>1, <2>3 DEF SceneStates
  <2> QED BY <2>3, <2>4 DEF Opened, Reached, LoginHeard, AnswersBehind
<1>14. CASE ServeNext
  <2>1. PICK m, clean, r : Handled(m, clean, r) /\ Counted(clean, r)
    BY <1>1, <1>14, ServeShape
  <2>2. /\ 0 + One(~clean) = 0 /\ 0 + One(r.bare /\ r.err = kErrNone) = 0
    BY <1>2, <1>3, <2>1 DEF Counted
  <2>3. clean /\ ~(r.bare /\ r.err = kErrNone) BY <2>2 DEF One
  <2>4. clean = TRUE BY <2>1, <2>3 DEF Handled
  <2>6. CASE ByUser(m, r) BY <1>4, <2>1, <2>4, <2>6, PassedServed
  <2>7. CASE Failed(m, r)
    <3>1. conn' = "kicked" BY <2>7 DEF Failed
    <3> QED BY <1>5, <3>1 DEF Opened
  <2>8. ~ByStranger(m, r) BY <2>3 DEF ByStranger
  <2> QED BY <2>1, <2>6, <2>7, <2>8 DEF Handled
<1>15. CASE scene.at # "off" /\ CAProductByNotify
  <2>1. Sold BY <1>1, <1>15, CreditShape
  <2>2. ~(scene.at = "start" /\ scene.login # 2)
    <3> SUFFICES ASSUME scene.at = "start", scene.login # 2 PROVE FALSE OBVIOUS
    <3>1. tally' = [tally EXCEPT !.unheard = @ + 1] BY <2>1 DEF Sold
    <3>2. tally'.unheard = tally.unheard + 1 BY <1>1, <3>1 DEF Tallies
    <3> QED BY <1>2, <1>3, <3>2
  <2> QED BY <1>4, <1>15, <2>1, <2>2, PassedSold
<1>16. onMessage => Dropped \/ \E r : Taken(r) BY <1>1, MessageShape
<1>18. CASE ServeOld
  <2>1. PICK o, m, clean : Drifts(o, m, clean) BY <1>1, <1>18, DriftShape
  <2>2. UNCHANGED <<scene, delegate, user, gotostart, conn, up, down, sess>>
    BY <2>1 DEF Drifts, net
  <2> QED BY <1>4, <2>2, PassedStill DEF AnswersBehind
<1> QED
  BY <1>6, <1>7, <1>8, <1>9, <1>10, <1>11, <1>12, <1>13, <1>14, <1>15, <1>16,
     <1>17, <1>18, NextCases DEF Network

(* Once everything asked has been answered, the client offers no stage the   *)
(* server would refuse: what it counts as passed has been or is being told,  *)
(* and a pass that is told is a pass of a stage the server let it play       *)
(* (play_scene.cpp:165-184, client.go:246-290).                              *)
THEOREM StageNeverAheadAlways == Spec => []StageNeverAhead
<1>1. Init => Base /\ Paid /\ Agreed /\ Passed
  BY BaseInit, PaidInit, AgreedInit, PassedInit
<1>2. (Base /\ Paid /\ Agreed /\ Passed) /\ [Next]_vars
        => (Base /\ Paid /\ Agreed /\ Passed)'
  <2> SUFFICES ASSUME Base, AskedFor, Covered, Agreed, Passed, [Next]_vars
               PROVE  Base' /\ AskedFor' /\ Covered' /\ Agreed' /\ Passed'
    BY DEF Paid
  <2> QED BY BaseNext, AskedForNext, CoveredNext, AgreedNext, PassedNext
<1>3. Base /\ Paid /\ Agreed /\ Passed => StageNeverAhead
  <2> SUFFICES ASSUME Base, Passed, Quiet, delegate.flag, tally.err = kErrNone,
                      ~StageExcused
               PROVE  user.stage <= sess.udb.stage
    BY DEF StageNeverAhead
  <2>1. /\ conn = "open" /\ up = <<>> /\ sess.uid # 0 /\ Reached
        /\ StartLine /\ scene \in SceneStates
    BY BaseFacts DEF Quiet, Passed
  <2>2. LoginHeard
    <3> SUFFICES ASSUME scene.at = "start" PROVE scene.login = 2 BY DEF LoginHeard
    <3>1. scene.login \in 0..3 BY <2>1 DEF SceneStates
    <3>2. scene.login # 0 /\ scene.login # 1 /\ scene.login # 3
      BY <2>1 DEF StartLine
    <3> QED BY <3>1, <3>2
  <2>3. WillReach(user.stage, up, sess.udb.stage) BY <2>1, <2>2 DEF Reached
  <2>4. Len(up) = 0 BY <2>1
  <2> QED BY <2>3, <2>4 DEF WillReach
<1> QED BY <1>1, <1>2, <1>3, PTL DEF Spec
=============================================================================
