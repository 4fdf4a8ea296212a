# crazyass: a TLA+ project

crazyass is a card game for phones with a small game server. A player logs in
over a websocket, pays hearts to play a stage of four shuffles, picks the right
card in each, and may buy hearts in the App Store or earn them from Tapjoy. The
server (Go, MongoDB) keeps the players' documents; the client (C++, cocos2d-x)
keeps a copy of one of them, and a game going on while replies come in. Beside it
stands `dogrun2`, the TCP server of another game that shares its beginnings.

This directory holds models of both, the TLC runs that check them and the TLAPS
proofs about them. Paths below are relative to `src/server/src/` (`crazyass/`,
`crazyassd/`, `dogrun2/`, `dogrun2d/`) and `src/client/src/`.

| module | what it is |
| --- | --- |
| `UserRecord` | the player's document and what each command does to it: operators, no state |
| `GameServer` | sessions, readers, registry, store and Tapjoy callbacks |
| `RequestReply` | abstract: what the server promises a client that waits for each reply |
| `GameServerAnswers` | the refinement mapping from `GameServer` to `RequestReply` |
| `UserRecordProofs` | lemmas about the operators of `UserRecord`, for both sides' proofs |
| `GameServerProofs` | theorems about `GameServer`: types, handlers, the registry |
| `GameServerSaveProofs` | theorems about `GameServer`: what is saved, lost and charged |
| `GameServerAnswersProofs` | theorems about `GameServer` with clients that wait: what is served, and `RequestReply` step by step |
| `GameClient` | the delegate, the five scenes, the shop, over an unreliable connection, with the server's commands taken from `UserRecord` |
| `GameClientProofs` | theorems about `GameClient` |
| `CardGame` | one stage: the cards, their animations, the panels, the items and their late answers |
| `CardGameProofs` | theorems about `CardGame` |
| `EventBar` | the event scene while it is on: buttons, drag, progress bar and its timer |
| `EventBarProofs` | theorems about `EventBar` |
| `DogServer` | the server of dogrun2: goroutines, login, the care of dogs, the process |
| `DogServerProofs` | theorems about `DogServer` |
| `MCGameServer`, `MCGameClient`, `MCCardGame`, `MCEventBar`, `MCDogServer` | the values the configurations use |

`tlc -config Reconnect.cfg MCGameServer.tla` runs one configuration (the table of
runs below gives the module of each); `tlapm GameServerProofs.tla`, and likewise
for the other `*Proofs` modules, checks the proofs.

## 1. Inventory

### Server

**Session** (`client.go`). Each websocket connection has a `Client` with an
embedded `User`, and two goroutines: `Proc`, which loops over a select of three
cases (a request, an internal message, 300 s without either), and `readMsg`,
which decodes requests and passes a pointer to them. State: `enable`, one `msg`
that every request is decoded into, one `replyMsg`, `req_chan` of capacity 1,
`ichan` of capacity 4. Hard: both goroutines write `enable` and use `msg` with
nothing between them; a session ends by three different causes, and its reader,
its registry entry and the callbacks that found it must end with it. Correct when
each request is served as it was asked, each answered request has reached the
database, and everything that starts comes to an end.

**Registry** (`client.go`, `CAOnline`). A map from user id to session under a
mutex: `Insert`, `Delete`, `Find`. Hard: the caller drops the error of `Insert`,
`Delete` is by user id, and what `Find` returns is used after the mutex is
released. Correct when an entry names a session that is logged in as that user
and has not ended.

**Player record and commands** (`user.go`, `cmd.go`). The document (hearts,
next stage, six event locks), a copy in the session's memory with `ready` and
`dirty`, and the handlers: login, start and end of play, purchase, event lock,
item. Hard: `Heart` is a uint32 and two handlers spend without asking; a handler
changes memory first and `Store` may fail after; several sessions and callbacks
may each hold a copy of the same document. Correct when progress that was
answered is kept, and is lost, if at all, only to another writer's stale copy.

**Callbacks** (`crazyassd/main.go`, `AddHeartAsync`). Tapjoy's HTTP request
credits hearts through the registry to the session, or to the database when
the player is not on line. Hard: find, load, add and store are separate steps.

**Database session** (`db.go`): connected once at start; calls on it may fail.

**dogrun2 server** (`dogrun2/`, `dogrun2d/`). One goroutine per TCP connection,
which calls `readMsg` (a header, then a body, decoded into the connection's one
`Msg`, a pointer to which goes into `req_chan`) and only then selects on the
channel and a timer of two seconds. Commands: login, which loads the user's and
the dogs' documents, stamps `LastLogin` and upserts the user; and feeding,
playing and training. It never sends anything. State: the session (`enable`,
`ready`, `udb`, `dk`), the documents, the tables of the configuration files, and
the process itself, since nothing recovers from a panic. Hard: `main` goes on
when the database or a table could not be had; two sessions of a user each write
the whole document; the read blocks before the timer is made. Correct when
packets are served in order, a login that went well is in the database, and what
the player owns survives every login.

### Client

**Delegate** (`start_scene.cpp`, `MyDelegate`). The websocket's callbacks. It
keeps the number of the last request, a flag that a reply has come, the count of
polls since, and the scene to call back. Scenes poll it with a timer
(`CheckRecv`). Hard: one number, one flag and one target for all requests;
`onOpen` sets the same flag as a reply; `onClose` deletes the object that
everybody still points to. Correct when a scene acts only on the reply to what
it asked, and every wait ends.

**Scenes**: start (connect and log in), game (choose and pay), play (the round,
items, end of play), event (open a lock), shop (buy). Each sends a request, goes
on reacting to touches while it waits, and acts when its timer finds the flag
set. A scene may be left, and a new one entered, with a request under way.

**Card manager** (`card_manager.cpp`) with the **play scene** (`play_scene.cpp`).
Cards are dealt, turned, moved `play_count_ - 1` times and then touchable; each
animation ends in a callback that counts and starts the next. Items ("finger"
shows a wrong card, "replay" deals again) do their work when the server has
answered, which may be at any later time. Hard: the callbacks index tables by
counters that touches and late answers change as well. Correct when tables are
read within bounds, cards are touchable only at rest, a stage is reported as
passed only when it was, and every shuffle ends.

**Event bar** (`event_scene.cpp`, `static_config.cpp`). Up to four events are
started and stopped by their buttons. While one runs, dragging the star adds to
`distence_` and a timer takes from it, both by tables that depend on the event
and on how far it has come; the bar, the face and the sound follow. Hard: a drag
outlives the event it began in, the event may be changed between two ticks, and
the tables answer 0 out of range. Correct when the progress stays on the bar, a
scene with no event on is quiet, and a star left alone lets the bar run down.

**Purchases** (`shop_scene.cpp`, `proj.ios/IAPHelper.m`, `test.mm`). A transaction
completes whenever the store says so, in whatever scene; it is announced to the
server, with no reply waited for, and after that taken off the store's queue. Hard:
the connection may be down, and the application may end between the two.

**Player's copy** (`user.cpp`): hearts, stage and locks in memory, and only the
user id on disk.

Parts that are not modelled, with the reason, are in section 9.

### How they interact

    touches, timers, store          Tapjoy
            |                          |
    scenes <-> MyDelegate           HandleTP
            |                          |
        websocket                 AddHeartAsync --- registry
            |                          |     \         |
        readMsg -> req_chan -> Proc <- ichan  \        |
                                |   \__________\______/
                                 \---- database

`GameServer` is everything below the websocket, `GameClient` everything above it
with a sequential server at the other end, `CardGame` the inside of the play
scene, whose requests are answered by nobody in particular at any time. The three
share `UserRecord`. `EventBar` is the inside of the event scene, whose requests
are in `GameClient`. `DogServer` is a system of its own.

## 2. GameServer

A step ends wherever another goroutine can see or change what is being worked
on: a channel operation, the registry's mutex, a database call, and each half of
the decoding into the shared buffer. Everything between two such points is one
action.

| state | code |
| --- | --- |
| `main[c]`, `reader[c]` | where `Proc` and `readMsg` are |
| `link`, `inbox` | the TCP connection; what the client has sent |
| `cmsg[c]` | `Client.msg`; `reqChan[c]` is `req_chan`: empty, a pointer to it, or nil |
| `enable`, `user`, `reply`, `ichan` | the fields of those names |
| `online`, `db` | `CAOnline.usermap`, the user collection |
| `grant[g]` | where `AddHeartAsync` is in callback `g`, and the document it loaded |
| `asked`, `served`, `answers`, `base` | history, read by properties only, except that the model's client waits for its replies |

`Reader` is `readMsg` (`ReadBody`, `ReadHeader`, `PushRequest`, `ReadError`,
`PushNil`); `Main` is `Proc` (`TopOfLoop`, the three cases of the select, and
`procMsg` cut into `Dispatch`, handler, `InsertOnline`, `Store`, `SendReply`; then
`Unregister` and `Close`); `Callback` is `AddHeartAsync`. `Crash` ends all
goroutines and forgets all memory.

Abstractions. `LastLogin`, `RegTime` and `DeviceInfo` are left out, nothing reads
them. TCP keepalive is left out: a silent peer is noticed by the 300 s timer only.
A new id is one that nobody has. A client sends only what the game client can
send, a stage and an item that exist; but it may send anything before it has
logged in, as a player does whom a purchase completed on the start screen has
taken to the selection screen. An upsert that
reports an error may have been applied. `procTimeout` may fire only when neither
channel holds anything.

Properties:

* `OnlineEntryLive`: the registry names only sessions that are logged in as
  that user and have not passed `Delete`.
* `HandlersReady`: a handler finds a whole request and six locks; the reader
  finishes what it began.
* `ServedAsAsked`: what was handled is what was asked, in order, each once.
  Holds for a client that waits (run Session), not for one that does not (run
  Pipeline).
* `ProgressSaved`: a session at rest has its stage and locks in the document it
  last wrote.
* `AnsweredIsStored`: when a reply that does not kick leaves, the session's stage
  and locks are in the database, always. So are its hearts, with one exception
  that the code makes: while no request of the session has changed anything, so
  that `Store` writes nothing, the reply may tell of hearts that `LoginRefill`
  topped up (`user.go:118-121`) or a Tapjoy credit added (`client.go:181`). Neither
  sets `dirty`; both are lost if the session ends so.
* `ProgressLostOnlyToStaleCopy`: a document loses a stage only when it is
  overwritten from a copy, the writer's own, that another write has made stale.
  This is the most the code gives: two sessions of one player do overwrite each
  other.
* `StartPlayNeverMints`: paying for a stage never adds hearts.
* `AbandonedSessionEnds`, `CallbackEnds`, `ReaderEnds`: what was started
  ends. The last two name their exceptions, which the model reaches: a callback
  that waits for room in the channel of a session that has ended, and a reader
  left with a request nobody will take, stay for good.
* `EveryRequestAnswered`: the refinement of `RequestReply`, with its fairness.

## 3. GameClient

A handler of the UI thread is one action: a callback of the websocket, a tick of
the scene's timer, a button, a notification of the store. A change of scene is
part of the action that causes it, and the timers of the old scene go with it:
the second of transition, in which cocos2d-x still runs both, is not modelled.
A button handler that runs for every event of a touch but the first
(`e == TOUCH_EVENT_BEGAN` returns) is simply an action that may repeat.

| state | code |
| --- | --- |
| `scene` | the running scene: which, its stage, login state, timer, `cmd_`, `property_state_`, back flag, whether EndPlay was sent |
| `delegate` | `MyDelegate`: target, whether that scene still exists, flag, count, next and last sequence number, deleted or not |
| `user`, `gotostart`, `shop` | `User::CurrentUser()`, `gotostartscene`, `iap_` and `in_iap_` with the helper's target |
| `pending` | transactions in the system's queue |
| `conn`, `up`, `down` | the connection and what is under way on it |
| `sess`, `docs` | the server: the `User` of this connection's session (id, its copy of the document, `dirty`), and all documents |
| `old` | connections the client has left: their session, and the requests under way the server may still serve |
| `tally` | history: entries, charges, items, purchases, and what excuses a difference between them |

The server at the other end takes requests one by one, but may read one request
over another as run Pipeline shows it does (`Readings`); it may fail and kick,
and send away a stranger with the empty reply whose error code is 0. An upsert that
reports an error may have been applied. A document is read once, at login, and
written after each request once one of the session has changed something, so the
session's copy and the document differ as they do in `GameServer`.

When the client gives a connection up (a new start scene, a lost connection, the
end of the application: `GiveUp`), the server has not: what it had received is
decoded, stands in `req_chan` or is in the middle of `Load` or `Store`
(`client.go:186-233`). The connection moves to `old`, and `ServeOld` may serve its
requests, with its own session, at any later time or never; nobody hears the
answers.

`Devices` says whether the device has an account when the game begins, and
`Queued` how many purchases its queue holds from before. `completeTransaction`
(`IAPHelper.m:130-135`) announces a purchase, which sends it to the server, and
takes it off the queue after that: `CAProductByNotify` is both, `DiesUnfinished`
the application's end in between, after which the queue announces it again.
`MaxSends` bounds the requests of the first
connection, and each further one has one less. Replies keep
their order and may be lost with the connection. Sequence numbers start at 1 and
not at 12345. Tapjoy's credits are left to `GameServer`. When a handler uses
memory that has been freed, the application may die (`AppDies`) or go on with
what the memory still holds. Leaving the application forgets all but the user id
(`Stop`, `Launch`).

Properties: `PollingTargetHere` (a scene that waits is the scene that will be
called), `StartSettles` and `StartEnds` (the start screen's two waits on one
timer), `PlayIsPaidFor` and `ItemsArePaidFor` (entries and items against the
charges the server made, with exactly these excuses: the empty reply, a
connection opened while the scene waited and, for items, a refusal acted on as
the request before it),
`StageIsPaidFor` (the same stage by stage, where one more excuse is needed: the
stage that is entered is the one selected when the answer comes, not the one that
was paid for, `game_scene.cpp:225-246`),
`HeartsAgree` (after the newest reply the client shows what its session has, also
for a player whose balance has gone below zero, which is a uint32 above 2^31),
`StageNeverAhead` (nor does it offer a stage the session would refuse, although the
last garment moves the client's stage on by itself). Both are about the session's
copy, which is what answers the player: that another session, one left behind
included, may overwrite the document is `GameServer`'s subject.

`PurchaseCreditedOnce`: no purchase is credited twice by a reconnection, a relaunch,
a request served late or a notification in another scene. Two things excuse it, and
the code does both: a purchase that was read over another request
(`tally.overtaken`), and one whose application died between announcing and
finishing it (`tally.unfinished`).

`AccountKept`: a device that has been told its account keeps it, and the server
makes it another only in one way. A first login has no id; if its answer is lost or
too slow, the device leaves the connection and logs in again, still without one.
When that has been answered, the server may still serve the first one, and then
makes a second account that nobody will ever use. The property says that this,
a login without an id on a connection left (`Nameless`), is all: no request of the
present connection, no later login and no failure makes another.

What `StageNeverAhead` excuses is the list of the ways in which the client stays
ahead of the server: EndPlay was read over, or sent from a stage that was entered
without its charge, or the answer to the login was never heard (`StageExcused`).
The last takes a purchase that finishes on the start screen before the login is
answered: `CAProductByNotify` takes the player to the selection screen, nobody is
called back with the document (`tally.unheard`), and the stage is still the one
from before the connection was lost, whether or not EndPlay arrived; an event lock
then brings hearts and no stage. It takes a fourth request, one more than run
Client allows: it was the proof, which has no such bound, that did not go through
without the excuse, and TLC finds the trace with `MaxSends = 4`.

## 4. CardGame

One stage of the play scene. An animation is an action that ends some time after
it was started; `moving` is the set of cards of this deal still moving, `moved`
is `moved_card_nums_`, `rows` the lines of `card_lines_`. A move is reduced to
which cards change places. A card that blinks may be found visible or not.
`PanelSecond` covers the screen while it shows a result, so nothing but it can be
touched. `ShowWrongCard`, a loop that draws cards at random until it finds a
wrong one that is visible, is `frozen` when there is none.

Properties: `TablesInRange`, `TouchOnlyAtRest`, `EndPlayIsWon`,
`FreezesOnlyIfHurried` (the loop ends unless an item was used before the last one
had done its work or was answered too late), `ShuffleEnds`, and `MovesCounted`,
which the code violates (section 8).

## 5. EventBar

A touch handler, a tick of the timer or the answer that opens a lock is one
action. The handlers of the buttons run for every event of a touch but its
begin, moves included, so each may repeat. `sound` is history: what
`ShowLoadingBar` last started for the face that shows.

| state | code |
| --- | --- |
| `distence`, `event_state`, `finger_idx`, `action` | `distence_`, `event_state_`, `finger_idx_`, `girl_action_runing_` |
| `bar`, `panel` | the visibility of the bar with its face, and of `PanelShop` |
| `timer` | `UpdateUI` is scheduled |
| `drag` | a touch that began on `BtnStarField` goes on; it may go on after the event |
| `lock`, `taken` | `EventLock` of the stage; the garments that are off |

Properties: `TypeOK` (the progress stays in 0..11000, which is what the bar can
show and a tenth more), `IdleIsQuiet`, `FaceHasItsSound` (the sound is chosen by
the button pressed last, and is nevertheless that of the event that runs) and
`BarRunsDown`, for every event and every step of the tables.

## 6. DogServer

A step ends at a read of the connection, a channel operation and a database call.
There is one goroutine per connection, so what lies between is seen by nobody.

| state | code |
| --- | --- |
| `process` | whether it is up; `mongodbSession` is set; the tables in `resMap`; starts so far |
| `docs` | the "user" documents: whether they hold what the player owns, and `LastLogin` |
| `session[c]` | `Client`: where its goroutine is, `req_chan`, the one `Msg`, `ready`, `u.udb`, `u.dk` |
| `client[c]` | packets sent and taken, and whether the connection is gone |
| `handled`, `seen` in a session | history: what `procMsg` was given, the document as it was loaded |

A packet is a command and a body; a body is a user id, a dog with an index into
a table, or something that does not parse. A packet with a wrong magic or a
command out of range is "Invalid"; one whose command is in range and not
registered calls a nil function and ends the process. Any database call may fail,
and an upsert that fails may have been applied. What `setDogAttr` would do after
its first line is not reached and not modelled. After a panic the operator may
start the process again, and whatever the documents hold is still there.

Properties: `ServedInOrder`, which Pipeline shows the sister server to lack: here
the reader is called by the same goroutine that serves, so the shared `Msg` is
safe; `LoggedInIsStored`; `DocumentKept`, in which the only thing that two
sessions of a user can take back is `LastLogin`; `RequestsSettle`; and
`CareTakesEffect`, which the code violates (section 8).

## 7. Runs

| run | module | shows |
| --- | --- | --- |
| Reconnect | MCGameServer | two connections of one player, known (with a document short of hearts, which login refills) or new: registry, saved progress, what is told is stored, lost progress |
| Session | MCGameServer | a player short of hearts who waits, a callback, failures and a crash: prices and the uint32, the shared buffer, store before answer; `RequestReply` is implemented, with fairness |
| Endings | MCGameServer | sessions, readers and callbacks end, whatever the client does |
| Pipeline | MCGameServer | violated: a client that sends ahead is not served as it asked |
| Dirty | MCGameServer | violated: a credit on line leaves the user clean |
| Client | MCGameClient | a device with or without an account, with hearts or overdrawn, with a purchase that may be in the queue from before, and with connections that were left and are still served: all safety, the account, and that the start screen ends |
| Disconnect | MCGameClient | violated: a lost connection does not lead to the start scene |
| Stage | MCCardGame | a whole stage: tables, touches, EndPlay, the loop, the shuffle |
| Moves | MCCardGame | violated: the answer to a replay breaks the count of moves |
| Bar | MCEventBar | every progress the bar can have, with the tables of `static_data.json` |
| Dog | MCDogServer | two connections, of one user or of two, every kind of packet, failures, panics and a restart |
| Feeding | MCDogServer | violated: feeding a dog ends the process |

Bounds, and why they are enough:

* `MaxRequests` 2 to 4 per connection: a login and what follows it; stale
  copies need one login and one change on each of two connections.
  `MaxInFlight` is 1 for a client that waits, 2 where it does not (the buffer
  and `req_chan` hold one each). So it is run Pipeline that has the two goroutines
  on one buffer; for a client that waits they never are, and what `ServedAsAsked`
  says in run Session is that the merge of a body into the last one's map adds
  nothing a handler reads, and that the order is kept.
* One or two connections and one or two callbacks, of one player: different
  players share nothing but the maps' keys. One crash at most: after it there is
  no memory for a second one to lose.
* `IchanCap` 1 where a full channel matters, 4 as in the code elsewhere.
* `UintMod` 65536 for 2^32, which TLC's integers cannot hold: a balance of a few
  hearts wraps either way, and half of it is the client's limit of `asInt`. The
  proofs hold for every `UintMod` above 99.
* The client opens two connections and sends three requests on the first and two
  on the second (one less on each in run Disconnect): a late reply needs two, a reply that
  overtakes a third, and a connection that was left and still served is the first
  of the two. One purchase, in the queue from before (`Queued` 0 or 1; 0 in run
  Disconnect) or bought; one is enough to be announced again after a death. Two
  girls, for the choice between them. One player is rich, and one overdrawn: two
  below zero, which is a uint32 near 2^32, with a stage passed, so that the events
  are open to him. Run Client has 1.5 million states and takes a minute and a half.
  `NETWORK_TIMEOUT` and `SCHEDULE_TIMEOUT` are 2 and 3 for 10 and 15: what
  matters is that the first is the smaller and neither is a multiple.
* Three cards: a wrong one that is hidden, one that blinks, and the right one.
  Two or three per `play_count_`, so that there are shuffles of one line and of
  two; four requests, enough for an item in flight in every sub stage and EndPlay.
* The bar has all four events, its real tables and one garment, since garments do
  not meet. The instance starts with two locks open and buys the others.
* Dog: two packets on one connection and one on the other: a login and what
  follows it, against another session's login. One user with a dog and a document,
  one without. Two starts and a clock of 0 and 1, enough for a login with an older
  stamp to be written after a newer one and for a CD to run or not. The tables of
  run Dog lack the one for training, those of run Feeding are all there. The
  theorems of `DogServerProofs` hold for any of these.

Deadlock is checked in the runs of `MCGameServer`, `MCGameClient`, `MCCardGame`
and `MCEventBar`; in the first three `Finished` is the step of a system that has
come to rest. Dog and Feeding do not check it: when clients, clock and operator
have used up their bounds, a server that waits for packets rests.

Fairness. `GameServer`: weak fairness of each goroutine, since the Go runtime
schedules what can run and the select's timer fires; of a callback once it has
begun; nothing of clients, failures or crashes. `GameClient`: the timer of the
running scene fires. `CardGame`: animations end. `EventBar`: the scheduler calls
`UpdateUI` while it is scheduled. `DogServer`: weak fairness of each connection's
goroutine; that one blocked in a read need not go on follows from its actions not
being enabled. Nothing is assumed of the player, the network or the store.

## 8. What the violated runs show

* **Pipeline**, `client.go:279`. `readPacket` returns the address of the
  connection's only `Msg`, and `req_chan` holds one: the reader decodes the next
  request over the one about to be served, or only its body. A request is lost
  and another is served twice. The play scene does send ahead: an item in use is
  logged and the next request sent all the same (`play_scene.cpp:395-413`).
* **Dirty**, `client.go:181`. `user.go:29-30` says `dirty` is true when the user
  has changed; `procIMsg` adds the hearts and leaves it false, so the credit is
  told to the player by the next reply, and is lost with the session unless some
  other request sets it.
* **Disconnect**, `start_scene.cpp:37`. The comment above says that a disconnect
  leads to the start scene; the flag that is set is read at some buttons and
  after a reply, which will not come, and not on the timeout.
* **Moves**, `card_manager.cpp:104`. `StartSubStage` replaces sprites in the
  middle of a move without resetting `moved_card_nums_`: the count never comes
  back to zero and the cards never become touchable. It takes a replay that was
  asked for before a card was picked and answered during the next shuffle.
* **Feeding**, `dogrun2/dog.go:88`. `login.txt:13-18` describes what feeding does
  after its checks: the item is taken, attributes are added, the CD is changed.
  `setDogAttr` begins with `dk.user.UseMoney`, and nothing ever assigns `dk.user`:
  the first dog that is fed, played with or trained ends the process with all its
  sessions.

Two more places where dogrun2 is not what it says, which need no run to see:
`login.txt:4` has a login cut the user's older connection, and no code looks for
one; and `procTimeout`, commented as the heartbeat timeout (`client.go:169`),
never ends a session that is silent, because `readMsg` blocks before the timer is
made: it can only strike a session whose packet is there.

## 9. Not modelled

* `ConnectMongo` of crazyass: called once, from `main`, before anything runs, so
  its double-checked locking has nobody to lock out.
* Layout, texts, resource loading, animation curves and times, and sounds except
  the one `EventBar` keeps.
* `event_mgr.h`, `tcp.c`, `tcpd.go`, `web.go`, `server/src/client`,
  `server/src/test`, `CIapControl`, `IIapControl`, `MyStoreObserver`,
  `TryFinishStage`: not part of the running program.
* Of dogrun2, what nobody calls: `fastStore`, `Send`, `SendMsg`, `SendNotify`,
  `Notify`, `Logout`, `DogKeeper.Store`, `User.Init`; and what follows the panic in
  `setDogAttr`: money, attributes, CD, `dirty`.
* Vendored code (libevent, protobuf, websocket, mgo, log4go, Tapjoy, the feedback
  view) and the platform templates. Nearly all lines of the repository are these;
  the models use them only as their callers see them.

Known limits. A handler of crazyass that panics is not modelled, because no
request the game client can send makes one panic. In dogrun2, `readPacket` takes the
length of the body from the packet's own header (`dogrun2/client.go:308-309`): a
size below the header's, or one that does not match what follows, is not modelled.
Packets are read whole or not at all, and `RequestsSettle` and `ServedInOrder` are
about clients whose sizes are right.

## 10. Proofs

Every proof module but `UserRecordProofs` (lemmas only) proves inductive invariants
(`Init => IInv`, `IInv /\ [Next]_vars => IInv'`), action by action, and takes the
theorems from them.

**GameServerProofs**: `TypeCorrect`, `HandlersReadyAlways`, `RegistryIsLive`, that
is `[]TypeOK`, `[]HandlersReady`, `[]OnlineEntryLive`, for any number of
connections, users, callbacks and requests. `IInv` is the conjunction of the
three: they need each other. That `online[u]` may be followed rests on the session
being logged in as `u`; that a handler keeps `UserDb` rests on the locks being
there, which rests on `InsertOnline` filling them before any other request is
taken, and on the header being decoded whole before the pointer to it is passed.
Under it are lemmas about `UserRecord`: `AddHeartType` (hearts stay in a uint32
whatever is added or taken, by the modulus), one for each handler, and
`ServeType`: every handler leaves a well-formed document with its six locks.
Assumptions: `UintModAssumption`, `NamesAssumption`, `DataAssumption`,
`BoundAssumption`, all checked by TLC in every run of `MCGameServer`.

**GameServerSaveProofs**: `AnsweredIsStoredAlways`, `ProgressSavedAlways`,
`StartPlayNeverMintsAlways` and `ProgressLostOnlyToStaleCopyAlways`, on top of
`IInv`.

* `SaveInv` follows a session that has not been told to stop from login to rest.
  At rest, and up to the handler, its stage and locks are those of `base`; at the
  store it may differ, but is then dirty (`Kept`): `ServeClean` says that a
  handler which leaves the user clean has left the document alone. On the way from
  `LoginLoad` to `InsertOnline` the locks may still be missing, if they are
  missing in `base` too (`Fillable`). That nobody has logged in on a connection
  not made yet (`Unmade`) is what keeps `Connect`, the only step that sets
  `enable`, from waking an unsaved session. `Told` is the reply after the store.
* `TellInv` is what `AnsweredIsStored` needs for a session that is clean. From its
  login on, as long as no request has changed anything, its hearts are those of
  the document it loaded, refilled, or else a callback has delivered to it
  (`Loaded`, with `Delivered` for a credit that waits in `ichan`); and a reply that
  does not kick comes from a session that is logged in (`Answering`).
* `GrowInv` says that every copy of a document, a session's or a callback's, has
  at least the stage of what it was made from, because no handler takes a stage
  back (`ServeGrows`), and that only a session that has logged in is dirty.
  `WriteShape` lists the writes to the database; each writes such a copy, so one
  that loses a stage was made from something else than what it overwrites.
* `StartPlayNeverMints` needs no more than `IInv`: the only step out of `handle`
  of a session that is ready is its handler, and `SpendWhatIsThere` says that
  taking what the balance covers does not wrap around.

**CardGameProofs**: `CardTypeCorrect`, `TablesInRangeAlways`,
`TouchOnlyAtRestAlways`, `EndPlayIsWonAlways`, for any cards, `play_count_` and
number of requests. The four are far from inductive. `sub_stage_` is advanced when
a shuffle ends and taken back by a replay, so the invariant follows the sub stage
the cards are on their way to (`Reach`): all the ones before it have been won
(`Order`). It may be followed by another only while the scene is `Open`: a
garment is there to drag or `BtnStartPlay` works; the garments that are off say
which result that goes back to (`Garments`); and while a result is out, a late
answer can take back only the sub stage it belongs to (`Place`). `Moves` keeps
the count of moves no smaller than the cards that move, which is what remains of
`MovesCounted`, and `Lines` ties `play_count_`, the line counter and the lines
made. Assumption: `CardAssumption`.

**EventBarProofs**: `BarTypeCorrect`, `IdleIsQuietAlways`, `FaceHasItsSoundAlways`,
for any tables in which a tick takes between 1 and 100, and any buttons among the
four. None of the three is inductive alone: `IInv` adds `Runs`, that an event that
runs is the one of the button pressed last and that the timer is on exactly while
one runs. The first is what makes the sound, chosen by `finger_idx`, the right
one; the second is why a drag that goes on after the event finds the table's 0 and
fills nothing. Assumption: `BarAssumption`.

**DogServerProofs**: `DogTypeCorrect`, `ServedInOrderAlways`,
`LoggedInIsStoredAlways`, `DocumentKeptAlways`, for any connections, users,
packets, tables and bounds. `IInv` has four parts.

* `OrderInv` follows the packets: between two of them all that were taken have
  been served; in the body the command read is that of the next packet; in the
  select the message is the last one taken and has not been served (`Between`).
  That is why a pointer to the only `Msg` is enough.
* `DocsOK` says that a document holds what its player owned from the start
  (`Owns`) and no login of the future.
* `Holds` says that a login under way holds the same, and a stamp no older than
  the one it loaded; `StoredDocs` and `StoreKeeps` draw `DocumentKept` from it.
* `ProcessOK` ties the open sessions to the process.

`HandlersShape` reduces the ten handlers of a message to four outcomes, on which
the parts are then proved. Assumption: `DogAssumption`, of which the proofs need
that the documents at the start have no login of the future.

**CardGameProofs**, `FreezesOnlyIfHurriedAlways`, adds `Unhurried` to `IInv`: as
long as no item was used in a hurry and none was answered late, the cards lie as
they were dealt while they move, the card that blinks is the one shown last, no
more cards are hidden than `show_wrong_times_` counts, and whoever still has an
item in use, or may ask for one, has a wrong card left that is not hidden
(`Room`). `ShowWrongCard` then finds one. That the count is compared only when a
blink has ended is why an item used during a blink is an excuse.

**GameServerAnswersProofs**: `ServedAsAskedAlways` and `ImplementsRequestReply`, for
clients that wait for each reply (`MaxInFlight = 1`, the hypothesis of both; run
Pipeline shows that it is needed) and any number of connections and requests. The
invariant follows the one request a client has on its way: it is in one place
only (`OnePlace`: the inbox, the buffer the reader fills, `req_chan`, or before
the handler), what that place holds is what was asked last (`PendingIsLatest`),
and from `Dispatch` to `SendReply` the reply carries its header
(`ReplyIsLatest`). `Counts` is the order of the three histories: `asked` is at
most one ahead of `answers`, with `served` between them. `ImplementsRequestReply`
says that every step of `GameServer` is, through the mapping of
`GameServerAnswers`, a step of `RequestReply` or none.

**GameClientProofs**: all invariants of run Client and `AccountKept`, for any girls,
prices, timeouts, documents, connections, requests and purchases. First each step
of the client is reduced to what it does to the scene and the delegate (`Restarts`,
`Asks`, `Leaves`, `Stays`, `Sells` and the callbacks; lemmas `...Shape`), and a
step of the server to what it read (`ReadAs`), whom it answered (`ByUser`,
`ByStranger`, `Failed`) and what was counted. Then, layer by layer:

* `Base` has the types and four facts. `Numbered`: requests and answers are
  numbered in order, and none above the delegate's last. `Targeted`: the
  delegate's target is the running scene as long as that is there.
  `StartLine`: while the start scene is waiting, the login is the only thing
  under way and the timer outlasts the timeout; it gives `StartSettles`.
  `Accounts`: one account per device and per connection (`Own`), and no request on
  a connection left names an account that does not exist (`OldUids`); it gives
  `AccountKept`. The types include those of `old`.
* `ServeOld` is reduced to one connection and one reading of its requests
  (`DriftShape`, `Drifts`): it writes a document and counts a credit, and leaves
  all that the client and its session see alone.
* `Lefts`: connections left are numbered apart from each other and from the present
  one, and the requests on each are in order (`Rising`).
* `Paid` is `AskedFor`, that while a stage is waited for the newest request is
  StartPlay for that stage, and `Covered`, the three inequalities with one more
  on the left as long as an entry (`Ticket`) or an item (`ItemTicket`) is on its
  way: the server counts the charge when it sends the answer, the client the entry
  when it acts on it. Without the ticket nothing would say that an answer is
  entered on only once.
* `Purchases`: a purchase is in the queue (`pending`), announced and not read yet
  (`Unread`, here or on a connection left, each announcement named by its
  connection and number, so that by `Lefts` none is counted twice), or credited.
  The sum never exceeds what was bought and the two excuses: each moves on, none is
  doubled.
* `Agreed`: the last answer under way is to the newest request and tells the
  session's document; when nothing is under way the client has it.
* `Passed`: every stage the client counts on its session has, or is about to be told
  of in a request it will accept (`WillReach`), an answer under way tells of no
  stage the server lacks (`AnswersBehind`), and a stage played is one it has
  (`Reached`). It uses that no handler takes a player back (`ServeStage`).

The server the client proofs are about is the one of `GameClient`, which reads
requests over each other and fails as it likes. Assumptions: `ClientAssumption`
and those of `UserRecord`.

**UserRecordProofs** has no theorem of its own: what each operator on a document
returns, keeps and bounds, for `GameServerProofs`, `GameServerSaveProofs` and
`GameClientProofs`.

Only model-checked: liveness (`EveryRequestAnswered` as far as it is fairness,
`AbandonedSessionEnds`, `CallbackEnds`, `ReaderEnds`, `StartEnds`, `ShuffleEnds`,
`BarRunsDown`, `RequestsSettle`), which needs `ENABLED` or a measure by induction
and is out of the prover's reach. Every invariant and every action property of a
passing run has its theorem.

## 11. Plan

Done: 1. `UserRecord`, `GameServer`, with its theorems; 2. `RequestReply` and the
refinement, its steps as a theorem; 3. `GameClient`, with the stage of an entry
against the stage that was charged, and its theorems; 4. `CardGame`, 5. `EventBar`
and 6. `DogServer`, each with its theorems.

Next, in this order:

1. `GameClient` composed with the session of `GameServer` in place of the
   sequential server, for one connection, against an abstract account of hearts;
   then the theorem that each step of the account is one of a charge, a credit or
   none.
2. A bound on `moved_card_nums_` in `CardGameProofs`: it exceeds the cards that
   move by no more than the cards a replay cut off.
