------------------------------- MODULE CardGame -------------------------------
(* The game of one stage: CardMgr, which deals, shuffles and counts the      *)
(* cards, and the part of PlayScene around it: the result panel, the         *)
(* garments, and the items, whose answers come from the server at any time,  *)
(* late or not at all (the requests themselves are GameClient's subject).    *)
(*                                                                           *)
(* Every animation is an action that ends some time after it was started;    *)
(* its callback runs on the UI thread as the touches and the timer do.       *)
EXTENDS Integers, FiniteSets

CONSTANTS
  Cards,       \* the card_count_ cards of the stage, by their tags
  PlayCounts,  \* play_count_: the shuffles of each sub stage, and one more
  MaxAsks      \* bound: requests sent

SubStages == 0..3

ASSUME CardAssumption ==
  /\ IsFiniteSet(Cards) /\ Cardinality(Cards) >= 2
  /\ PlayCounts \in [SubStages -> Nat]
  /\ MaxAsks \in Nat

VARIABLES
  mgr,    \* CardMgr's members
  table,  \* the sprites of the cards and the animations they run
  ui,     \* PanelSecond, the item buttons, BtnStartPlay, garments, PopWin
  play,   \* PlayScene's sub_win_, sub_stage_id_, all_finish_ and be_back_
  net,    \* the newest request, MyDelegate's flag, cmd_, property_state_
  app,    \* "on", "left" for another scene, "frozen" in ShowWrongCard
  past    \* history: sub stages won, items asked in a hurry, answered late

vars == <<mgr, table, ui, play, net, app, past>>

CmdOf == [end |-> 3, finger |-> 6, replay |-> 6]

-----------------------------------------------------------------------------
(* Tables.  What lies behind play_count_[3] is not for the game to read.     *)
PlayCount(i) == IF i \in SubStages THEN PlayCounts[i] ELSE 1

(* A line of card_lines_ against the one before: which card takes whose      *)
(* place.  MakeLinesData shuffles until the line is a new one.               *)
Orders == {p \in [Cards -> Cards] : \A i, j \in Cards : p[i] = p[j] => i = j}
MakeLinesOnce == Orders                                         \* a mutant
MakeLinesData == {p \in Orders : \E i \in Cards : p[i] # i}

Dealt == [begin |-> TRUE, moving |-> {}, touchable |-> FALSE, hidden |-> {},
          blinks |-> [c \in Cards |-> 0]]

Init ==
  /\ \E c \in Cards :
       mgr = [sub |-> 0, pc |-> 0, rows |-> 0, moved |-> 0, bingo |-> c,
              wrong |-> c, times |-> 0]
  /\ table = [Dealt EXCEPT !.begin = FALSE]
  /\ ui = [panel |-> "none", props |-> FALSE, start |-> TRUE, loose |-> {},
           off |-> {}, pop |-> FALSE]
  /\ play = [subwin |-> FALSE, subid |-> 0, allfin |-> FALSE, back |-> FALSE]
  /\ \E garbage \in {0, 3, 6} :
       net = [asked |-> "none", flag |-> FALSE, poll |-> FALSE, cmd |-> garbage,
              prop |-> "none", sent |-> 0]
  /\ app = "on"
  /\ past = [won |-> {}, hurried |-> FALSE, late |-> FALSE]

-----------------------------------------------------------------------------
(* CardMgr.                                                                  *)

(* New sprites for all cards: the old ones take their animations with them.  *)
(* moved_card_nums_ and play_count_ stay as they are.                        *)
StartSubStage(m, u) ==
  /\ \E b \in Cards :
       mgr' = [m EXCEPT !.bingo = b, !.rows = PlayCount(m.sub) + 1]
  /\ table' = Dealt
  /\ ui' = [u EXCEPT !.panel = "start"]

ReStartKeepsSub(m) == [m EXCEPT !.pc = 0]                       \* a mutant
ReStartSubStage(m) == [m EXCEPT !.sub = @ - 1, !.pc = 0]

RunActionByPlayCount(m, t, u) ==
  \/ /\ m.pc >= PlayCount(m.sub) - 1
     /\ mgr' = [m EXCEPT !.sub = @ + 1, !.pc = 0]
     /\ table' = [t EXCEPT !.touchable = TRUE]
     /\ ui' = [u EXCEPT !.props = TRUE]
  \/ /\ m.pc < PlayCount(m.sub) - 1
     /\ \E p \in MakeLinesData :
          LET moves == {i \in Cards : p[i] # i}
          IN /\ mgr' = [m EXCEPT !.moved = @ + Cardinality(moves), !.pc = @ + 1]
             /\ table' = [t EXCEPT !.moving = @ \cup moves]
     /\ ui' = u

BeginActionEnd ==
  /\ table.begin
  /\ RunActionByPlayCount(mgr, [table EXCEPT !.begin = FALSE],
                          [ui EXCEPT !.panel = "none"])
  /\ UNCHANGED <<play, net, app, past>>

MoveEnd ==
  /\ \E c \in table.moving :
       LET m == [mgr EXCEPT !.moved = @ - 1]
           t == [table EXCEPT !.moving = @ \ {c}]
       IN \/ m.moved = 0 /\ RunActionByPlayCount([m EXCEPT !.times = 0], t, ui)
          \/ m.moved # 0 /\ mgr' = m /\ table' = t /\ UNCHANGED ui
  /\ UNCHANGED <<play, net, app, past>>

(* A card that blinks may be found invisible as well as visible; when all    *)
(* the wrong ones are found invisible, the loop never ends.                  *)
WrongCards == Cards \ {mgr.bingo}
ShowWrongCard ==
  \/ /\ \E w \in WrongCards \ table.hidden :
          /\ mgr' = [mgr EXCEPT !.wrong = w, !.times = @ + 1]
          /\ table' = [table EXCEPT !.blinks[w] = @ + 1]
     /\ UNCHANGED app
  \/ /\ \A w \in WrongCards : w \in table.hidden \/ table.blinks[w] > 0
     /\ app' = "frozen"
     /\ UNCHANGED <<mgr, table>>

BlinkEndKeepsItems ==                                           \* a mutant
  /\ \E c \in Cards :
       /\ table.blinks[c] > 0
       /\ \E seen \in {table.hidden \cup {c}, table.hidden \ {c}} :
            table' = [table EXCEPT !.blinks[c] = @ - 1,
                                   !.hidden = seen \cup {mgr.wrong}]
  /\ UNCHANGED <<mgr, ui, play, net, app, past>>
(* The card that blinked is left visible or not, as the last frame had it;   *)
(* the one that is hidden is wrong_idx_.                                     *)
BlinkEnd ==
  /\ \E c \in Cards :
       /\ table.blinks[c] > 0
       /\ \E seen \in {table.hidden \cup {c}, table.hidden \ {c}} :
            table' = [table EXCEPT !.blinks[c] = @ - 1,
                                   !.hidden = seen \cup {mgr.wrong}]
  /\ ui' = IF mgr.times + 1 >= Cardinality(Cards) THEN [ui EXCEPT !.props = FALSE]
                                                  ELSE ui
  /\ UNCHANGED <<mgr, play, net, app, past>>

-----------------------------------------------------------------------------
(* PlayScene.                                                                *)

(* PanelSecond covers the screen while it shows a result.                    *)
Uncovered == ui.panel \notin {"win", "lose"}

Send(what) ==
  /\ net.sent < MaxAsks
  /\ net' = [net EXCEPT !.asked = what, !.flag = FALSE, !.poll = TRUE,
                        !.prop = IF what = "end" THEN @ ELSE what, !.sent = @ + 1]

(* A touch of the card c: OnTouch and SubStageEnd.                           *)
OnTouchStaysTouchable(c) ==                                     \* a mutant
  LET all == mgr.sub >= 4  win == c = mgr.bingo
  IN /\ table.touchable
     /\ UNCHANGED table
     /\ play' = [play EXCEPT !.subwin = win, !.subid = mgr.sub - 1, !.allfin = all]
     /\ ui' = [ui EXCEPT !.props = FALSE, !.panel = IF win THEN "win" ELSE "lose"]
     /\ IF all /\ win THEN Send("end") ELSE UNCHANGED net
     /\ past' = IF win THEN [past EXCEPT !.won = @ \cup {mgr.sub - 1}] ELSE past
     /\ UNCHANGED <<mgr, app>>
OnTouch(c) ==
  LET all == mgr.sub >= 4  win == c = mgr.bingo
  IN /\ table.touchable
     /\ table' = [table EXCEPT !.touchable = FALSE]
     /\ play' = [play EXCEPT !.subwin = win, !.subid = mgr.sub - 1, !.allfin = all]
     /\ ui' = [ui EXCEPT !.props = FALSE, !.panel = IF win THEN "win" ELSE "lose"]
     /\ IF all /\ win THEN Send("end") ELSE UNCHANGED net
     /\ past' = IF win THEN [past EXCEPT !.won = @ \cup {mgr.sub - 1}] ELSE past
     /\ UNCHANGED <<mgr, app>>

(* The player takes note of the result: TakeOff, or back to the selection.   *)
onPanelSecond ==
  /\ ~Uncovered
  /\ ui' = [ui EXCEPT !.panel = "none",
                      !.loose = IF play.subwin THEN @ \cup {play.subid} ELSE @]
  /\ app' = IF play.subwin THEN app ELSE "left"
  /\ UNCHANGED <<mgr, table, play, net, past>>

onBtnClothesAlways ==                                           \* a mutant
  /\ Uncovered /\ ui.loose \ ui.off # {}
  /\ ui' = [ui EXCEPT !.off = @ \cup {play.subid}, !.start = TRUE]
  /\ UNCHANGED <<mgr, table, play, net, app, past>>
(* A garment is dragged away.                                                *)
onBtnClothes ==
  /\ Uncovered /\ ui.loose \ ui.off # {}
  /\ ui' = [ui EXCEPT !.off = @ \cup {play.subid},
                      !.start = @ \/ ~play.allfin, !.pop = @ \/ play.allfin]
  /\ UNCHANGED <<mgr, table, play, net, app, past>>

onBtnStartPlay ==
  /\ Uncovered /\ ui.start
  /\ \/ /\ StartSubStage(mgr, [ui EXCEPT !.start = FALSE])
        /\ UNCHANGED app
     \/ app' = "left" /\ UNCHANGED <<mgr, table, ui>>
  /\ UNCHANGED <<play, net, past>>

(* That an item is in use is logged, and no more.                            *)
UseItem(what) ==
  /\ Uncovered /\ ui.props
  /\ Send(what)
  /\ past' = [past EXCEPT !.hurried =
                @ \/ net.prop # "none" \/ \E c \in Cards : table.blinks[c] > 0]
  /\ UNCHANGED <<mgr, table, ui, play, app>>
onUseFinger == UseItem("finger")
onUseReplay == UseItem("replay")

onBtnBack ==
  /\ Uncovered /\ app' = "left" /\ UNCHANGED <<mgr, table, ui, play, net, past>>
onPopBack ==
  /\ ui.pop /\ play.back
  /\ app' = "left" /\ UNCHANGED <<mgr, table, ui, play, net, past>>

-----------------------------------------------------------------------------
(* The answer, the timer that looks for it, and what it does.                *)

CARecv ==
  /\ net.asked # "none"
  /\ \E ok \in BOOLEAN :
       net' = [net EXCEPT !.asked = "none", !.flag = TRUE,
                          !.cmd = IF ok THEN CmdOf[net.asked] ELSE @]
  /\ UNCHANGED <<mgr, table, ui, play, app, past>>

CARecvTimeout ==
  /\ net.poll /\ ~net.flag
  /\ net' = [net EXCEPT !.poll = FALSE]
  /\ UNCHANGED <<mgr, table, ui, play, app, past>>

(* A refused request leaves cmd_ as the one before it had it.                *)
CARecvDone ==
  /\ net.poll /\ net.flag
  /\ net' = [net EXCEPT !.poll = FALSE, !.prop = IF net.cmd = 6 THEN "none" ELSE @]
  /\ past' = [past EXCEPT !.late = @ \/ (net.cmd = 6 /\ ~table.touchable)]
  /\ \/ /\ net.cmd = 3
        /\ play' = [play EXCEPT !.back = TRUE]
        /\ UNCHANGED <<mgr, table, ui, app>>
     \/ /\ net.cmd = 6 /\ net.prop = "finger"
        /\ ShowWrongCard
        /\ UNCHANGED <<ui, play>>
     \/ /\ net.cmd = 6 /\ net.prop # "finger"
        /\ StartSubStage(ReStartSubStage(mgr), [ui EXCEPT !.props = FALSE])
        /\ UNCHANGED <<play, app>>
     \/ /\ net.cmd \notin {3, 6}
        /\ UNCHANGED <<mgr, table, ui, play, app>>

-----------------------------------------------------------------------------
Finished == app # "on" /\ UNCHANGED vars

Next ==
  \/ /\ app = "on"
     /\ \/ BeginActionEnd \/ MoveEnd \/ BlinkEnd
        \/ \E c \in Cards : OnTouch(c)
        \/ onPanelSecond \/ onBtnClothes \/ onBtnStartPlay \/ onBtnBack \/ onPopBack
        \/ onUseFinger \/ onUseReplay
        \/ CARecv \/ CARecvTimeout \/ CARecvDone
  \/ Finished

Spec == Init /\ [][Next]_vars

(* Animations end.                                                           *)
FairSpec ==
  Spec /\ WF_vars(app = "on" /\ BeginActionEnd) /\ WF_vars(app = "on" /\ MoveEnd)

-----------------------------------------------------------------------------
TypeOK ==
  /\ mgr \in [sub : 0..4, pc : Nat, rows : Nat, moved : Nat, bingo : Cards,
              wrong : Cards, times : Nat]
  /\ table \in [begin : BOOLEAN, moving : SUBSET Cards, touchable : BOOLEAN,
                hidden : SUBSET Cards, blinks : [Cards -> Nat]]
  /\ ui \in [panel : {"none", "start", "win", "lose"}, props : BOOLEAN,
             start : BOOLEAN, loose : SUBSET SubStages, off : SUBSET SubStages,
             pop : BOOLEAN]
  /\ play \in [subwin : BOOLEAN, subid : SubStages, allfin : BOOLEAN, back : BOOLEAN]
  /\ net \in [asked : {"none", "end", "finger", "replay"}, flag : BOOLEAN,
              poll : BOOLEAN, cmd : {0, 3, 6}, prop : {"none", "finger", "replay"},
              sent : Nat]
  /\ app \in {"on", "left", "frozen"}
  /\ past \in [won : SUBSET SubStages, hurried : BOOLEAN, late : BOOLEAN]

Running == table.begin \/ table.moving # {}

(* The shuffle of a sub stage reads play_count_[sub_stage_] and the next     *)
(* line of card_lines_ within their bounds, however late an item is answered *)
(* and whenever BtnStartPlay is pressed (card_manager.cpp:112, 140-156).     *)
TablesInRange ==
  Running => mgr.sub \in SubStages /\ mgr.pc < mgr.rows

(* A card can be picked only at rest, before a result is shown: the code     *)
(* crashed otherwise, "reason unknown" (card_manager.cpp:118-131, 243).      *)
TouchOnlyAtRest ==
  table.touchable => ~Running /\ Uncovered /\ mgr.sub > 0

(* The server hears that a stage was passed only of a player who has picked  *)
(* the right card in each of its sub stages: no answer that comes late, and  *)
(* no replay, skips one (card_manager.cpp:163-178, play_scene.cpp:365-382).  *)
EndPlayIsWon == net.asked = "end" => past.won = SubStages

(* The loop of ShowWrongCard ends, but for a player who used an item before  *)
(* the last one had done its work, or whose item was answered after the      *)
(* cards had been picked or dealt again (card_manager.cpp:267-292).          *)
FreezesOnlyIfHurried == app = "frozen" => past.hurried \/ past.late

(* A shuffle whose moves are counted right comes to its end: the cards can   *)
(* be picked (card_manager.cpp:140-156, 181-190, 307-315).                   *)
Counted == mgr.moved = Cardinality(table.moving)
ShuffleEnds ==
  Running /\ Counted /\ app = "on"
    ~> table.touchable \/ ~Counted \/ app # "on"

(* When moved_card_nums_ is zero "this move is over" (card_manager.cpp:310): *)
(* it counts the cards that move.                                            *)
MovesCounted == Counted
=============================================================================
