------------------------------- MODULE EventBar -------------------------------
(* The event scene while it is on: the buttons that start and stop an event, *)
(* the star that is dragged over the field of the event, and the timer that  *)
(* shows the progress bar and lets it run down.  Buying an event is          *)
(* GameClient's subject; here its answer raises the lock.                    *)
EXTENDS Integers

CONSTANTS
  Buttons,             \* the BtnEvent<i> of the scene, 1..4 in the code
  Garments,            \* Shirt, Panty, Stock1, Stock2 in the code
  FirstLock,           \* EventLock when the scene is entered
  FingerPL, FingerPI,  \* event_<stage>_finger of static_data.json, by event
  StepPL, StepPI       \* event_step of static_data.json

Events == 0..3
Steps  == 0..2

ASSUME BarAssumption ==
  /\ Buttons \subseteq 1..4 /\ FirstLock \in 1..4
  /\ FingerPL \in [Events -> 0..100] /\ FingerPI \in [Events -> Nat]
  /\ StepPL \in [Steps -> 1..100] /\ StepPI \in [Steps -> Nat]
  /\ \A e \in Events, s \in Steps : FingerPL[e] + StepPL[s] <= 100

VARIABLES
  distence,     \* distence_
  event_state,  \* event_state_: the event that runs, or -1
  finger_idx,   \* finger_idx_: the button pressed last
  action,       \* girl_action_runing_, which is also the face drawn, or -1
  bar,          \* ImageBarGround, ImageBar, ImgGirlFace, LoadingBar: visible
  timer,        \* UpdateUI is scheduled
  drag,         \* a touch that began on BtnStarField goes on
  panel,        \* PanelShop is visible
  lock,         \* EventLock of the stage
  taken,        \* garments whose image is hidden: <garment>_state_ is 1
  sound         \* history: the sound file played for action, or -1

vars == <<distence, event_state, finger_idx, action, bar, timer, drag, panel,
          lock, taken, sound>>

-----------------------------------------------------------------------------
(* static_config.cpp, with its answers for an index out of range.            *)

GetEventPLOf3(s, e) ==                                          \* a mutant
  IF s \in Steps /\ e \in 0..2 THEN FingerPL[e] + StepPL[s] ELSE 0
GetEventPL(s, e) ==
  IF s \in Steps /\ e \in Events THEN FingerPL[e] + StepPL[s] ELSE 0

GetEventPIUnchecked(s, e) == FingerPI[IF e < 0 THEN 0 ELSE e] + StepPI[s] \* a mutant
GetEventPI(s, e) ==
  IF s \in Steps /\ e \in Events THEN FingerPI[e] + StepPI[s] ELSE 0

GetEventStep ==
  IF distence < 0 THEN -1
  ELSE IF distence < 5000 THEN 0 ELSE IF distence < 8000 THEN 1 ELSE 2

-----------------------------------------------------------------------------
Init ==
  /\ distence = 0 /\ event_state = -1 /\ finger_idx = 0 /\ action = -1
  /\ bar = FALSE /\ timer = FALSE /\ drag = FALSE /\ panel = FALSE
  /\ lock = FirstLock /\ taken = {} /\ sound = -1

(* Every event of a touch but its begin comes here, the moves included.      *)
onBtnEventLocked(i) ==
  /\ i > lock
  /\ panel' = TRUE
  /\ UNCHANGED <<distence, event_state, finger_idx, action, bar, timer, drag,
                 lock, taken, sound>>

Toggled(i) == IF event_state = i - 1 THEN -1 ELSE i - 1

onBtnEventKeepsAction(i) ==                                     \* a mutant
  /\ i <= lock
  /\ finger_idx' = i
  /\ event_state' = Toggled(i)
  /\ bar' = FALSE /\ distence' = 0
  /\ timer' = (event_state' >= 0)
  /\ UNCHANGED <<drag, panel, lock, taken, action, sound>>
onBtnEvent(i) ==
  /\ i <= lock
  /\ finger_idx' = i
  /\ event_state' = Toggled(i)
  /\ bar' = FALSE /\ distence' = 0 /\ action' = -1 /\ sound' = -1
  /\ timer' = (event_state' >= 0)
  /\ UNCHANGED <<drag, panel, lock, taken>>

(* The field is on the screen while an event runs; a touch that began on it  *)
(* may go on when another finger has stopped the event.                      *)
onBtnStarField ==
  /\ drag \/ event_state >= 0
  /\ drag' = ~drag
  /\ UNCHANGED <<distence, event_state, finger_idx, action, bar, timer, panel,
                 lock, taken, sound>>

Filled(d) == IF d > 10000 THEN 11000 ELSE d
FilledOnlyAtEnd(d) == IF d = 10000 THEN 11000 ELSE d            \* a mutant

onBtnMoveStarUncapped ==                                        \* a mutant
  /\ drag
  /\ distence' = FilledOnlyAtEnd(distence + GetEventPI(GetEventStep, event_state))
  /\ UNCHANGED <<event_state, finger_idx, action, bar, timer, drag, panel, lock,
                 taken, sound>>
onBtnMoveStar ==
  /\ drag
  /\ distence' = IF distence > 10000
                 THEN 10000 + 10 * GetEventPL(GetEventStep, event_state)
                 ELSE Filled(distence + GetEventPI(GetEventStep, event_state))
  /\ UNCHANGED <<event_state, finger_idx, action, bar, timer, drag, panel, lock,
                 taken, sound>>

(* ShowLoadingBar: with nothing to show the face stops and the bar goes;     *)
(* with a new step its face and its sound are started.                       *)
SoundOf(step) == IF step # 2 THEN 0 ELSE finger_idx
ShowLoadingBar ==
  \/ /\ distence <= 0
     /\ action' = -1 /\ bar' = FALSE /\ sound' = -1
  \/ /\ distence > 0
     /\ bar' = TRUE
     /\ action' = GetEventStep
     /\ sound' = IF action = GetEventStep THEN sound ELSE SoundOf(GetEventStep)

Lessened(d) == IF d < 0 THEN 0 ELSE d

UpdateUI ==
  /\ timer /\ distence >= 0
  /\ ShowLoadingBar
  /\ distence' = Lessened(distence - GetEventPL(GetEventStep, event_state))
  /\ UNCHANGED <<event_state, finger_idx, timer, drag, panel, lock, taken>>

onBtnNo ==
  /\ panel /\ panel' = FALSE
  /\ UNCHANGED <<distence, event_state, finger_idx, action, bar, timer, drag,
                 lock, taken, sound>>

(* CARecvDone, after BtnYes has bought the next event.                       *)
CARecvDone ==
  /\ lock < 4 /\ lock' = lock + 1 /\ panel' = FALSE
  /\ UNCHANGED <<distence, event_state, finger_idx, action, bar, timer, drag,
                 taken, sound>>

(* onBtnShirt and its three likes, of which a move also is an event.         *)
onBtnGarment(g) ==
  /\ taken' = IF g \in taken THEN taken \ {g} ELSE taken \cup {g}
  /\ UNCHANGED <<distence, event_state, finger_idx, action, bar, timer, drag,
                 panel, lock, sound>>

Next ==
  \/ onBtnStarField \/ onBtnMoveStar \/ UpdateUI \/ onBtnNo \/ CARecvDone
  \/ \E i \in Buttons : onBtnEventLocked(i) \/ onBtnEvent(i)
  \/ \E g \in Garments : onBtnGarment(g)

(* The scheduler calls the timer; the player owes nothing.                   *)
Spec == Init /\ [][Next]_vars
FairSpec == Spec /\ WF_vars(UpdateUI)

-----------------------------------------------------------------------------
(* The progress stays where the bar can show it: a full bar is worth at most *)
(* a tenth more, however long the star is dragged.                           *)
TypeOK ==
  /\ distence \in 0..11000
  /\ event_state \in {-1} \cup Events /\ finger_idx \in 0..4
  /\ action \in {-1} \cup Steps /\ sound \in -1..4
  /\ bar \in BOOLEAN /\ timer \in BOOLEAN /\ drag \in BOOLEAN /\ panel \in BOOLEAN
  /\ lock \in 1..4
  /\ taken \subseteq Garments

(* With no event on, nothing shows, nothing plays and nothing fills, also    *)
(* while the finger that was on the field when it ended goes on moving.      *)
IdleIsQuiet ==
  event_state = -1 => distence = 0 /\ action = -1 /\ ~bar /\ ~timer

(* The face and the bar come and go together, and what was heard for the     *)
(* face is its own: the start sound, or at the top the sound of the event    *)
(* that runs, although the sound is chosen by the button pressed last and    *)
(* the event may have been changed since the last tick.                      *)
FaceHasItsSound ==
  /\ bar <=> action # -1
  /\ action # -1 => sound = IF action = 2 THEN event_state + 1 ELSE 0

(* If the star is left alone from some time on, the bar runs down and goes.  *)
BarRunsDown == <>[](~drag) => <>[](~bar)
=============================================================================
