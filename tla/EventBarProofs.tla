---------------------------- MODULE EventBarProofs ----------------------------
(* Theorems about EventBar, for any tables within BarAssumption, any buttons *)
(* and any garments.                                                         *)
EXTENDS EventBar, TLAPS

(* What the properties rest on: an event that runs is the one of the button  *)
(* pressed last, and the timer is on exactly while one runs.                 *)
Runs ==
  /\ event_state >= 0 => finger_idx = event_state + 1
  /\ timer <=> event_state >= 0

IInv == TypeOK /\ Runs /\ IdleIsQuiet /\ FaceHasItsSound

-----------------------------------------------------------------------------
(* What the tables answer.                                                   *)

LEMMA StepType == ASSUME TypeOK PROVE GetEventStep \in Steps
BY DEF TypeOK, GetEventStep, Steps

LEMMA LessenType == \A s, e : GetEventPL(s, e) \in 0..100
<1> TAKE s, e
<1>1. CASE s \in Steps /\ e \in Events
  <2>1. FingerPL[e] \in 0..100 /\ StepPL[s] \in 1..100 /\ FingerPL[e] + StepPL[s] <= 100
    BY <1>1, BarAssumption
  <2> QED BY <1>1, <2>1 DEF GetEventPL
<1>2. CASE ~(s \in Steps /\ e \in Events)
  BY <1>2 DEF GetEventPL
<1> QED BY <1>1, <1>2

LEMMA IncreaseType ==
  \A s, e : GetEventPI(s, e) \in Nat /\ (e \notin Events => GetEventPI(s, e) = 0)
<1> TAKE s, e
<1>1. CASE s \in Steps /\ e \in Events
  <2>1. FingerPI[e] \in Nat /\ StepPI[s] \in Nat
    BY <1>1, BarAssumption
  <2> QED BY <1>1, <2>1 DEF GetEventPI
<1>2. CASE ~(s \in Steps /\ e \in Events)
  BY <1>2 DEF GetEventPI
<1> QED BY <1>1, <1>2

-----------------------------------------------------------------------------
(* The steps that change the progress.                                       *)

LEMMA MoveStep == ASSUME IInv, onBtnMoveStar PROVE IInv'
<1> DEFINE up == GetEventPI(GetEventStep, event_state)
           pl == GetEventPL(GetEventStep, event_state)
<1>1. up \in Nat /\ (event_state = -1 => up = 0)
  BY IncreaseType DEF Events
<1>2. pl \in 0..100
  BY LessenType
<1> HIDE DEF up, pl
<1>3. distence' = IF distence > 10000 THEN 10000 + 10 * pl ELSE Filled(distence + up)
  BY DEF onBtnMoveStar, up, pl
<1>4. distence \in 0..11000 /\ (event_state = -1 => distence = 0)
  BY DEF IInv, TypeOK, IdleIsQuiet
<1>5. distence' \in 0..11000 /\ (event_state = -1 => distence' = 0)
  BY <1>1, <1>2, <1>3, <1>4 DEF Filled
<1>6. UNCHANGED <<event_state, finger_idx, action, bar, timer, drag, panel, lock,
                  taken, sound>>
  BY DEF onBtnMoveStar
<1> QED BY <1>5, <1>6 DEF IInv, TypeOK, Runs, IdleIsQuiet, FaceHasItsSound

LEMMA TickStep == ASSUME IInv, UpdateUI PROVE IInv'
<1> DEFINE step == GetEventStep
           pl == GetEventPL(GetEventStep, event_state)
<1>1. step \in Steps
  BY StepType DEF IInv
<1>2. pl \in 0..100
  BY LessenType
<1>3. event_state \in Events /\ finger_idx = event_state + 1
  BY DEF IInv, Runs, TypeOK, UpdateUI, Events
<1> HIDE DEF step, pl
<1>4. distence' \in 0..11000
  <2>1. distence' = Lessened(distence - pl)
    BY DEF UpdateUI, pl
  <2>2. distence \in 0..11000
    BY DEF IInv, TypeOK
  <2>3. distence - pl \in Int /\ distence - pl <= 11000
    BY <1>2, <2>2
  <2>4. CASE distence - pl < 0
    BY <2>1, <2>4 DEF Lessened
  <2>5. CASE ~(distence - pl < 0)
    <3>1. distence' = distence - pl
      BY <2>1, <2>5 DEF Lessened
    <3>2. distence - pl \in 0..11000
      BY <1>2, <2>2, <2>5
    <3> QED BY <3>1, <3>2
  <2> QED BY <2>4, <2>5
<1>5. UNCHANGED <<event_state, finger_idx, timer, drag, panel, lock, taken>>
  BY DEF UpdateUI
<1>6. CASE distence <= 0
  <2>1. action' = -1 /\ bar' = FALSE /\ sound' = -1
    BY <1>6 DEF UpdateUI, ShowLoadingBar, IInv, TypeOK
  <2>2. TypeOK'
    <3>1. bar' \in BOOLEAN BY <2>1, Zenon
    <3> QED BY <1>4, <1>5, <2>1, <3>1 DEF IInv, TypeOK
  <2>3. Runs' /\ IdleIsQuiet' /\ FaceHasItsSound'
    BY <1>3, <1>4, <1>5, <2>1 DEF IInv, Runs, IdleIsQuiet, FaceHasItsSound, Events
  <2> QED BY <2>2, <2>3 DEF IInv
<1>7. CASE distence > 0
  <2>1. /\ bar' = TRUE /\ action' = step
        /\ sound' = IF action = step THEN sound ELSE SoundOf(step)
    BY <1>7 DEF UpdateUI, ShowLoadingBar, step, IInv, TypeOK
  <2>2. sound' = IF step = 2 THEN event_state + 1 ELSE 0
    BY <1>1, <1>3, <2>1 DEF SoundOf, IInv, FaceHasItsSound, Steps
  <2> QED BY <1>1, <1>3, <1>4, <1>5, <2>1, <2>2
        DEF IInv, TypeOK, Runs, IdleIsQuiet, FaceHasItsSound, Events, Steps
<1> QED BY <1>6, <1>7 DEF IInv, TypeOK

LEMMA ButtonStep ==
  ASSUME IInv, NEW i \in Buttons, onBtnEvent(i) PROVE IInv'
<1>1. i \in 1..4
  BY BarAssumption
<1>2. event_state' \in {-1, i - 1} /\ finger_idx' = i
  BY DEF onBtnEvent, Toggled
<1>3. bar' = FALSE /\ distence' = 0 /\ action' = -1 /\ sound' = -1
  BY DEF onBtnEvent
<1>4. timer' \in BOOLEAN
  BY DEF onBtnEvent
<1>10. timer' <=> event_state' >= 0
  BY DEF onBtnEvent
<1>5. UNCHANGED <<drag, panel, lock, taken>>
  BY DEF onBtnEvent
<1>6. bar' \in BOOLEAN
  BY <1>3, Zenon
<1>7. TypeOK'
  BY <1>1, <1>2, <1>3, <1>4, <1>5, <1>6 DEF IInv, TypeOK, Events
<1>8. Runs' /\ IdleIsQuiet'
  <2>1. CASE event_state' = -1
    BY <1>3, <1>10, <2>1 DEF Runs, IdleIsQuiet
  <2>2. CASE event_state' = i - 1
    <3>1. event_state' >= 0 /\ event_state' # -1 /\ finger_idx' = event_state' + 1
      BY <1>1, <1>2, <2>2
    <3> QED BY <1>10, <3>1 DEF Runs, IdleIsQuiet
  <2> QED BY <1>2, <2>1, <2>2
<1>9. FaceHasItsSound'
  BY <1>3 DEF FaceHasItsSound
<1> QED BY <1>7, <1>8, <1>9 DEF IInv

LEMMA BarInit == Init => IInv
<1> SUFFICES ASSUME Init PROVE IInv
  OBVIOUS
<1>1. TypeOK
  <2>1. bar \in BOOLEAN /\ timer \in BOOLEAN /\ drag \in BOOLEAN /\ panel \in BOOLEAN
    BY Zenon DEF Init
  <2>2. /\ distence \in 0..11000 /\ event_state \in {-1} \cup Events
        /\ finger_idx \in 0..4 /\ action \in {-1} \cup Steps /\ sound \in -1..4
        /\ lock \in 1..4 /\ taken \subseteq Garments
    BY BarAssumption DEF Init
  <2> QED BY <2>1, <2>2 DEF TypeOK
<1>2. Runs
  BY DEF Init, Runs
<1>3. IdleIsQuiet /\ FaceHasItsSound
  BY DEF Init, IdleIsQuiet, FaceHasItsSound
<1> QED BY <1>1, <1>2, <1>3 DEF IInv

LEMMA BarStep == IInv /\ [Next]_vars => IInv'
<1> SUFFICES ASSUME IInv, [Next]_vars PROVE IInv'
  OBVIOUS
<1>1. CASE onBtnStarField BY <1>1 DEF onBtnStarField, IInv, TypeOK, Runs, IdleIsQuiet, FaceHasItsSound
<1>2. CASE onBtnMoveStar BY <1>2, MoveStep
<1>3. CASE UpdateUI BY <1>3, TickStep
<1>4. CASE onBtnNo
  <2>1. panel' \in BOOLEAN BY <1>4, Zenon DEF onBtnNo
  <2>2. UNCHANGED <<distence, event_state, finger_idx, action, bar, timer, drag,
                    lock, taken, sound>>
    BY <1>4 DEF onBtnNo
  <2> QED BY <2>1, <2>2 DEF IInv, TypeOK, Runs, IdleIsQuiet, FaceHasItsSound
<1>5. CASE CARecvDone
  <2>1. panel' \in BOOLEAN BY <1>5, Zenon DEF CARecvDone
  <2>2. lock' \in 1..4 BY <1>5 DEF CARecvDone, IInv, TypeOK
  <2>3. UNCHANGED <<distence, event_state, finger_idx, action, bar, timer, drag,
                    taken, sound>>
    BY <1>5 DEF CARecvDone
  <2> QED BY <2>1, <2>2, <2>3 DEF IInv, TypeOK, Runs, IdleIsQuiet, FaceHasItsSound
<1>6. ASSUME NEW i \in Buttons, onBtnEventLocked(i) PROVE IInv'
  BY <1>6 DEF onBtnEventLocked, IInv, TypeOK, Runs, IdleIsQuiet, FaceHasItsSound
<1>9. ASSUME NEW i \in Buttons, onBtnEvent(i) PROVE IInv'
  BY <1>9, ButtonStep
<1>7. ASSUME NEW g \in Garments, onBtnGarment(g) PROVE IInv'
  BY <1>7 DEF onBtnGarment, IInv, TypeOK, Runs, IdleIsQuiet, FaceHasItsSound
<1>8. CASE UNCHANGED vars BY <1>8 DEF vars, IInv, TypeOK, Runs, IdleIsQuiet, FaceHasItsSound
<1> QED BY <1>1, <1>2, <1>3, <1>4, <1>5, <1>6, <1>7, <1>8, <1>9 DEF Next

LEMMA BarInvariant == Spec => []IInv
BY BarInit, BarStep, PTL DEF Spec

(* The progress never leaves what the bar can show, whatever the tables say  *)
(* within BarAssumption and however the star is dragged.                     *)
THEOREM BarTypeCorrect == Spec => []TypeOK
<1>1. IInv => TypeOK BY DEF IInv
<1> QED BY <1>1, BarInvariant, PTL

(* With no event on, nothing shows, plays or fills.                          *)
THEOREM IdleIsQuietAlways == Spec => []IdleIsQuiet
<1>1. IInv => IdleIsQuiet BY DEF IInv
<1> QED BY <1>1, BarInvariant, PTL

(* The face that shows has been given the sound of the event that runs.      *)
THEOREM FaceHasItsSoundAlways == Spec => []FaceHasItsSound
<1>1. IInv => FaceHasItsSound BY DEF IInv
<1> QED BY <1>1, BarInvariant, PTL
=============================================================================
