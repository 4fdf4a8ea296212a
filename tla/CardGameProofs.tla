---------------------------- MODULE CardGameProofs ----------------------------
(* Theorems about CardGame, for any number of cards, any play_count_ and any *)
(* number of requests.                                                       *)
EXTENDS CardGame, FiniteSetTheorems, TLAPS

(* The sub stage the cards are on their way to.                              *)
Reach == IF Running THEN mgr.sub + 1 ELSE mgr.sub
Below(n) == {s \in SubStages : s < n}

(* A garment can be, or is about to be, dragged away, or BtnStartPlay works; *)
(* Open: and the next sub stage may follow.                                  *)
Undressing == ui.start \/ ui.loose \ ui.off # {} \/ ui.panel = "win"
Open == ui.start \/ (~play.allfin /\ (ui.loose \ ui.off # {} \/ ui.panel = "win"))

Moves ==
  /\ Cardinality(table.moving) <= mgr.moved
  /\ table.begin => table.moving = {}
  /\ Running => Uncovered
Lines ==
  /\ mgr.pc = 0 \/ mgr.pc < PlayCount(mgr.sub)
  /\ Running => mgr.rows = PlayCount(mgr.sub) + 1
Order ==
  /\ Reach <= 4
  /\ Below(Reach - 1) \subseteq past.won
  /\ Open => Reach <= 3 /\ Below(Reach) \subseteq past.won
  /\ ui.props \/ net.poll => mgr.sub > 0
Garments ==
  /\ ui.loose \subseteq ui.off \cup {play.subid}
  /\ ui.loose \subseteq past.won
  /\ ui.panel = "win" => play.subwin /\ play.subid \in past.won
  /\ ui.panel = "lose" => ~play.subwin
  /\ ui.start => ui.loose \subseteq ui.off
  /\ ui.start /\ (Running \/ table.touchable \/ net.poll \/ ui.panel = "win")
       => play.subid \in ui.off
Place ==
  Undressing =>
    /\ Running => ~net.poll /\ play.subid = mgr.sub
    /\ table.touchable \/ net.poll => play.subid = mgr.sub - 1
    /\ ui.props => table.touchable

IInv ==
  /\ TypeOK /\ Moves /\ Lines /\ Order /\ Garments /\ Place
  /\ TouchOnlyAtRest /\ EndPlayIsWon

-----------------------------------------------------------------------------
MgrStates == [sub : 0..4, pc : Nat, rows : Nat, moved : Nat, bingo : Cards,
              wrong : Cards, times : Nat]
TableStates == [begin : BOOLEAN, moving : SUBSET Cards, touchable : BOOLEAN,
                hidden : SUBSET Cards, blinks : [Cards -> Nat]]
UiStates == [panel : {"none", "start", "win", "lose"}, props : BOOLEAN,
             start : BOOLEAN, loose : SUBSET SubStages, off : SUBSET SubStages,
             pop : BOOLEAN]
PlayStates == [subwin : BOOLEAN, subid : SubStages, allfin : BOOLEAN, back : BOOLEAN]
NetStates == [asked : {"none", "end", "finger", "replay"}, flag : BOOLEAN,
              poll : BOOLEAN, cmd : {0, 3, 6}, prop : {"none", "finger", "replay"},
              sent : Nat]
PastStates == [won : SUBSET SubStages, hurried : BOOLEAN, late : BOOLEAN]

LEMMA TypeParts ==
  TypeOK <=> /\ mgr \in MgrStates /\ table \in TableStates /\ ui \in UiStates
             /\ play \in PlayStates /\ net \in NetStates /\ past \in PastStates
             /\ app \in {"on", "left", "frozen"}
BY DEF TypeOK, MgrStates, TableStates, UiStates, PlayStates, NetStates, PastStates

LEMMA TypePartsThen ==
  ASSUME mgr' \in MgrStates, table' \in TableStates, ui' \in UiStates,
         play' \in PlayStates, net' \in NetStates, past' \in PastStates,
         app' \in {"on", "left", "frozen"}
  PROVE  TypeOK'
BY DEF TypeOK, MgrStates, TableStates, UiStates, PlayStates, NetStates, PastStates

LEMMA PlayCountType == \A i : PlayCount(i) \in Nat
BY CardAssumption DEF PlayCount

LEMMA SendType ==
  ASSUME net \in NetStates, NEW what \in {"end", "finger", "replay"}, Send(what)
  PROVE  net' \in NetStates /\ net'.asked = what
<1> DEFINE p == IF what = "end" THEN net.prop ELSE what
<1>1. p \in {"none", "finger", "replay"} BY DEF NetStates
<1>2. net' = [net EXCEPT !.asked = what, !.flag = FALSE, !.poll = TRUE,
                         !.prop = p, !.sent = @ + 1]
  BY DEF Send
<1> HIDE DEF p
<1>3. net.sent + 1 \in Nat BY DEF NetStates
<1>4. net' \in NetStates BY <1>1, <1>2, <1>3 DEF NetStates
<1>5. net'.asked = what BY <1>2 DEF NetStates
<1> QED BY <1>4, <1>5

(* Each action keeps the invariant.                                          *)
LEMMA PanelKeeps == ASSUME IInv, onPanelSecond PROVE IInv'
<1> USE DEF onPanelSecond
<1>0. /\ mgr \in MgrStates /\ table \in TableStates /\ ui \in UiStates
      /\ play \in PlayStates /\ net \in NetStates /\ past \in PastStates
      /\ app \in {"on", "left", "frozen"}
  BY TypeParts DEF IInv
<1>a. ui' \in UiStates
  <2>1. CASE play.subwin BY <1>0, <2>1 DEF UiStates, PlayStates
  <2>2. CASE ~play.subwin BY <1>0, <2>2 DEF UiStates
  <2> QED BY <2>1, <2>2
<1>1. TypeOK' BY <1>0, <1>a, TypePartsThen
<1> USE <1>0 DEF IInv, TypeOK
<1>2. Moves' BY DEF Moves, Running, Uncovered
<1>3. Lines' BY DEF Lines, Running, PlayCount
<1>4. Order'
  <2>1. Reach' = Reach /\ (Open' => Open) /\ past' = past
    BY DEF Open, Reach, Running, Uncovered, Garments
  <2> QED BY <2>1 DEF Order, Below
<1>5. Garments' BY DEF Garments, Running, Uncovered
<1>6. Place' BY DEF Place, Undressing, Running, Uncovered, Garments
<1>7. TouchOnlyAtRest' BY DEF TouchOnlyAtRest, Running, Uncovered
<1>8. EndPlayIsWon' BY DEF EndPlayIsWon
<1> QED BY <1>1, <1>2, <1>3, <1>4, <1>5, <1>6, <1>7, <1>8

LEMMA TouchKeeps == ASSUME IInv, NEW c \in Cards, OnTouch(c) PROVE IInv'
<1> USE DEF OnTouch
<1>0. /\ mgr \in MgrStates /\ table \in TableStates /\ ui \in UiStates
      /\ play \in PlayStates /\ net \in NetStates /\ past \in PastStates
      /\ app \in {"on", "left", "frozen"}
  BY TypeParts DEF IInv
<1>s. mgr.sub - 1 \in SubStages
  BY <1>0 DEF IInv, TouchOnlyAtRest, SubStages, MgrStates
<1>n. /\ net' \in NetStates
      /\ net' = net \/ (net'.asked = "end" /\ mgr.sub >= 4 /\ c = mgr.bingo)
  BY <1>0, SendType
<1>b. past' \in PastStates BY <1>0, <1>s DEF PastStates
<1>c. play' \in PlayStates
  <2> DEFINE win == c = mgr.bingo  all == mgr.sub >= 4
  <2>1. win \in BOOLEAN /\ all \in BOOLEAN OBVIOUS
  <2>2. play' = [play EXCEPT !.subwin = win, !.subid = mgr.sub - 1, !.allfin = all]
    OBVIOUS
  <2> HIDE DEF win, all
  <2> QED BY <1>0, <1>s, <2>1, <2>2 DEF PlayStates
<1>d. ui' \in UiStates BY <1>0 DEF UiStates
<1>e. table' \in TableStates BY <1>0 DEF TableStates
<1>1. TypeOK' BY <1>0, <1>n, <1>b, <1>c, <1>d, <1>e, TypePartsThen
<1> USE <1>0 DEF IInv, TypeOK
<1>2. Moves' BY DEF Moves, Running, Uncovered, TouchOnlyAtRest
<1>3. Lines' BY DEF Lines, Running, PlayCount
<1>4. Order' BY <1>s DEF Order, Open, Undressing, Place, Garments, Reach, Running, Below,
        Uncovered, SubStages, TouchOnlyAtRest
<1>5. Garments' BY <1>s DEF Garments, Running, Uncovered, Place, Undressing, TouchOnlyAtRest
<1>6. Place' BY DEF Place, Undressing, Running, Uncovered, Garments, TouchOnlyAtRest
<1>7. TouchOnlyAtRest' BY DEF TouchOnlyAtRest
<1>8. EndPlayIsWon'
  BY <1>n DEF EndPlayIsWon, Order, Reach, Running, Below, SubStages, TouchOnlyAtRest
<1> QED BY <1>1, <1>2, <1>3, <1>4, <1>5, <1>6, <1>7, <1>8

(* What RunActionByPlayCount does at the end of a shuffle or of the deal,    *)
(* when nothing moves any more.                                              *)
LEMMA RunKeeps ==
  ASSUME IInv, Running, UNCHANGED <<play, net, app, past>>,
         NEW m \in MgrStates, NEW t \in TableStates, NEW u \in UiStates,
         m.sub = mgr.sub, m.pc = mgr.pc, m.rows = mgr.rows,
         t.begin = FALSE, t.moving = {}, t.touchable = table.touchable,
         u.panel \notin {"win", "lose"}, u.props = ui.props, u.start = ui.start,
         u.loose = ui.loose, u.off = ui.off,
         RunActionByPlayCount(m, t, u)
  PROVE  IInv'
<1>0. /\ mgr \in MgrStates /\ table \in TableStates /\ ui \in UiStates
      /\ play \in PlayStates /\ net \in NetStates /\ past \in PastStates
      /\ app \in {"on", "left", "frozen"}
  BY TypeParts DEF IInv
<1>1. CASE /\ m.pc >= PlayCount(m.sub) - 1
           /\ mgr' = [m EXCEPT !.sub = @ + 1, !.pc = 0]
           /\ table' = [t EXCEPT !.touchable = TRUE]
           /\ ui' = [u EXCEPT !.props = TRUE]
  <2> USE <1>1
  <2>a. m.sub + 1 \in 0..4 BY <1>0 DEF IInv, Order, Reach, MgrStates
  <2>b. mgr' \in MgrStates BY <2>a DEF MgrStates
  <2>c. table' \in TableStates BY DEF TableStates
  <2>d. ui' \in UiStates BY DEF UiStates
  <2>1. TypeOK' BY <1>0, <2>b, <2>c, <2>d, TypePartsThen
  <2>e. /\ mgr'.sub = mgr.sub + 1 /\ mgr'.pc = 0 /\ mgr'.rows = mgr.rows
        /\ mgr'.moved \in Nat
        /\ table'.begin = FALSE /\ table'.moving = {} /\ table'.touchable
        /\ ui'.panel = u.panel /\ ui'.start = ui.start
        /\ ui'.loose = ui.loose /\ ui'.off = ui.off /\ ui'.props
    BY <1>0 DEF MgrStates, TableStates, UiStates
  <2>f. mgr.sub \in 0..4 BY <1>0 DEF MgrStates
  <2> HIDE <1>1
  <2> USE <1>0, <2>e, <2>f DEF IInv
  <2>2. Moves' BY FS_EmptySet DEF Moves, Running
  <2>3. Lines' BY DEF Lines, Running
  <2>4. Order' BY DEF Order, Open, Reach, Running, Below, Moves, Uncovered
  <2>5. Garments' BY DEF Garments, Running, Moves, Uncovered
  <2>6. Place' BY DEF Place, Undressing, Running, Moves, Uncovered
  <2>7. TouchOnlyAtRest' BY DEF TouchOnlyAtRest, Running, Uncovered
  <2>8. EndPlayIsWon' BY DEF EndPlayIsWon
  <2> QED BY <2>1, <2>2, <2>3, <2>4, <2>5, <2>6, <2>7, <2>8
<1>2. CASE /\ m.pc < PlayCount(m.sub) - 1
           /\ \E p \in MakeLinesData :
                LET moves == {i \in Cards : p[i] # i}
                IN /\ mgr' = [m EXCEPT !.moved = @ + Cardinality(moves), !.pc = @ + 1]
                   /\ table' = [t EXCEPT !.moving = @ \cup moves]
           /\ ui' = u
  <2>1. PICK moves \in SUBSET Cards :
          /\ moves # {}
          /\ mgr' = [m EXCEPT !.moved = @ + Cardinality(moves), !.pc = @ + 1]
          /\ table' = [t EXCEPT !.moving = @ \cup moves]
    <3>1. PICK p \in MakeLinesData :
            /\ mgr' = [m EXCEPT !.moved = @ + Cardinality({i \in Cards : p[i] # i}),
                                !.pc = @ + 1]
            /\ table' = [t EXCEPT !.moving = @ \cup {i \in Cards : p[i] # i}]
      BY <1>2
    <3>2. {i \in Cards : p[i] # i} # {} BY DEF MakeLinesData
    <3> QED BY <3>1, <3>2
  <2>2. Cardinality(moves) \in Nat
    BY CardAssumption, FS_Subset, FS_CardinalityType
  <2>a. m.moved + Cardinality(moves) \in Nat /\ m.pc + 1 \in Nat
    BY <2>2 DEF MgrStates
  <2>b. mgr' \in MgrStates BY <2>1, <2>a DEF MgrStates
  <2>c. table' \in TableStates BY <2>1 DEF TableStates
  <2>d. ui' \in UiStates BY <1>2
  <2>3. TypeOK' BY <1>0, <2>b, <2>c, <2>d, TypePartsThen
  <2>e. /\ mgr'.sub = mgr.sub /\ mgr'.pc = mgr.pc + 1 /\ mgr'.rows = mgr.rows
        /\ mgr'.moved = m.moved + Cardinality(moves) /\ m.moved \in Nat
        /\ table'.begin = FALSE /\ table'.moving = moves
        /\ table'.touchable = table.touchable
        /\ ui'.panel = u.panel /\ ui'.start = ui.start /\ ui'.props = ui.props
        /\ ui'.loose = ui.loose /\ ui'.off = ui.off
    BY <1>0, <1>2, <2>1 DEF MgrStates, TableStates, UiStates
  <2>f. mgr.sub \in 0..4 /\ mgr.pc \in Nat /\ mgr.pc < PlayCount(mgr.sub) - 1
    BY <1>0, <1>2 DEF MgrStates
  <2> USE <1>0, <2>1, <2>2, <2>e, <2>f DEF IInv
  <2>4. Moves' BY DEF Moves, Running, Uncovered
  <2>5. Lines' BY PlayCountType DEF Lines, Running, PlayCount
  <2>6. Order' BY DEF Order, Open, Reach, Running, Below, Moves, Uncovered
  <2>7. Garments' BY DEF Garments, Running, Moves, Uncovered
  <2>8. Place' BY DEF Place, Undressing, Running, Moves, Uncovered
  <2>9. TouchOnlyAtRest' BY DEF TouchOnlyAtRest, Running, Uncovered
  <2>10. EndPlayIsWon' BY DEF EndPlayIsWon
  <2> QED BY <2>3, <2>4, <2>5, <2>6, <2>7, <2>8, <2>9, <2>10
<1> QED BY <1>1, <1>2 DEF RunActionByPlayCount

LEMMA BeginKeeps == ASSUME IInv, BeginActionEnd PROVE IInv'
<1> DEFINE t == [table EXCEPT !.begin = FALSE]
           u == [ui EXCEPT !.panel = "none"]
<1>0. /\ mgr \in MgrStates /\ table \in TableStates /\ ui \in UiStates
  BY TypeParts DEF IInv
<1>1. t \in TableStates BY <1>0 DEF TableStates
<1>2. u \in UiStates BY <1>0 DEF UiStates
<1>3. Running /\ table.moving = {} BY DEF BeginActionEnd, Running, IInv, Moves
<1>4. /\ t.begin = FALSE /\ t.moving = {} /\ t.touchable = table.touchable
      /\ u.panel = "none" /\ u.props = ui.props /\ u.start = ui.start
      /\ u.loose = ui.loose /\ u.off = ui.off
  BY <1>0, <1>3 DEF TableStates, UiStates
<1>5. RunActionByPlayCount(mgr, t, u) /\ UNCHANGED <<play, net, app, past>>
  BY DEF BeginActionEnd
<1> HIDE DEF t, u
<1> QED BY <1>0, <1>1, <1>2, <1>3, <1>4, <1>5, RunKeeps

LEMMA MoveKeeps == ASSUME IInv, MoveEnd PROVE IInv'
<1>0. /\ mgr \in MgrStates /\ table \in TableStates /\ ui \in UiStates
      /\ play \in PlayStates /\ net \in NetStates /\ past \in PastStates
      /\ app \in {"on", "left", "frozen"}
  BY TypeParts DEF IInv
<1>u. UNCHANGED <<play, net, app, past>> BY DEF MoveEnd
<1> DEFINE m == [mgr EXCEPT !.moved = @ - 1]
           t(c) == [table EXCEPT !.moving = @ \ {c}]
<1>1. PICK c \in table.moving :
        \/ m.moved = 0 /\ RunActionByPlayCount([m EXCEPT !.times = 0], t(c), ui)
        \/ m.moved # 0 /\ mgr' = m /\ table' = t(c) /\ UNCHANGED ui
  BY DEF MoveEnd
<1>2. /\ Cardinality(table.moving \ {c}) = Cardinality(table.moving) - 1
      /\ IsFiniteSet(table.moving) /\ IsFiniteSet(table.moving \ {c})
      /\ Cardinality(table.moving) \in Nat /\ Cardinality(table.moving \ {c}) \in Nat
  <2>1. IsFiniteSet(table.moving)
    BY <1>0, CardAssumption, FS_Subset DEF TableStates
  <2> QED BY <2>1, FS_RemoveElement, FS_CardinalityType
<1>3. /\ mgr.moved - 1 \in Nat
      /\ Cardinality(table.moving \ {c}) <= mgr.moved - 1
  BY <1>0, <1>2 DEF IInv, Moves, MgrStates
<1>4. m \in MgrStates /\ m.moved = mgr.moved - 1
  BY <1>0, <1>3 DEF MgrStates
<1>5. t(c) \in TableStates /\ t(c).moving = table.moving \ {c}
  BY <1>0 DEF TableStates
<1>6. Running BY DEF Running
<1>7. table.begin = FALSE BY <1>0 DEF IInv, Moves, TableStates
<1>8. CASE m.moved = 0 /\ RunActionByPlayCount([m EXCEPT !.times = 0], t(c), ui)
  <2> DEFINE n == [m EXCEPT !.times = 0]
  <2>0. mgr.moved - 1 = 0 BY <1>4, <1>8
  <2> HIDE DEF n, m, t
  <2>1. table.moving \ {c} = {}
    <3>1. Cardinality(table.moving \ {c}) = 0 BY <1>2, <1>3, <2>0
    <3> QED BY <1>2, <3>1, FS_EmptySet
  <2> USE DEF n, m, t
  <2>2. /\ n \in MgrStates /\ n.sub = mgr.sub /\ n.pc = mgr.pc /\ n.rows = mgr.rows
    BY <1>0, <1>4 DEF MgrStates
  <2>3. t(c).begin = FALSE /\ t(c).touchable = table.touchable /\ t(c).moving = {}
    BY <1>0, <1>5, <1>7, <2>1 DEF TableStates
  <2>4. ui.panel \notin {"win", "lose"} BY <1>6 DEF IInv, Moves, Uncovered
  <2>5. RunActionByPlayCount(n, t(c), ui) BY <1>8
  <2> HIDE DEF n, m, t
  <2> QED BY <1>0, <1>5, <1>6, <1>u, <2>2, <2>3, <2>4, <2>5, RunKeeps
<1>9. CASE m.moved # 0 /\ mgr' = m /\ table' = t(c) /\ UNCHANGED ui
  <2>1. TypeOK' BY <1>0, <1>4, <1>5, <1>9, <1>u, TypePartsThen
  <2>2. /\ mgr'.sub = mgr.sub /\ mgr'.pc = mgr.pc /\ mgr'.rows = mgr.rows
        /\ mgr'.moved = mgr.moved - 1
        /\ table'.begin = FALSE /\ table'.moving = table.moving \ {c}
        /\ table'.touchable = table.touchable
    BY <1>0, <1>7, <1>9 DEF MgrStates, TableStates
  <2>3. ~table.touchable BY <1>6 DEF IInv, TouchOnlyAtRest
  <2>4. UNCHANGED <<ui, play, net, app, past>> BY <1>9, <1>u
  <2>5. mgr.sub \in 0..4 BY <1>0 DEF MgrStates
  <2> USE <1>3, <1>6, <2>2, <2>3, <2>4, <2>5 DEF IInv
  <2>6. Moves' BY DEF Moves, Uncovered
  <2>7. Lines' BY DEF Lines, PlayCount
  <2>8. Order'
    <3>1. Reach = mgr.sub + 1 /\ Reach' \in {mgr.sub, mgr.sub + 1} BY DEF Reach
    <3>2. Open' = Open /\ past' = past BY DEF Open
    <3>3. Below(Reach' - 1) \subseteq Below(Reach - 1) /\ Below(Reach') \subseteq Below(Reach)
      BY <3>1 DEF Below, SubStages
    <3>4. Reach' <= Reach BY <3>1
    <3> HIDE DEF IInv
    <3> QED BY <3>1, <3>2, <3>3, <3>4 DEF IInv, Order, Below
  <2>9. Garments' BY DEF Garments
  <2>10. Place' BY DEF Place, Undressing
  <2>11. TouchOnlyAtRest' BY DEF TouchOnlyAtRest
  <2>12. EndPlayIsWon' BY DEF EndPlayIsWon
  <2> QED BY <2>1, <2>6, <2>7, <2>8, <2>9, <2>10, <2>11, <2>12
<1> QED BY <1>1, <1>8, <1>9

LEMMA BlinkKeeps == ASSUME IInv, BlinkEnd PROVE IInv'
<1>0. /\ mgr \in MgrStates /\ table \in TableStates /\ ui \in UiStates
      /\ play \in PlayStates /\ net \in NetStates /\ past \in PastStates
      /\ app \in {"on", "left", "frozen"}
  BY TypeParts DEF IInv
<1>1. UNCHANGED <<mgr, play, net, app, past>> BY DEF BlinkEnd
<1>2. /\ table' \in TableStates /\ table'.begin = table.begin
      /\ table'.moving = table.moving /\ table'.touchable = table.touchable
  <2>1. PICK c \in Cards, seen \in SUBSET Cards :
          /\ table.blinks[c] > 0
          /\ table' = [table EXCEPT !.blinks[c] = @ - 1, !.hidden = seen \cup {mgr.wrong}]
    BY <1>0 DEF BlinkEnd, TableStates
  <2>2. [table.blinks EXCEPT ![c] = @ - 1] \in [Cards -> Nat]
    BY <1>0, <2>1 DEF TableStates
  <2>3. seen \cup {mgr.wrong} \in SUBSET Cards BY <1>0 DEF MgrStates
  <2> QED BY <1>0, <2>1, <2>2, <2>3 DEF TableStates
<1>3. /\ ui' \in UiStates /\ ui'.panel = ui.panel /\ ui'.start = ui.start
      /\ ui'.loose = ui.loose /\ ui'.off = ui.off /\ (ui'.props => ui.props)
  BY <1>0 DEF BlinkEnd, UiStates
<1>4. TypeOK' BY <1>0, <1>1, <1>2, <1>3, TypePartsThen
<1>5. mgr.sub \in 0..4 BY <1>0 DEF MgrStates
<1> USE <1>1, <1>2, <1>3, <1>5 DEF IInv
<1>6. Moves' BY DEF Moves, Running, Uncovered
<1>7. Lines' BY DEF Lines, Running, PlayCount
<1>8. Order' BY DEF Order, Open, Reach, Running, Below
<1>9. Garments' BY DEF Garments, Running
<1>10. Place' BY DEF Place, Undressing, Running
<1>11. TouchOnlyAtRest' BY DEF TouchOnlyAtRest, Running, Uncovered
<1>12. EndPlayIsWon' BY DEF EndPlayIsWon
<1> QED BY <1>4, <1>6, <1>7, <1>8, <1>9, <1>10, <1>11, <1>12

LEMMA ClothesKeep == ASSUME IInv, onBtnClothes PROVE IInv'
<1>0. /\ mgr \in MgrStates /\ table \in TableStates /\ ui \in UiStates
      /\ play \in PlayStates /\ net \in NetStates /\ past \in PastStates
      /\ app \in {"on", "left", "frozen"}
  BY TypeParts DEF IInv
<1>1. UNCHANGED <<mgr, table, play, net, app, past>> /\ Uncovered
      /\ ui.loose \ ui.off # {}
  BY DEF onBtnClothes
<1>2. /\ ui' \in UiStates
      /\ ui'.off = ui.off \cup {play.subid}
      /\ ui'.start <=> (ui.start \/ ~play.allfin)
      /\ ui'.panel = ui.panel /\ ui'.props = ui.props /\ ui'.loose = ui.loose
  <2> DEFINE s == ui.start \/ ~play.allfin
             p == ui.pop \/ play.allfin
  <2>1. s \in BOOLEAN /\ p \in BOOLEAN OBVIOUS
  <2>2. ui' = [ui EXCEPT !.off = @ \cup {play.subid}, !.start = s, !.pop = p]
    BY DEF onBtnClothes
  <2>3. ui.off \cup {play.subid} \in SUBSET SubStages
    BY <1>0 DEF UiStates, PlayStates
  <2> HIDE DEF s, p
  <2>4. /\ ui' \in UiStates /\ ui'.start = s
        /\ ui'.off = ui.off \cup {play.subid}
        /\ ui'.panel = ui.panel /\ ui'.props = ui.props /\ ui'.loose = ui.loose
    BY <1>0, <2>1, <2>2, <2>3 DEF UiStates
  <2> QED BY <2>4 DEF s
<1>3. TypeOK' BY <1>0, <1>1, <1>2, TypePartsThen
<1>4. mgr.sub \in 0..4 BY <1>0 DEF MgrStates
<1> USE <1>1, <1>2, <1>4 DEF IInv
<1>5. Undressing /\ (Open' => Open) BY DEF Undressing, Open, Uncovered
<1>6. Moves' BY DEF Moves, Running, Uncovered
<1>7. Lines' BY DEF Lines, Running, PlayCount
<1>8. Order' BY <1>5 DEF Order, Reach, Running, Below
<1>9. Garments' BY DEF Garments, Running, Uncovered
<1>10. Place' BY <1>5 DEF Place, Running
<1>11. TouchOnlyAtRest' BY DEF TouchOnlyAtRest, Running, Uncovered
<1>12. EndPlayIsWon' BY DEF EndPlayIsWon
<1> QED BY <1>3, <1>6, <1>7, <1>8, <1>9, <1>10, <1>11, <1>12

LEMMA UseItemKeeps ==
  ASSUME IInv, NEW what \in {"finger", "replay"}, UseItem(what) PROVE IInv'
<1>0. /\ mgr \in MgrStates /\ table \in TableStates /\ ui \in UiStates
      /\ play \in PlayStates /\ net \in NetStates /\ past \in PastStates
      /\ app \in {"on", "left", "frozen"}
  BY TypeParts DEF IInv
<1>1. UNCHANGED <<mgr, table, ui, play, app>> /\ ui.props BY DEF UseItem
<1>2. net' \in NetStates /\ net'.asked # "end"
  BY <1>0, SendType DEF UseItem
<1>3. past' \in PastStates /\ past'.won = past.won
  <2> DEFINE h == past.hurried \/ net.prop # "none" \/ \E c \in Cards : table.blinks[c] > 0
  <2>1. h \in BOOLEAN OBVIOUS
  <2>2. past' = [past EXCEPT !.hurried = h] BY DEF UseItem
  <2> HIDE DEF h
  <2> QED BY <1>0, <2>1, <2>2 DEF PastStates
<1>4. TypeOK' BY <1>0, <1>1, <1>2, <1>3, TypePartsThen
<1>5. mgr.sub \in 0..4 BY <1>0 DEF MgrStates
<1> USE <1>1, <1>2, <1>3, <1>5 DEF IInv
<1>6. Moves' BY DEF Moves, Running, Uncovered
<1>7. Lines' BY DEF Lines, Running, PlayCount
<1>8. Order' BY DEF Order, Open, Reach, Running, Below
<1>9. Garments' BY DEF Garments, Running, Place, Undressing
<1>10. Place' BY DEF Place, Undressing, Running, TouchOnlyAtRest
<1>11. TouchOnlyAtRest' BY DEF TouchOnlyAtRest, Running, Uncovered
<1>12. EndPlayIsWon' BY DEF EndPlayIsWon
<1> QED BY <1>4, <1>6, <1>7, <1>8, <1>9, <1>10, <1>11, <1>12

(* Nothing but the requests, the timer and the scene changes.                *)
LEMMA QuietKeeps ==
  ASSUME IInv, UNCHANGED <<mgr, table, ui>>,
         past' \in PastStates, past'.won = past.won,
         play' \in PlayStates, UNCHANGED <<play.subwin, play.subid, play.allfin>>,
         net' \in NetStates, net'.poll => net.poll,
         net'.asked # "end" \/ net'.asked = net.asked,
         app' \in {"on", "left", "frozen"}
  PROVE  IInv'
<1>0. /\ mgr \in MgrStates /\ table \in TableStates /\ ui \in UiStates
      /\ play \in PlayStates /\ net \in NetStates /\ past \in PastStates
      /\ app \in {"on", "left", "frozen"}
  BY TypeParts DEF IInv
<1>1. TypeOK' BY <1>0, TypePartsThen
<1>2. mgr.sub \in 0..4 BY <1>0 DEF MgrStates
<1> USE <1>2 DEF IInv
<1>3. Moves' BY DEF Moves, Running, Uncovered
<1>4. Lines' BY DEF Lines, Running, PlayCount
<1>5. Order' BY DEF Order, Open, Reach, Running, Below
<1>6. Garments' BY DEF Garments, Running
<1>7. Place' BY DEF Place, Undressing, Running
<1>8. TouchOnlyAtRest' BY DEF TouchOnlyAtRest, Running, Uncovered
<1>9. EndPlayIsWon' BY DEF EndPlayIsWon
<1> QED BY <1>1, <1>3, <1>4, <1>5, <1>6, <1>7, <1>8, <1>9

LEMMA LeaveKeeps == ASSUME IInv, onBtnBack \/ onPopBack PROVE IInv'
<1>0. /\ mgr \in MgrStates /\ table \in TableStates /\ ui \in UiStates
      /\ play \in PlayStates /\ net \in NetStates /\ past \in PastStates
      /\ app \in {"on", "left", "frozen"}
  BY TypeParts DEF IInv
<1>1. UNCHANGED <<mgr, table, ui, play, net, past>> /\ app' = "left"
  BY DEF onBtnBack, onPopBack
<1> QED BY <1>0, <1>1, QuietKeeps

LEMMA RecvKeeps == ASSUME IInv, CARecv PROVE IInv'
<1>0. /\ mgr \in MgrStates /\ table \in TableStates /\ ui \in UiStates
      /\ play \in PlayStates /\ net \in NetStates /\ past \in PastStates
      /\ app \in {"on", "left", "frozen"}
  BY TypeParts DEF IInv
<1>1. UNCHANGED <<mgr, table, ui, play, app, past>> BY DEF CARecv
<1>2. PICK ok \in BOOLEAN :
        net' = [net EXCEPT !.asked = "none", !.flag = TRUE,
                           !.cmd = IF ok THEN CmdOf[net.asked] ELSE @]
  BY DEF CARecv
<1> DEFINE k == IF ok THEN CmdOf[net.asked] ELSE net.cmd
<1>3. k \in {0, 3, 6}
  <2>1. net.asked \in {"end", "finger", "replay"} BY <1>0 DEF CARecv, NetStates
  <2> QED BY <1>0, <2>1 DEF CmdOf, NetStates
<1>4. net' = [net EXCEPT !.asked = "none", !.flag = TRUE, !.cmd = k] BY <1>2
<1> HIDE DEF k
<1>5. net' \in NetStates /\ net'.asked = "none" /\ (net'.poll => net.poll)
  BY <1>0, <1>3, <1>4 DEF NetStates
<1> QED BY <1>0, <1>1, <1>5, QuietKeeps

LEMMA TimeoutKeeps == ASSUME IInv, CARecvTimeout PROVE IInv'
<1>0. /\ mgr \in MgrStates /\ table \in TableStates /\ ui \in UiStates
      /\ play \in PlayStates /\ net \in NetStates /\ past \in PastStates
      /\ app \in {"on", "left", "frozen"}
  BY TypeParts DEF IInv
<1>1. UNCHANGED <<mgr, table, ui, play, app, past>> BY DEF CARecvTimeout
<1>2. net' = [net EXCEPT !.poll = FALSE] BY DEF CARecvTimeout
<1>3. net' \in NetStates /\ net'.asked = net.asked /\ (net'.poll => net.poll)
  BY <1>0, <1>2 DEF NetStates
<1> QED BY <1>0, <1>1, <1>3, QuietKeeps

(* New cards on the table, for the next sub stage or for the same again.     *)
LEMMA DealKeeps ==
  ASSUME IInv, app' \in {"on", "left", "frozen"},
         net' \in NetStates, net'.asked = net.asked, net'.poll => net.poll,
         past' \in PastStates, past'.won = past.won, UNCHANGED play,
         NEW m \in MgrStates, NEW u \in UiStates,
         m.pc = mgr.pc \/ m.pc = 0,
         u.loose = ui.loose, u.off = ui.off, u.props => ui.props,
         u.start => ui.start, u.pop = ui.pop,
         \/ m.sub = mgr.sub /\ m.pc = mgr.pc /\ ui.start /\ ~u.start
         \/ m.sub = mgr.sub - 1 /\ m.pc = 0 /\ net.poll /\ ~net'.poll /\ ~u.props,
         StartSubStage(m, u)
  PROVE  IInv'
<1>0. /\ mgr \in MgrStates /\ table \in TableStates /\ ui \in UiStates
      /\ play \in PlayStates /\ net \in NetStates /\ past \in PastStates
      /\ app \in {"on", "left", "frozen"}
  BY TypeParts DEF IInv
<1>1. PICK b \in Cards : mgr' = [m EXCEPT !.bingo = b, !.rows = PlayCount(m.sub) + 1]
  BY DEF StartSubStage
<1>2. PlayCount(m.sub) + 1 \in Nat BY PlayCountType
<1>3. /\ mgr' \in MgrStates /\ mgr'.sub = m.sub /\ mgr'.pc = m.pc
      /\ mgr'.rows = PlayCount(mgr'.sub) + 1 /\ mgr'.moved = m.moved
  BY <1>1, <1>2 DEF MgrStates
<1>4. /\ table' \in TableStates /\ table'.begin /\ table'.moving = {}
      /\ ~table'.touchable
  BY DEF StartSubStage, Dealt, TableStates
<1>5. /\ ui' \in UiStates /\ ui'.panel = "start" /\ ui'.props = u.props
      /\ ui'.start = u.start /\ ui'.loose = ui.loose /\ ui'.off = ui.off
  BY DEF StartSubStage, UiStates
<1>6. TypeOK' BY <1>0, <1>3, <1>4, <1>5, TypePartsThen
<1>7. mgr.sub \in 0..4 /\ m.sub \in 0..4 BY <1>0 DEF MgrStates
<1> USE <1>3, <1>4, <1>5, <1>7 DEF IInv
<1>8. Moves' BY <1>0, FS_EmptySet DEF Moves, Running, Uncovered, MgrStates
<1>9. Lines' BY DEF Lines, Running, PlayCount
<1>10. Order'
  <2>1. Reach' = m.sub + 1 BY DEF Reach, Running
  <2>2. Reach \in {mgr.sub, mgr.sub + 1} BY DEF Reach
  <2>3. CASE m.sub = mgr.sub /\ ui.start /\ ~u.start
    <3>1. ~Open' BY <2>3 DEF Open, Garments
    <3> QED BY <2>1, <2>2, <2>3, <3>1 DEF Order, Open, Below, SubStages
  <2>4. CASE m.sub = mgr.sub - 1 /\ net.poll /\ ~net'.poll /\ ~u.props
    <3>1. Open' => Open BY DEF Open
    <3>2. Reach' <= Reach BY <2>1, <2>2, <2>4
    <3> QED BY <2>1, <2>2, <2>4, <3>1, <3>2 DEF Order, Below, SubStages
  <2> QED BY <2>3, <2>4
<1>11. Garments' BY DEF Garments
<1>12. Place'
  <2>1. Undressing' => Undressing /\ m.sub = mgr.sub - 1 /\ net.poll
        /\ ~net'.poll /\ ~u.props
    BY DEF Undressing, Garments
  <2> QED BY <2>1 DEF Place
<1>13. TouchOnlyAtRest' BY DEF TouchOnlyAtRest
<1>14. EndPlayIsWon' BY DEF EndPlayIsWon
<1> QED BY <1>6, <1>8, <1>9, <1>10, <1>11, <1>12, <1>13, <1>14

LEMMA StartKeeps == ASSUME IInv, onBtnStartPlay PROVE IInv'
<1>0. /\ mgr \in MgrStates /\ table \in TableStates /\ ui \in UiStates
      /\ play \in PlayStates /\ net \in NetStates /\ past \in PastStates
      /\ app \in {"on", "left", "frozen"}
  BY TypeParts DEF IInv
<1>1. UNCHANGED <<play, net, past>> /\ ui.start BY DEF onBtnStartPlay
<1>2. CASE app' = "left" /\ UNCHANGED <<mgr, table, ui>>
  BY <1>0, <1>1, <1>2, QuietKeeps
<1>3. CASE StartSubStage(mgr, [ui EXCEPT !.start = FALSE]) /\ UNCHANGED app
  <2> DEFINE u == [ui EXCEPT !.start = FALSE]
  <2>1. /\ u \in UiStates /\ u.loose = ui.loose /\ u.off = ui.off
        /\ u.props = ui.props /\ u.pop = ui.pop /\ ~u.start
    BY <1>0 DEF UiStates
  <2>2. StartSubStage(mgr, u) BY <1>3
  <2> HIDE DEF u
  <2> QED BY <1>0, <1>1, <1>3, <2>1, <2>2, DealKeeps
<1> QED BY <1>2, <1>3 DEF onBtnStartPlay

(* The finger of the item: a wrong card blinks, or the game freezes.         *)
LEMMA FingerKeeps ==
  ASSUME IInv, ShowWrongCard, UNCHANGED <<ui, play>>, app = "on",
         net' \in NetStates, net'.asked = net.asked, net'.poll => net.poll,
         past' \in PastStates, past'.won = past.won
  PROVE  IInv'
<1>0. /\ mgr \in MgrStates /\ table \in TableStates /\ ui \in UiStates
      /\ play \in PlayStates /\ net \in NetStates /\ past \in PastStates
      /\ app \in {"on", "left", "frozen"}
  BY TypeParts DEF IInv
<1>1. CASE app' = "frozen" /\ UNCHANGED <<mgr, table>>
  <2>1. TypeOK' BY <1>0, <1>1, TypePartsThen
  <2>2. mgr.sub \in 0..4 BY <1>0 DEF MgrStates
  <2> USE <1>1, <2>2 DEF IInv
  <2>3. Moves' BY DEF Moves, Running, Uncovered
  <2>4. Lines' BY DEF Lines, Running, PlayCount
  <2>5. Order' BY DEF Order, Open, Reach, Running, Below
  <2>6. Garments' BY DEF Garments, Running
  <2>7. Place' BY DEF Place, Undressing, Running
  <2>8. TouchOnlyAtRest' BY DEF TouchOnlyAtRest, Running, Uncovered
  <2>9. EndPlayIsWon' BY DEF EndPlayIsWon
  <2> QED BY <2>1, <2>3, <2>4, <2>5, <2>6, <2>7, <2>8, <2>9
<1>2. ASSUME NEW w \in WrongCards \ table.hidden,
             mgr' = [mgr EXCEPT !.wrong = w, !.times = @ + 1],
             table' = [table EXCEPT !.blinks[w] = @ + 1],
             UNCHANGED app
      PROVE  IInv'
  <2>1. w \in Cards BY DEF WrongCards
  <2>2. /\ mgr' \in MgrStates /\ mgr'.sub = mgr.sub /\ mgr'.pc = mgr.pc
        /\ mgr'.rows = mgr.rows /\ mgr'.moved = mgr.moved
    <3>1. mgr.times + 1 \in Nat BY <1>0 DEF MgrStates
    <3> QED BY <1>0, <1>2, <2>1, <3>1 DEF MgrStates
  <2>3. /\ table' \in TableStates /\ table'.begin = table.begin
        /\ table'.moving = table.moving /\ table'.touchable = table.touchable
    <3>1. [table.blinks EXCEPT ![w] = @ + 1] \in [Cards -> Nat]
      BY <1>0, <2>1 DEF TableStates
    <3> QED BY <1>0, <1>2, <3>1 DEF TableStates
  <2>4. TypeOK' BY <1>0, <1>2, <2>2, <2>3, TypePartsThen
  <2>5. mgr.sub \in 0..4 BY <1>0 DEF MgrStates
  <2> USE <2>2, <2>3, <2>5 DEF IInv
  <2>6. Moves' BY DEF Moves, Running, Uncovered
  <2>7. Lines' BY DEF Lines, Running, PlayCount
  <2>8. Order' BY DEF Order, Open, Reach, Running, Below
  <2>9. Garments' BY DEF Garments, Running
  <2>10. Place' BY DEF Place, Undressing, Running
  <2>11. TouchOnlyAtRest' BY DEF TouchOnlyAtRest, Running, Uncovered
  <2>12. EndPlayIsWon' BY DEF EndPlayIsWon
  <2> QED BY <2>4, <2>6, <2>7, <2>8, <2>9, <2>10, <2>11, <2>12
<1> QED BY <1>1, <1>2 DEF ShowWrongCard

LEMMA DoneKeeps == ASSUME IInv, app = "on", CARecvDone PROVE IInv'
<1>0. /\ mgr \in MgrStates /\ table \in TableStates /\ ui \in UiStates
      /\ play \in PlayStates /\ net \in NetStates /\ past \in PastStates
      /\ app \in {"on", "left", "frozen"}
  BY TypeParts DEF IInv
<1>1. /\ net' \in NetStates /\ net'.asked = net.asked /\ net.poll /\ ~net'.poll
  <2> DEFINE p == IF net.cmd = 6 THEN "none" ELSE net.prop
  <2>1. p \in {"none", "finger", "replay"} BY <1>0 DEF NetStates
  <2>2. net' = [net EXCEPT !.poll = FALSE, !.prop = p] BY DEF CARecvDone
  <2>3. net.poll BY DEF CARecvDone
  <2> HIDE DEF p
  <2> QED BY <1>0, <2>1, <2>2, <2>3 DEF NetStates
<1>2. past' \in PastStates /\ past'.won = past.won
  <2> DEFINE l == past.late \/ (net.cmd = 6 /\ ~table.touchable)
  <2>1. l \in BOOLEAN OBVIOUS
  <2>2. past' = [past EXCEPT !.late = l] BY DEF CARecvDone
  <2> HIDE DEF l
  <2> QED BY <1>0, <2>1, <2>2 DEF PastStates
<1>3. CASE net.cmd = 3 /\ play' = [play EXCEPT !.back = TRUE]
           /\ UNCHANGED <<mgr, table, ui, app>>
  <2>1. play' \in PlayStates /\ UNCHANGED <<play.subwin, play.subid, play.allfin>>
    BY <1>0, <1>3 DEF PlayStates
  <2> QED BY <1>0, <1>1, <1>2, <1>3, <2>1, QuietKeeps
<1>4. CASE ShowWrongCard /\ UNCHANGED <<ui, play>>
  BY <1>1, <1>2, <1>4, FingerKeeps
<1>5. CASE StartSubStage(ReStartSubStage(mgr), [ui EXCEPT !.props = FALSE])
           /\ UNCHANGED <<play, app>>
  <2> DEFINE m == ReStartSubStage(mgr)
             u == [ui EXCEPT !.props = FALSE]
  <2>1. mgr.sub - 1 \in 0..4 BY <1>0, <1>1 DEF IInv, Order, MgrStates
  <2>2. m \in MgrStates /\ m.sub = mgr.sub - 1 /\ m.pc = 0
    BY <1>0, <2>1 DEF ReStartSubStage, MgrStates
  <2>3. /\ u \in UiStates /\ u.loose = ui.loose /\ u.off = ui.off
        /\ u.start = ui.start /\ u.pop = ui.pop /\ ~u.props
    BY <1>0 DEF UiStates
  <2>4. StartSubStage(m, u) BY <1>5
  <2> HIDE DEF m, u
  <2> QED BY <1>0, <1>1, <1>2, <1>5, <2>2, <2>3, <2>4, DealKeeps
<1>6. CASE UNCHANGED <<mgr, table, ui, play, app>>
  BY <1>0, <1>1, <1>2, <1>6, QuietKeeps
<1> QED BY <1>3, <1>4, <1>5, <1>6 DEF CARecvDone

LEMMA InitHolds == Init => IInv
<1> SUFFICES ASSUME Init PROVE IInv
  OBVIOUS
<1>1. PICK c \in Cards :
        mgr = [sub |-> 0, pc |-> 0, rows |-> 0, moved |-> 0, bingo |-> c,
               wrong |-> c, times |-> 0]
  BY DEF Init
<1>2. PICK garbage \in {0, 3, 6} :
        net = [asked |-> "none", flag |-> FALSE, poll |-> FALSE, cmd |-> garbage,
               prop |-> "none", sent |-> 0]
  BY DEF Init
<1>3. table = [begin |-> FALSE, moving |-> {}, touchable |-> FALSE, hidden |-> {},
               blinks |-> [d \in Cards |-> 0]]
  BY DEF Init, Dealt
<1>4. TypeOK
  <2>1. mgr \in MgrStates BY <1>1 DEF MgrStates
  <2>2. table \in TableStates BY <1>3 DEF TableStates
  <2>3. ui \in UiStates BY DEF Init, UiStates
  <2>4. play \in PlayStates BY DEF Init, PlayStates, SubStages
  <2>5. net \in NetStates BY <1>2 DEF NetStates
  <2>6. past \in PastStates /\ app = "on" BY DEF Init, PastStates
  <2> QED BY <2>1, <2>2, <2>3, <2>4, <2>5, <2>6, TypeParts
<1> USE <1>1, <1>2, <1>3 DEF Init
<1>5. ~Running /\ Reach = 0 BY DEF Running, Reach
<1>6. Moves BY <1>5, FS_EmptySet DEF Moves
<1>7. Lines BY <1>5 DEF Lines
<1>8. Below(0) = {} /\ Below(0-1) = {} BY DEF Below, SubStages
<1>9. Order BY <1>5, <1>8 DEF Order
<1>10. Garments BY <1>5 DEF Garments
<1>11. Place BY <1>5 DEF Place
<1>12. TouchOnlyAtRest /\ EndPlayIsWon BY DEF TouchOnlyAtRest, EndPlayIsWon
<1> QED BY <1>4, <1>6, <1>7, <1>9, <1>10, <1>11, <1>12 DEF IInv

LEMMA StepKeeps == IInv /\ [Next]_vars => IInv'
<1> SUFFICES ASSUME IInv, [Next]_vars PROVE IInv'
  OBVIOUS
<1>0. /\ mgr \in MgrStates /\ table \in TableStates /\ ui \in UiStates
      /\ play \in PlayStates /\ net \in NetStates /\ past \in PastStates
      /\ app \in {"on", "left", "frozen"}
  BY TypeParts DEF IInv
<1>1. CASE UNCHANGED vars
  BY <1>0, <1>1, QuietKeeps DEF vars
<1>2. CASE app = "on" /\ BeginActionEnd BY <1>2, BeginKeeps
<1>3. CASE app = "on" /\ MoveEnd BY <1>3, MoveKeeps
<1>4. CASE app = "on" /\ BlinkEnd BY <1>4, BlinkKeeps
<1>5. CASE app = "on" /\ \E c \in Cards : OnTouch(c) BY <1>5, TouchKeeps
<1>6. CASE app = "on" /\ onPanelSecond BY <1>6, PanelKeeps
<1>7. CASE app = "on" /\ onBtnClothes BY <1>7, ClothesKeep
<1>8. CASE app = "on" /\ onBtnStartPlay BY <1>8, StartKeeps
<1>9. CASE app = "on" /\ (onBtnBack \/ onPopBack) BY <1>9, LeaveKeeps
<1>10. CASE app = "on" /\ (onUseFinger \/ onUseReplay)
  BY <1>10, UseItemKeeps DEF onUseFinger, onUseReplay
<1>11. CASE app = "on" /\ CARecv BY <1>11, RecvKeeps
<1>12. CASE app = "on" /\ CARecvTimeout BY <1>12, TimeoutKeeps
<1>13. CASE app = "on" /\ CARecvDone BY <1>13, DoneKeeps
<1> QED BY <1>1, <1>2, <1>3, <1>4, <1>5, <1>6, <1>7, <1>8, <1>9, <1>10, <1>11,
           <1>12, <1>13 DEF Next, Finished

LEMMA IInvAlways == Spec => []IInv
BY InitHolds, StepKeeps, PTL DEF Spec

-----------------------------------------------------------------------------
(* Every variable of the game keeps its type; the sub stage counter stays    *)
(* within the four sub stages and the one past the end, although a replay    *)
(* takes it back (card_manager.cpp:163-178).                                 *)
THEOREM CardTypeCorrect == Spec => []TypeOK
<1>1. IInv => TypeOK BY DEF IInv
<1> QED BY IInvAlways, <1>1, PTL

(* No shuffle reads play_count_ or card_lines_ outside their bounds          *)
(* (card_manager.cpp:112, 140-156).                                          *)
THEOREM TablesInRangeAlways == Spec => []TablesInRange
<1>1. IInv => TablesInRange
  <2> SUFFICES ASSUME IInv, Running PROVE mgr.sub \in SubStages /\ mgr.pc < mgr.rows
    BY DEF TablesInRange
  <2>1. mgr.sub \in 0..4 /\ mgr.pc \in Nat BY DEF IInv, TypeOK
  <2>2. mgr.sub \in SubStages BY <2>1 DEF IInv, Order, Reach, SubStages
  <2>3. mgr.rows = PlayCount(mgr.sub) + 1 /\ PlayCount(mgr.sub) \in Nat
    BY PlayCountType DEF IInv, Lines
  <2>4. mgr.pc < mgr.rows BY <2>1, <2>3 DEF IInv, Lines
  <2> QED BY <2>2, <2>4
<1> QED BY IInvAlways, <1>1, PTL

(* The cards can be touched only when nothing moves, no result is shown and  *)
(* a sub stage has been shuffled (card_manager.cpp:118-131, 243).            *)
THEOREM TouchOnlyAtRestAlways == Spec => []TouchOnlyAtRest
<1>1. IInv => TouchOnlyAtRest BY DEF IInv
<1> QED BY IInvAlways, <1>1, PTL

(* EndPlay is sent only by a player who picked the right card in each of the *)
(* four sub stages (play_scene.cpp:365-382).                                 *)
THEOREM EndPlayIsWonAlways == Spec => []EndPlayIsWon
<1>1. IInv => EndPlayIsWon BY DEF IInv
<1> QED BY IInvAlways, <1>1, PTL

-----------------------------------------------------------------------------
(* The finger.  Where no item was used in a hurry and none answered late,    *)
(* the card that blinks is the newest one shown, no more cards are hidden    *)
(* than were shown, and whoever has an item still to be served has a wrong   *)
(* card left that is not hidden.                                             *)
Still == \A c \in Cards : table.blinks[c] = 0
Shown == table.hidden \cup {c \in Cards : table.blinks[c] > 0}
Room == table.hidden = {} \/ Cardinality(table.hidden) + 1 < Cardinality(Cards)
Calm ==
  /\ Running => table.hidden = {} /\ Still
  /\ \A c \in Cards : table.blinks[c] > 0 => c = mgr.wrong
  /\ Cardinality(Shown) <= mgr.times
  /\ ui.props /\ Still => Room
  /\ net.prop # "none" => Still /\ Room
Unhurried == ~past.hurried /\ ~past.late => Calm /\ app # "frozen"

LEMMA CalmStill ==
  ASSUME Calm, table'.hidden = table.hidden, table'.blinks = table.blinks,
         mgr'.wrong = mgr.wrong, mgr'.times = mgr.times, Running' => Running,
         ui'.props => ui.props, net'.prop # "none" => net.prop # "none"
  PROVE  Calm'
<1>1. (Still' <=> Still) /\ (Room' <=> Room) /\ Shown' = Shown
  BY DEF Still, Room, Shown
<1> QED BY <1>1 DEF Calm

LEMMA CalmDealt ==
  ASSUME table'.hidden = {}, \A c \in Cards : table'.blinks[c] = 0,
         mgr'.times \in Nat
  PROVE  Calm'
<1>1. Still' /\ Room' BY DEF Still, Room
<1>2. Shown' = {} BY DEF Shown
<1>3. Cardinality({}) = 0 BY FS_EmptySet
<1> QED BY <1>1, <1>2, <1>3 DEF Calm, Still

(* The end of the deal and of a move, with what may follow on them.          *)
LEMMA CalmRun ==
  ASSUME IInv, Calm, BeginActionEnd \/ MoveEnd
  PROVE  Calm'
<1>1. mgr \in MgrStates /\ table \in TableStates BY TypeParts DEF IInv
<1>2. Running BY DEF BeginActionEnd, MoveEnd, Running
<1>3. table.hidden = {} /\ \A c \in Cards : table.blinks[c] = 0
  BY <1>2 DEF Calm, Still
<1>4. ASSUME NEW m, NEW t \in TableStates, NEW u, RunActionByPlayCount(m, t, u)
      PROVE  table'.hidden = t.hidden /\ table'.blinks = t.blinks
  BY <1>4 DEF RunActionByPlayCount, TableStates
<1>5. table'.hidden = table.hidden /\ table'.blinks = table.blinks
  <2>1. CASE BeginActionEnd
    <3> DEFINE t == [table EXCEPT !.begin = FALSE]
    <3>1. t \in TableStates /\ t.hidden = table.hidden /\ t.blinks = table.blinks
      BY <1>1 DEF TableStates
    <3>2. RunActionByPlayCount(mgr, t, [ui EXCEPT !.panel = "none"])
      BY <2>1 DEF BeginActionEnd
    <3> HIDE DEF t
    <3> QED BY <1>4, <3>1, <3>2
  <2>2. CASE MoveEnd
    <3> DEFINE t(c) == [table EXCEPT !.moving = @ \ {c}]
    <3>1. PICK c \in table.moving :
            \/ RunActionByPlayCount([[mgr EXCEPT !.moved = @ - 1] EXCEPT !.times = 0],
                                    t(c), ui)
            \/ table' = t(c)
      BY <2>2 DEF MoveEnd
    <3>2. t(c) \in TableStates /\ t(c).hidden = table.hidden
          /\ t(c).blinks = table.blinks
      BY <1>1 DEF TableStates
    <3> HIDE DEF t
    <3> QED BY <1>4, <3>1, <3>2
  <2> QED BY <2>1, <2>2
<1>6. mgr'.times \in Nat
  <2>1. IInv' BY BeginKeeps, MoveKeeps
  <2>2. mgr' \in [sub : 0..4, pc : Nat, rows : Nat, moved : Nat, bingo : Cards,
                  wrong : Cards, times : Nat]
    BY <2>1 DEF IInv, TypeOK
  <2> QED BY <2>2
<1> QED BY <1>3, <1>5, <1>6, CalmDealt

(* A card has blinked: if it was the last one an item may show, the items    *)
(* are gone, else there is another left.                                     *)
LEMMA CalmBlink ==
  ASSUME IInv, Calm, BlinkEnd
  PROVE  Calm'
<1>1. /\ mgr \in MgrStates /\ table \in TableStates /\ ui \in UiStates
      /\ mgr.wrong \in Cards /\ mgr.times \in Nat
      /\ table.hidden \subseteq Cards /\ table.blinks \in [Cards -> Nat]
  BY TypeParts DEF IInv, MgrStates, TableStates
<1>2. PICK c \in Cards :
        /\ table.blinks[c] > 0
        /\ \E seen \in {table.hidden \cup {c}, table.hidden \ {c}} :
             table' = [table EXCEPT !.blinks[c] = @ - 1,
                                    !.hidden = seen \cup {mgr.wrong}]
  BY DEF BlinkEnd
<1>3. c = mgr.wrong BY <1>2 DEF Calm
<1>4. /\ table'.hidden = table.hidden \cup {c}
      /\ table'.blinks = [table.blinks EXCEPT ![c] = @ - 1]
      /\ table'.begin = table.begin /\ table'.moving = table.moving
  BY <1>1, <1>2, <1>3 DEF TableStates
<1>5. UNCHANGED <<mgr, net>> BY DEF BlinkEnd
<1>6. ~Still BY <1>1, <1>2 DEF Still
<1>7. ~Running /\ ~Running' BY <1>4, <1>6 DEF Calm, Running
<1>8. net'.prop = "none" BY <1>5, <1>6 DEF Calm
<1>9. \A d \in Cards : table'.blinks[d] > 0 => table.blinks[d] > 0
  BY <1>1, <1>4
<1>10. /\ IsFiniteSet(Shown) /\ Shown' \subseteq Shown
       /\ table'.hidden \subseteq Shown
       /\ IsFiniteSet(Shown') /\ IsFiniteSet(table'.hidden)
       /\ Cardinality(Shown') <= Cardinality(Shown)
       /\ Cardinality(table'.hidden) <= Cardinality(Shown)
       /\ Cardinality(Shown) \in Nat /\ Cardinality(Shown') \in Nat
       /\ Cardinality(table'.hidden) \in Nat /\ Cardinality(Cards) \in Nat
  <2>1. Shown \subseteq Cards BY <1>1 DEF Shown
  <2>2. Shown' \subseteq Shown /\ table'.hidden \subseteq Shown
    BY <1>2, <1>4, <1>9 DEF Shown
  <2> QED BY <2>1, <2>2, CardAssumption, FS_Subset, FS_CardinalityType
<1>11. Cardinality(Shown') <= mgr'.times
  BY <1>1, <1>5, <1>10 DEF Calm
<1>12. ASSUME ui'.props PROVE Room'
  <2>1. ~(mgr.times + 1 >= Cardinality(Cards))
    BY <1>1, <1>12 DEF BlinkEnd, UiStates
  <2>2. Cardinality(Shown) <= mgr.times BY DEF Calm
  <2>3. Cardinality(table'.hidden) + 1 < Cardinality(Cards)
    BY <1>1, <1>10, <2>1, <2>2
  <2> QED BY <2>3 DEF Room
<1>13. \A d \in Cards : table'.blinks[d] > 0 => d = mgr'.wrong
  BY <1>5, <1>9 DEF Calm
<1> QED BY <1>7, <1>8, <1>11, <1>12, <1>13 DEF Calm

(* The answer to a finger.                                                   *)
LEMMA CalmFinger ==
  ASSUME IInv, Calm, ShowWrongCard, UNCHANGED ui, app = "on", table.touchable,
         net.prop = "finger", net'.prop = "none"
  PROVE  Calm' /\ app' # "frozen"
<1>1. /\ mgr \in MgrStates /\ table \in TableStates
      /\ mgr.wrong \in Cards /\ mgr.times \in Nat /\ mgr.bingo \in Cards
      /\ table.hidden \subseteq Cards /\ table.blinks \in [Cards -> Nat]
  BY TypeParts DEF IInv, MgrStates, TableStates
<1>2. Still /\ Room BY DEF Calm
<1>3. ~Running BY DEF IInv, TouchOnlyAtRest
<1>4. PICK x \in WrongCards : x \notin table.hidden
  <2> SUFFICES ASSUME WrongCards \subseteq table.hidden PROVE FALSE OBVIOUS
  <2>1. /\ IsFiniteSet(Cards) /\ Cardinality(Cards) \in Nat /\ Cardinality(Cards) >= 2
    BY CardAssumption, FS_CardinalityType
  <2>2. IsFiniteSet(WrongCards) /\ Cardinality(WrongCards) = Cardinality(Cards) - 1
    BY <1>1, <2>1, FS_RemoveElement DEF WrongCards
  <2>3. IsFiniteSet(table.hidden) BY <1>1, <2>1, FS_Subset
  <2>4. Cardinality(WrongCards) <= Cardinality(table.hidden) BY <2>3, FS_Subset
  <2>5. Cardinality(table.hidden) \in Nat BY <2>3, FS_CardinalityType
  <2>6. table.hidden # {}
    <3> SUFFICES ASSUME table.hidden = {} PROVE FALSE OBVIOUS
    <3>1. Cardinality(table.hidden) = 0 BY FS_EmptySet
    <3> QED BY <2>1, <2>2, <2>4, <3>1
  <2> QED BY <1>2, <2>1, <2>2, <2>4, <2>5, <2>6 DEF Room
<1>5. ~(table.blinks[x] > 0)
  <2>1. x \in Cards /\ table.blinks[x] = 0 BY <1>2, <1>4 DEF WrongCards, Still
  <2> QED BY <2>1
<1>6. PICK w \in WrongCards \ table.hidden :
        /\ mgr' = [mgr EXCEPT !.wrong = w, !.times = @ + 1]
        /\ table' = [table EXCEPT !.blinks[w] = @ + 1]
        /\ UNCHANGED app
  BY <1>4, <1>5, Zenon DEF ShowWrongCard
<1>7. w \in Cards BY DEF WrongCards
<1>8. /\ mgr'.wrong = w /\ mgr'.times = mgr.times + 1
      /\ table'.blinks = [table.blinks EXCEPT ![w] = @ + 1]
      /\ table'.hidden = table.hidden
      /\ table'.begin = table.begin /\ table'.moving = table.moving
  BY <1>1, <1>6 DEF MgrStates, TableStates
<1>9. table'.blinks[w] = 1 /\ \A c \in Cards \ {w} : table'.blinks[c] = 0
  BY <1>1, <1>2, <1>7, <1>8 DEF Still
<1>10. ~Running' BY <1>3, <1>8 DEF Running
<1>11. ~Still' BY <1>7, <1>9 DEF Still
<1>12. Cardinality(Shown') <= mgr'.times
  <2>1. Shown = table.hidden BY <1>2 DEF Shown, Still
  <2>2. Shown' = table.hidden \cup {w}
    <3>1. {c \in Cards : table'.blinks[c] > 0} = {w} BY <1>7, <1>9
    <3> QED BY <1>8, <3>1 DEF Shown
  <2>3. IsFiniteSet(table.hidden) BY <1>1, CardAssumption, FS_Subset
  <2>4. Cardinality(table.hidden \cup {w}) = Cardinality(table.hidden) + 1
    BY <1>6, <2>3, FS_AddElement
  <2>5. Cardinality(table.hidden) \in Nat BY <2>3, FS_CardinalityType
  <2>6. Cardinality(table.hidden) <= mgr.times BY <2>1 DEF Calm
  <2> QED BY <1>1, <1>8, <2>2, <2>4, <2>5, <2>6
<1>13. \A c \in Cards : table'.blinks[c] > 0 => c = mgr'.wrong BY <1>8, <1>9
<1> QED BY <1>6, <1>10, <1>11, <1>12, <1>13 DEF Calm

LEMMA UnhurriedInit == Init => Unhurried
<1> SUFFICES ASSUME Init PROVE Calm /\ app # "frozen"
  BY DEF Unhurried
<1>1. /\ mgr.times = 0 /\ table.hidden = {} /\ \A c \in Cards : table.blinks[c] = 0
      /\ app = "on"
  BY DEF Init, Dealt
<1>2. Still /\ Room BY <1>1 DEF Still, Room
<1>3. Shown = {} BY <1>1 DEF Shown
<1>4. Cardinality(Shown) = 0 BY <1>3, FS_EmptySet
<1> QED BY <1>1, <1>2, <1>4 DEF Calm, Still

LEMMA UnhurriedNext == IInv /\ Unhurried /\ [Next]_vars => Unhurried'
<1> SUFFICES ASSUME IInv, Unhurried, [Next]_vars, ~past'.hurried, ~past'.late
             PROVE  Calm' /\ app' # "frozen"
  BY DEF Unhurried
<1>1. /\ mgr \in MgrStates /\ table \in TableStates /\ ui \in UiStates
      /\ net \in NetStates /\ past \in PastStates /\ mgr.times \in Nat
  BY TypeParts DEF IInv, MgrStates
<1>2. ASSUME ~past.hurried, ~past.late PROVE Calm /\ app # "frozen"
  BY <1>2 DEF Unhurried
<1>3. ASSUME UNCHANGED past PROVE Calm /\ app # "frozen" BY <1>2, <1>3
<1>4. CASE UNCHANGED vars
  BY <1>3, <1>4, CalmStill DEF vars, Running
<1>5. CASE app = "on" /\ (BeginActionEnd \/ MoveEnd)
  <2>1. UNCHANGED <<past, app>> BY <1>5 DEF BeginActionEnd, MoveEnd
  <2> QED BY <1>3, <1>5, <2>1, CalmRun
<1>6. CASE app = "on" /\ BlinkEnd
  <2>1. UNCHANGED <<past, app>> BY <1>6 DEF BlinkEnd
  <2> QED BY <1>3, <1>6, <2>1, CalmBlink
<1>7. CASE app = "on" /\ \E c \in Cards : OnTouch(c)
  <2>1. PICK c \in Cards : OnTouch(c) BY <1>7
  <2>2. past'.hurried = past.hurried /\ past'.late = past.late
    BY <1>1, <2>1 DEF OnTouch, PastStates
  <2>3. /\ mgr' = mgr /\ app' = app
        /\ table' = [table EXCEPT !.touchable = FALSE]
        /\ Send("end") \/ net' = net
    BY <2>1 DEF OnTouch
  <2>4. ui'.props = FALSE BY <1>1, <2>1 DEF OnTouch, UiStates
  <2>5. net'.prop = net.prop
    <3>1. CASE net' = net BY <3>1
    <3>2. CASE Send("end")
      <4>1. net' = [net EXCEPT !.asked = "end", !.flag = FALSE, !.poll = TRUE,
                               !.prop = net.prop, !.sent = @ + 1]
        BY <3>2 DEF Send
      <4> QED BY <1>1, <4>1 DEF NetStates
    <3> QED BY <2>3, <3>1, <3>2
  <2>6. /\ table'.hidden = table.hidden /\ table'.blinks = table.blinks
        /\ table'.begin = table.begin /\ table'.moving = table.moving
    BY <1>1, <2>3 DEF TableStates
  <2>7. Calm /\ app # "frozen" BY <1>2, <2>2
  <2> QED BY <2>3, <2>4, <2>5, <2>6, <2>7, CalmStill DEF Running
<1>8. CASE app = "on" /\ (onPanelSecond \/ onBtnClothes)
  <2>1. /\ UNCHANGED <<mgr, table, net, past>>
        /\ app' \in {app, "left"}
    BY <1>8 DEF onPanelSecond, onBtnClothes
  <2>2. ui'.props = ui.props BY <1>1, <1>8 DEF onPanelSecond, onBtnClothes, UiStates
  <2> QED BY <1>3, <1>8, <2>1, <2>2, CalmStill DEF Running
<1>9. CASE app = "on" /\ onBtnStartPlay
  <2>1. UNCHANGED <<net, past>> BY <1>9 DEF onBtnStartPlay
  <2>2. Calm /\ app # "frozen" BY <1>3, <2>1
  <2>3. CASE app' = "left" /\ UNCHANGED <<mgr, table, ui>>
    BY <2>1, <2>2, <2>3, CalmStill DEF Running
  <2>4. CASE StartSubStage(mgr, [ui EXCEPT !.start = FALSE]) /\ UNCHANGED app
    <3>1. table' = Dealt /\ mgr'.times = mgr.times
      BY <1>1, <2>4 DEF StartSubStage, MgrStates
    <3> QED BY <1>1, <2>2, <2>4, <3>1, CalmDealt DEF Dealt
  <2> QED BY <1>9, <2>3, <2>4 DEF onBtnStartPlay
<1>10. CASE app = "on" /\ (onBtnBack \/ onPopBack)
  <2>1. UNCHANGED <<mgr, table, ui, net, past>> /\ app' = "left"
    BY <1>10 DEF onBtnBack, onPopBack
  <2> QED BY <1>3, <2>1, CalmStill DEF Running
<1>11. CASE app = "on" /\ (onUseFinger \/ onUseReplay)
  <2>1. PICK what \in {"finger", "replay"} : UseItem(what)
    BY <1>11 DEF onUseFinger, onUseReplay
  <2> DEFINE h == past.hurried \/ net.prop # "none"
                    \/ \E c \in Cards : table.blinks[c] > 0
  <2>2. past' = [past EXCEPT !.hurried = h] BY <2>1 DEF UseItem
  <2> HIDE DEF h
  <2>3. past'.hurried = h /\ past'.late = past.late BY <1>1, <2>2 DEF PastStates
  <2>4. ~past.hurried /\ \A c \in Cards : ~(table.blinks[c] > 0)
    BY <2>3 DEF h
  <2>5. Calm /\ app # "frozen" BY <1>2, <2>3, <2>4
  <2>6. Still
    <3>1. \A c \in Cards : table.blinks[c] \in Nat BY <1>1 DEF TableStates
    <3> QED BY <2>4, <3>1 DEF Still
  <2>7. UNCHANGED <<mgr, table, ui, app>> /\ ui.props BY <2>1 DEF UseItem
  <2>8. Room BY <2>5, <2>6, <2>7 DEF Calm
  <2>9. /\ Still' /\ Room' /\ Shown' = Shown /\ (Running' <=> Running)
    BY <2>6, <2>7, <2>8 DEF Still, Room, Shown, Running
  <2> QED BY <2>5, <2>7, <2>9 DEF Calm
<1>12. CASE app = "on" /\ (CARecv \/ CARecvTimeout)
  <2>1. UNCHANGED <<mgr, table, ui, app, past>> BY <1>12 DEF CARecv, CARecvTimeout
  <2>2. net'.prop = net.prop
    BY <1>1, <1>12 DEF CARecv, CARecvTimeout, NetStates
  <2> QED BY <1>3, <2>1, <2>2, CalmStill DEF Running
<1>13. CASE app = "on" /\ CARecvDone
  <2> DEFINE l == past.late \/ (net.cmd = 6 /\ ~table.touchable)
             p == IF net.cmd = 6 THEN "none" ELSE net.prop
  <2>1. past' = [past EXCEPT !.late = l] /\ net' = [net EXCEPT !.poll = FALSE, !.prop = p]
    BY <1>13 DEF CARecvDone
  <2> HIDE DEF l, p
  <2>2. past'.late = l /\ past'.hurried = past.hurried /\ net'.prop = p
    BY <1>1, <2>1 DEF PastStates, NetStates
  <2>3. ~past.late /\ (net.cmd = 6 => table.touchable) BY <2>2 DEF l
  <2>4. Calm /\ app # "frozen" BY <1>2, <2>2, <2>3
  <2>5. net'.prop = IF net.cmd = 6 THEN "none" ELSE net.prop BY <2>2 DEF p
  <2>6. CASE UNCHANGED <<mgr, table, ui, app>>
    BY <2>4, <2>5, <2>6, CalmStill DEF Running
  <2>7. CASE net.cmd = 6 /\ net.prop = "finger" /\ ShowWrongCard /\ UNCHANGED ui
    BY <1>13, <2>3, <2>4, <2>5, <2>7, CalmFinger
  <2>8. CASE StartSubStage(ReStartSubStage(mgr), [ui EXCEPT !.props = FALSE])
             /\ UNCHANGED app
    <3> DEFINE m == ReStartSubStage(mgr)
    <3>1. m.times = mgr.times BY <1>1 DEF ReStartSubStage, MgrStates
    <3>2. table' = Dealt
          /\ \E b \in Cards : mgr' = [m EXCEPT !.bingo = b, !.rows = PlayCount(m.sub) + 1]
      BY <2>8 DEF StartSubStage
    <3>3. mgr'.times = m.times
      <4>1. m = [mgr EXCEPT !.sub = @ - 1, !.pc = 0] BY DEF ReStartSubStage
      <4> HIDE DEF m
      <4> QED BY <1>1, <3>2, <4>1 DEF MgrStates
    <3> QED BY <1>1, <2>4, <2>8, <3>1, <3>2, <3>3, CalmDealt DEF Dealt
  <2> QED BY <1>13, <2>6, <2>7, <2>8 DEF CARecvDone
<1> QED BY <1>4, <1>5, <1>6, <1>7, <1>8, <1>9, <1>10, <1>11, <1>12, <1>13
        DEF Next, Finished

(* The loop of ShowWrongCard always finds a card to show, unless an item was *)
(* used before the last one had done its work, or was answered when the      *)
(* cards had been picked or dealt again (card_manager.cpp:267-292).          *)
THEOREM FreezesOnlyIfHurriedAlways == Spec => []FreezesOnlyIfHurried
<1>1. Init => IInv /\ Unhurried BY InitHolds, UnhurriedInit
<1>2. (IInv /\ Unhurried) /\ [Next]_vars => (IInv /\ Unhurried)'
  BY StepKeeps, UnhurriedNext
<1>3. IInv /\ Unhurried => FreezesOnlyIfHurried
  BY DEF Unhurried, FreezesOnlyIfHurried
<1> QED BY <1>1, <1>2, <1>3, PTL DEF Spec
=============================================================================
