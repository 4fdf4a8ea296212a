-------------------------- MODULE UserRecordProofs --------------------------
(* What every handler keeps of a document, whatever it is asked.             *)
EXTENDS UserRecord, TLAPS

-----------------------------------------------------------------------------
(* Hearts stay within a uint32 whatever is added or taken.                   *)
LEMMA AddHeartType ==
  ASSUME NEW d \in UserDb, NEW n \in Int
  PROVE  /\ AddHeart(d, n) \in UserDb
         /\ AddHeart(d, n).lock = d.lock
         /\ AddHeart(d, n).stage = d.stage
<1>1. d.heart + n \in Int BY DEF UserDb, Hearts
<1>2. (d.heart + n) % UintMod \in Hearts
  BY <1>1, UintModAssumption DEF Hearts
<1> QED BY <1>2 DEF AddHeart, UserDb

LEMMA UseHeartType ==
  ASSUME NEW d \in UserDb, NEW n \in Nat
  PROVE  /\ UseHeart(d, n) \in UserDb
         /\ UseHeart(d, n).lock = d.lock
         /\ UseHeart(d, n).stage = d.stage
<1>1. -n \in Int OBVIOUS
<1> QED BY <1>1, AddHeartType DEF UseHeart

LEMMA TablesType ==
  /\ \A s \in Stages : StageHeartConfig[s] \in Nat
  /\ \A s \in DOMAIN EventHeartConfig : EventHeartConfig[s] \in Nat
  /\ \A i \in 1..Len(ItemHeartConfig) : ItemHeartConfig[i] \in Nat
BY DEF Stages, StageHeartConfig, EventHeartConfig, ItemHeartConfig

LEMMA DocTypes ==
  /\ userRegister \in UserDb
  /\ FreshLock \in [Stages -> Nat]
  /\ \A d \in UserDb : /\ LoginRefill(d) \in UserDb
                       /\ FillLock(d) \in UserDb
                       /\ FillLock(d).lock \in [Stages -> Nat]
BY UintModAssumption
   DEF userRegister, UserDb, Hearts, Locks, FreshLock, LoginRefill, FillLock

LEMMA MergeType ==
  ASSUME NEW a \in Bodies, NEW b \in Bodies
  PROVE  MergeBody(a, b) \in Bodies
BY DEF MergeBody, Bodies, Absent, BodyKeys

-----------------------------------------------------------------------------
(* Whatever a handler is asked, it leaves a document with its six locks.     *)
Ready == {d \in UserDb : d.lock \in [Stages -> Nat]}

LEMMA OutcomeIntro ==
  ASSUME NEW d \in Ready, NEW e \in ErrorCodes
  PROVE  /\ Changed(d) \in Outcome /\ Unchanged(d) \in Outcome
         /\ Refused(d, e) \in Outcome
         /\ Changed(d).udb \in Ready /\ Unchanged(d).udb \in Ready
         /\ Refused(d, e).udb \in Ready
BY DEF Ready, Changed, Unchanged, Refused, Outcome, ErrorCodes, kErrNone

LEMMA ErrorTypes ==
  /\ kErrNone \in ErrorCodes /\ kErrInvalidParamters \in ErrorCodes
  /\ kErrReadDB \in ErrorCodes /\ kErrWriteDB \in ErrorCodes
  /\ kErrHeartNotEnough \in ErrorCodes /\ kErrInvalidProto \in ErrorCodes
BY DEF ErrorCodes, kErrNone, kErrInvalidParamters, kErrReadDB, kErrWriteDB,
       kErrHeartNotEnough, kErrInvalidProto

LEMMA IAPType ==
  ASSUME NEW d \in Ready, NEW b \in Bodies
  PROVE  ProcIAPAddHeart(d, b) \in Outcome /\ ProcIAPAddHeart(d, b).udb \in Ready
<1>1. CASE Has(b, {"addheart"})
  <2>1. b["addheart"] \in Int
    BY <1>1 DEF Bodies, BodyKeys, Has, Absent
  <2>2. AddHeart(d, b["addheart"]) \in Ready BY <2>1, AddHeartType DEF Ready
  <2> QED BY <1>1, <2>2, OutcomeIntro, ErrorTypes DEF ProcIAPAddHeart
<1>2. CASE ~Has(b, {"addheart"})
  BY <1>2, OutcomeIntro, ErrorTypes DEF ProcIAPAddHeart
<1> QED BY <1>1, <1>2

LEMMA StartPlayType ==
  ASSUME NEW d \in Ready, NEW b \in Bodies
  PROVE  ProcStartPlay(d, b) \in Outcome /\ ProcStartPlay(d, b).udb \in Ready
<1>1. ASSUME Has(b, {"stageid"}) PROVE UseHeart(d, StageHeartConfig[b["stageid"]]) \in Ready
  <2>1. b["stageid"] \in Stages
    BY <1>1 DEF Bodies, BodyKeys, Has, Absent
  <2>2. StageHeartConfig[b["stageid"]] \in Nat BY <2>1, TablesType
  <2> QED BY <2>2, UseHeartType DEF Ready
<1> QED BY <1>1, OutcomeIntro, ErrorTypes DEF ProcStartPlay

LEMMA EndPlayType ==
  ASSUME NEW d \in Ready, NEW b \in Bodies
  PROVE  ProcEndPlay(d, b) \in Outcome /\ ProcEndPlay(d, b).udb \in Ready
<1>1. [d EXCEPT !.stage = @ + 1] \in Ready BY DEF Ready, UserDb
<1> QED BY <1>1, OutcomeIntro, ErrorTypes DEF ProcEndPlay

LEMMA EventLockType ==
  ASSUME NEW d \in Ready, NEW b \in Bodies
  PROVE  ProcEventLock(d, b) \in Outcome /\ ProcEventLock(d, b).udb \in Ready
<1> DEFINE opened == [d EXCEPT !.lock[b["stageid"]] = b["eventid"]]
<1>1. CASE Has(b, {"stageid", "eventid"})
  <2>1. b["stageid"] \in Stages /\ b["eventid"] \in Nat
    BY <1>1 DEF Bodies, BodyKeys, Has, Absent
  <2>2. opened \in Ready BY <2>1 DEF Ready, UserDb, Locks
  <2>3. ASSUME b["stageid"] \in DOMAIN EventHeartConfig
        PROVE  UseHeart(opened, EventHeartConfig[b["stageid"]]) \in Ready
    BY <2>2, <2>3, TablesType, UseHeartType DEF Ready
  <2> HIDE DEF opened
  <2>4. ProcEventLock(d, b) \in {Changed(opened), Changed(UseHeart(opened, EventHeartConfig[b["stageid"]]))}
    BY <1>1 DEF ProcEventLock, opened
  <2>5. CASE b["stageid"] \in DOMAIN EventHeartConfig
    BY <1>1, <2>3, <2>5, OutcomeIntro, ErrorTypes DEF ProcEventLock, opened
  <2>6. CASE b["stageid"] \notin DOMAIN EventHeartConfig
    BY <1>1, <2>2, <2>6, OutcomeIntro, ErrorTypes DEF ProcEventLock, opened
  <2> QED BY <2>5, <2>6
<1>2. CASE ~Has(b, {"stageid", "eventid"})
  BY <1>2, OutcomeIntro, ErrorTypes DEF ProcEventLock
<1> QED BY <1>1, <1>2

LEMMA UseItemType ==
  ASSUME NEW d \in Ready, NEW b \in Bodies
  PROVE  ProcUseItem(d, b) \in Outcome /\ ProcUseItem(d, b).udb \in Ready
<1>1. ASSUME Has(b, {"itemid"}) PROVE UseHeart(d, ItemHeartConfig[b["itemid"]]) \in Ready
  <2>1. b["itemid"] \in 1..Len(ItemHeartConfig)
    BY <1>1 DEF Bodies, BodyKeys, Has, Absent
  <2> QED BY <2>1, TablesType, UseHeartType DEF Ready
<1> QED BY <1>1, OutcomeIntro, ErrorTypes DEF ProcUseItem

LEMMA ServeType ==
  ASSUME NEW d \in Ready, NEW b \in Bodies, NEW k \in Commands
  PROVE  Serve(k, d, b) \in Outcome /\ Serve(k, d, b).udb \in Ready
<1>1. Unchanged(d) \in Outcome /\ Unchanged(d).udb \in Ready
  BY OutcomeIntro, ErrorTypes
<1> QED
  BY <1>1, IAPType, StartPlayType, EndPlayType, EventLockType, UseItemType
  DEF Serve, Commands, kCmdUserLogin, kCmdStartPlay, kCmdEndPlay,
      kCmdIAPAddHeart, kCmdEventLock, kCmdUseItem

-----------------------------------------------------------------------------
(* No handler takes a player back; a stage that is passed is left behind,    *)
(* and one that is paid for is one the player has reached.                   *)
LEMMA EndPlayStage ==
  ASSUME NEW d \in Ready, NEW b \in Bodies
  PROVE  /\ ProcEndPlay(d, b).udb.stage \in Nat
         /\ ProcEndPlay(d, b).udb.stage >= d.stage
         /\ b["pass"] = 1 /\ b["stageid"] \in 1..d.stage
              => ProcEndPlay(d, b).udb.stage >= b["stageid"] + 1
<1>1. d.stage \in Nat /\ d \in UserDb BY DEF Ready, UserDb
<1> DEFINE e == [d EXCEPT !.stage = @ + 1]
<1>2. e.stage = d.stage + 1 BY <1>1 DEF UserDb
<1>3. ProcEndPlay(d, b).udb \in {d, e}
  BY DEF ProcEndPlay, Changed, Unchanged, Refused
<1>4. ASSUME b["pass"] = 1, b["stageid"] \in 1..d.stage
      PROVE  ProcEndPlay(d, b).udb.stage >= b["stageid"] + 1
  <2>1. /\ Has(b, {"stageid"}) /\ Has(b, {"pass"}) /\ Has(b, {"stageid", "pass"})
        /\ b["stageid"] \in Nat /\ b["stageid"] <= d.stage
    BY <1>1, <1>4 DEF Has, Absent
  <2> HIDE DEF e
  <2>2. CASE b["stageid"] = d.stage
    <3>1. ~(b["stageid"] > d.stage) BY <1>1, <2>2
    <3>2. ProcEndPlay(d, b) = Changed(e)
      BY <1>4, <2>1, <2>2, <3>1 DEF ProcEndPlay, e
    <3> QED BY <1>1, <1>2, <2>2, <3>2 DEF Changed
  <2>3. CASE b["stageid"] # d.stage
    <3>1. ProcEndPlay(d, b).udb.stage >= d.stage BY <1>1, <1>2, <1>3
    <3> QED BY <1>1, <1>2, <1>3, <2>1, <2>3, <3>1
  <2> QED BY <2>2, <2>3
<1> HIDE DEF e
<1> QED BY <1>1, <1>2, <1>3, <1>4

LEMMA StartPlayStage ==
  ASSUME NEW d \in Ready, NEW b \in Bodies
  PROVE  /\ ProcStartPlay(d, b).udb.stage = d.stage
         /\ ProcStartPlay(d, b).err = kErrNone => b["stageid"] \in 1..d.stage
<1>1. ASSUME Has(b, {"stageid"})
      PROVE  UseHeart(d, StageHeartConfig[b["stageid"]]).stage = d.stage
  <2>1. b["stageid"] \in Stages BY <1>1 DEF Bodies, BodyKeys, Has, Absent
  <2>2. StageHeartConfig[b["stageid"]] \in Nat BY <2>1, TablesType
  <2> QED BY <2>2, UseHeartType DEF Ready
<1>2. CASE ~Has(b, {"stageid"})
  BY <1>2 DEF ProcStartPlay, Refused, kErrNone, kErrInvalidProto
<1>3. CASE Has(b, {"stageid"}) /\ b["stageid"] \notin 1..d.stage
  BY <1>3 DEF ProcStartPlay, Refused, kErrNone, kErrInvalidParamters
<1>4. CASE Has(b, {"stageid"}) /\ b["stageid"] \in 1..d.stage
  BY <1>1, <1>4 DEF ProcStartPlay, Refused, Changed
<1> QED BY <1>2, <1>3, <1>4

LEMMA OtherStages ==
  ASSUME NEW d \in Ready, NEW b \in Bodies
  PROVE  /\ ProcIAPAddHeart(d, b).udb.stage = d.stage
         /\ ProcEventLock(d, b).udb.stage = d.stage
         /\ ProcUseItem(d, b).udb.stage = d.stage
<1>1. ProcIAPAddHeart(d, b).udb.stage = d.stage
  <2>1. CASE Has(b, {"addheart"})
    <3>1. b["addheart"] \in Int BY <2>1 DEF Bodies, BodyKeys, Has, Absent
    <3>2. AddHeart(d, b["addheart"]).stage = d.stage BY <3>1, AddHeartType DEF Ready
    <3> QED BY <2>1, <3>2 DEF ProcIAPAddHeart, Changed
  <2>2. CASE ~Has(b, {"addheart"}) BY <2>2 DEF ProcIAPAddHeart, Refused
  <2> QED BY <2>1, <2>2
<1>2. ProcUseItem(d, b).udb.stage = d.stage
  <2>1. CASE Has(b, {"itemid"})
    <3>1. b["itemid"] \in 1..Len(ItemHeartConfig)
      BY <2>1 DEF Bodies, BodyKeys, Has, Absent
    <3>2. UseHeart(d, ItemHeartConfig[b["itemid"]]).stage = d.stage
      BY <3>1, TablesType, UseHeartType DEF Ready
    <3> QED BY <2>1, <3>2 DEF ProcUseItem, Changed
  <2>2. CASE ~Has(b, {"itemid"}) BY <2>2 DEF ProcUseItem, Refused
  <2> QED BY <2>1, <2>2
<1>3. ProcEventLock(d, b).udb.stage = d.stage
  <2> DEFINE opened == [d EXCEPT !.lock[b["stageid"]] = b["eventid"]]
  <2>1. CASE Has(b, {"stageid", "eventid"})
    <3>1. b["stageid"] \in Stages /\ b["eventid"] \in Nat
      BY <2>1 DEF Bodies, BodyKeys, Has, Absent
    <3>2. opened \in UserDb /\ opened.stage = d.stage
      BY <3>1 DEF Ready, UserDb, Locks
    <3> HIDE DEF opened
    <3>3. ASSUME b["stageid"] \in DOMAIN EventHeartConfig
          PROVE  UseHeart(opened, EventHeartConfig[b["stageid"]]).stage = d.stage
      BY <3>2, <3>3, TablesType, UseHeartType
    <3>4. CASE b["stageid"] \in DOMAIN EventHeartConfig
      BY <2>1, <3>3, <3>4 DEF ProcEventLock, Changed, opened
    <3>5. CASE b["stageid"] \notin DOMAIN EventHeartConfig
      BY <2>1, <3>2, <3>5 DEF ProcEventLock, Changed, opened
    <3> QED BY <3>4, <3>5
  <2>2. CASE ~Has(b, {"stageid", "eventid"})
    BY <2>2 DEF ProcEventLock, Refused
  <2> QED BY <2>1, <2>2
<1> QED BY <1>1, <1>2, <1>3

LEMMA ServeStage ==
  ASSUME NEW d \in Ready, NEW b \in Bodies, NEW k \in Commands
  PROVE  /\ Serve(k, d, b).udb.stage >= d.stage
         /\ k = kCmdEndPlay /\ b["pass"] = 1 /\ b["stageid"] \in 1..d.stage
              => Serve(k, d, b).udb.stage >= b["stageid"] + 1
         /\ k = kCmdStartPlay /\ Serve(k, d, b).err = kErrNone
              => b["stageid"] \in 1..d.stage
<1>1. d.stage \in Nat BY DEF Ready, UserDb
<1> USE DEF kCmdUserLogin, kCmdStartPlay, kCmdEndPlay, kCmdIAPAddHeart,
            kCmdEventLock, kCmdUseItem
<1>2. CASE k = kCmdUserLogin BY <1>1, <1>2 DEF Serve, Unchanged
<1>3. CASE k = kCmdStartPlay
  <2>1. Serve(k, d, b) = ProcStartPlay(d, b) BY <1>3 DEF Serve
  <2> QED BY <1>1, <1>3, <2>1, StartPlayStage
<1>4. CASE k = kCmdEndPlay
  <2>1. Serve(k, d, b) = ProcEndPlay(d, b) BY <1>4 DEF Serve
  <2> QED BY <1>1, <1>4, <2>1, EndPlayStage
<1>5. CASE k \in {kCmdIAPAddHeart, kCmdEventLock, kCmdUseItem}
  <2>1. Serve(k, d, b).udb.stage = d.stage BY <1>5, OtherStages DEF Serve
  <2> QED BY <1>1, <1>5, <2>1
<1> QED BY <1>2, <1>3, <1>4, <1>5 DEF Commands
=============================================================================
