----------------------------- MODULE UserRecord -----------------------------
(* The document of one player and what each command of the crazyass server  *)
(* does to it: user.go and the tables of cmd.go.  There is no state here:    *)
(* every handler is an operator from the document and the request's body to  *)
(* an outcome.  LastLogin, RegTime and DeviceInfo are left out: nothing      *)
(* reads them back.                                                          *)
EXTENDS Integers, Sequences

CONSTANT UintMod    \* 2^32 in the code: Heart is a uint32

ASSUME UintModAssumption == UintMod \in Nat /\ UintMod > 99

-----------------------------------------------------------------------------
(* Commands, error codes and prices.                                         *)

kCmdUserLogin   == 1
kCmdStartPlay   == 2
kCmdEndPlay     == 3
kCmdIAPAddHeart == 4
kCmdEventLock   == 5
kCmdUseItem     == 6
Commands == 1..6

kErrNone             == 0
kErrInvalidParamters == 1
kErrReadDB           == 2
kErrWriteDB          == 3
kErrHeartNotEnough   == 4
kErrInvalidProto     == 5
ErrorCodes == 0..5

StageHeartConfig == <<2, 3, 4, 5, 6, 7>>
EventHeartConfig == <<12, 12, 12, 12>>
ItemHeartConfig  == <<3, 4, 5, 6, 7, 8, 4>>     \* items 1..7; item 0 is unused

Stages == 1..Len(StageHeartConfig)

-----------------------------------------------------------------------------
(* A message body is a map from these keys; Absent stands for a key that     *)
(* the map lacks.  "pass" is 1 for true.  The bodies are those the game      *)
(* client builds: a stage and an item it has, never one past the tables.     *)

Absent == -1
BodyKeys == {"stageid", "pass", "addheart", "eventid", "itemid"}
Bodies ==
  {b \in [BodyKeys -> Nat \cup {Absent}] :
     /\ b["stageid"] \in Stages \cup {Absent}
     /\ b["itemid"] \in 1..Len(ItemHeartConfig) \cup {Absent}
     /\ b["pass"] \in {0, 1, Absent}}
NoBody == [k \in BodyKeys |-> Absent]
Has(body, keys) == \A k \in keys : body[k] # Absent

(* The decoder writes the keys of a new body over the map of the last one.   *)
MergeBodyKeepsOld(old, new) ==                                  \* a mutant
  [k \in BodyKeys |-> IF old[k] # Absent THEN old[k] ELSE new[k]]
MergeBody(old, new) ==
  [k \in BodyKeys |-> IF new[k] # Absent THEN new[k] ELSE old[k]]

-----------------------------------------------------------------------------
(* The document.  An empty lock is an EventLock slice of length zero.        *)

Hearts == 0..(UintMod - 1)
Locks  == {<<>>} \cup [Stages -> Nat]
UserDb == [heart : Hearts, stage : Nat, lock : Locks]

FreshLock    == [s \in Stages |-> 1]
userRegister == [heart |-> 99, stage |-> 1, lock |-> <<>>]

AddHeartUnbounded(d, n) == [d EXCEPT !.heart = d.heart + n]      \* a mutant
AddHeart(d, n) == [d EXCEPT !.heart = (d.heart + n) % UintMod]
UseHeart(d, n) == AddHeart(d, -n)

(* Login's "for test" refill, and the locks ProcUserLogin fills in.          *)
LoginRefill(d) == IF d.heart < 30 THEN [d EXCEPT !.heart = 99] ELSE d
FillLock(d)    == IF d.lock = <<>> THEN [d EXCEPT !.lock = FreshLock] ELSE d

-----------------------------------------------------------------------------
(* What a handler leaves behind: the document, whether it set dirty, and the *)
(* error code of the reply.                                                  *)

Outcome == [udb : UserDb, dirty : BOOLEAN, err : ErrorCodes]
Changed(d)   == [udb |-> d, dirty |-> TRUE,  err |-> kErrNone]
Unchanged(d) == [udb |-> d, dirty |-> FALSE, err |-> kErrNone]
Refused(d, e) == [udb |-> d, dirty |-> FALSE, err |-> e]

ProcIAPAddHeart(d, body) ==
  IF Has(body, {"addheart"}) THEN Changed(AddHeart(d, body["addheart"]))
                             ELSE Refused(d, kErrInvalidProto)

ProcStartPlayOnCredit(d, body) ==                               \* a mutant
  IF Has(body, {"stageid"}) /\ body["stageid"] \in 1..d.stage
  THEN Changed(UseHeart(d, StageHeartConfig[body["stageid"]]))
  ELSE Refused(d, kErrInvalidParamters)
ProcStartPlay(d, body) ==
  LET sid == body["stageid"]
  IN CASE ~Has(body, {"stageid"}) -> Refused(d, kErrInvalidProto)
       [] Has(body, {"stageid"}) /\ sid \notin 1..d.stage ->
            Refused(d, kErrInvalidParamters)
       [] Has(body, {"stageid"}) /\ sid \in 1..d.stage ->
            IF d.heart < StageHeartConfig[sid]
            THEN Refused(d, kErrHeartNotEnough)
            ELSE Changed(UseHeart(d, StageHeartConfig[sid]))

ProcEndPlayForgetsDirty(d, body) ==                             \* a mutant
  Unchanged(IF body["stageid"] = d.stage THEN [d EXCEPT !.stage = @ + 1] ELSE d)
ProcEndPlay(d, body) ==
  LET sid == body["stageid"]
  IN CASE ~Has(body, {"stageid"}) -> Refused(d, kErrInvalidProto)
       [] Has(body, {"stageid"}) /\ sid > d.stage ->
            Refused(d, kErrInvalidParamters)
       [] Has(body, {"stageid"}) /\ sid = d.stage /\ ~Has(body, {"pass"}) ->
            Refused(d, kErrInvalidProto)
       [] Has(body, {"stageid", "pass"}) /\ sid = d.stage /\ body["pass"] = 1 ->
            Changed([d EXCEPT !.stage = @ + 1])
       [] OTHER -> Unchanged(d)

(* The lock is opened before the price is looked up, and the price is taken  *)
(* whether or not the player has it; stages 5 and 6 have none.               *)
ProcEventLock(d, body) ==
  LET sid == body["stageid"]
      opened == [d EXCEPT !.lock[sid] = body["eventid"]]
  IN CASE ~Has(body, {"stageid", "eventid"}) -> Refused(d, kErrInvalidProto)
       [] Has(body, {"stageid", "eventid"}) /\ sid \in DOMAIN EventHeartConfig ->
            Changed(UseHeart(opened, EventHeartConfig[sid]))
       [] OTHER -> Changed(opened)

(* Nothing asks whether the player can pay.                                  *)
ProcUseItem(d, body) ==
  IF Has(body, {"itemid"})
  THEN Changed(UseHeart(d, ItemHeartConfig[body["itemid"]]))
  ELSE Refused(d, kErrInvalidProto)

(* procFuncArray for a user that is logged in: a second login changes        *)
(* nothing.                                                                  *)
Serve(cmd, d, body) ==
  CASE cmd = kCmdUserLogin   -> Unchanged(d)
    [] cmd = kCmdStartPlay   -> ProcStartPlay(d, body)
    [] cmd = kCmdEndPlay     -> ProcEndPlay(d, body)
    [] cmd = kCmdIAPAddHeart -> ProcIAPAddHeart(d, body)
    [] cmd = kCmdEventLock   -> ProcEventLock(d, body)
    [] cmd = kCmdUseItem     -> ProcUseItem(d, body)
=============================================================================
