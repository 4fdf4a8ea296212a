---------------------------- MODULE MCGameServer ----------------------------
(* Small instances of GameServer.  Every connection belongs to the same      *)
(* player unless a run says otherwise.                                       *)
EXTENDS GameServerAnswers

CONSTANT Player

Body(f) == [k \in BodyKeys |-> IF k \in DOMAIN f THEN f[k] ELSE Absent]
Req(cmd, f) == [cmd |-> cmd, body |-> Body(f)]

LoginReq    == [cmd |-> kCmdUserLogin, body |-> NoBody]
StartStage1 == Req(kCmdStartPlay, [stageid |-> 1])
StartStage2 == Req(kCmdStartPlay, [stageid |-> 2])
StartStage6 == Req(kCmdStartPlay, [stageid |-> 6])
PassStage1  == Req(kCmdEndPlay, [stageid |-> 1, pass |-> 1])
PassStage6  == Req(kCmdEndPlay, [stageid |-> 6, pass |-> 1])
PassStage2  == Req(kCmdEndPlay, [stageid |-> 2, pass |-> 1])
Buy5        == Req(kCmdIAPAddHeart, [addheart |-> 5])
OpenEvent   == Req(kCmdEventLock, [stageid |-> 1, eventid |-> 2])
OpenFree    == Req(kCmdEventLock, [stageid |-> 5, eventid |-> 2])
UseFinger   == Req(kCmdUseItem, [itemid |-> 7])

OnePlayer    == [c \in Conns |-> Player]
NewDevice    == [c \in Conns |-> NoUser]
GrantsToOne  == [g \in Grants |-> Player]
TenHearts    == [g \in Grants |-> 10]

Doc(h, s)  == [heart |-> h, stage |-> s, lock |-> FreshLock]
Everyone(d) == [u \in Users |-> d]

KnownPlayer    == {Everyone(Doc(33, 1))}
NewOrKnown     == {Everyone(NoDoc), Everyone(Doc(29, 1))}
AlmostBroke    == {Everyone(Doc(30, 6))}
Newcomer       == {Everyone(NoDoc)}

ProgressReqs == {LoginReq, PassStage1}
SessionReqs  == {LoginReq, StartStage6, OpenEvent, PassStage6}
AllReqs      == {LoginReq, StartStage1, StartStage2, PassStage1, PassStage2,
                 Buy5, OpenEvent, OpenFree, UseFinger}
GrantReqs    == {LoginReq, Buy5}

=============================================================================
