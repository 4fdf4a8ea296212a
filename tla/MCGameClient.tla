---------------------------- MODULE MCGameClient ----------------------------
(* Small instances of GameClient.                                            *)
EXTENDS GameClient

TwoGirls  == {1, 2}
Either    == {TRUE, FALSE}
(* A player with hearts to spend, and one whom unchecked prices have taken   *)
(* below zero, which is just below UintMod, with a stage passed.             *)
Rich      == [heart |-> 40, stage |-> 1, lock |-> FreshLock]
Overdrawn == [Rich EXCEPT !.heart = UintMod - 2, !.stage = 2]
OnlyRich  == {Rich}
RichOrOverdrawn == {Rich, Overdrawn}
=============================================================================
