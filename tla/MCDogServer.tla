----------------------------- MODULE MCDogServer -----------------------------
(* Small instances of DogServer: one user with a dog and one without a       *)
(* document, two of whose sessions meet.                                     *)
EXTENDS DogServer, TLC

CONSTANTS c1, c2, u1, u2, d1

TwoConns == {c1, c2}
TwoUsers == {u1, u2}
OneDog   == {d1}
Login(u) == [cmd |-> "UserLogin", body |-> u]
Do(cmd, t) == [cmd |-> cmd, body |-> [dog |-> d1, type |-> t]]

Docs     == u1 :> [own |-> TRUE, last |-> 0] @@ u2 :> None
(* The dog may be fed at once and played with at 1.                          *)
TheDogs  == u1 :> (d1 :> [DogFeed |-> 0, DogPlay |-> 1, DogTrain |-> 0]) @@ u2 :> NoDogs
Tables   == [k \in Care |-> 1]
NoTraining == {Care \ {"DogTrain"}}
AllTables == {Care}

NoBody(cmd) == [cmd |-> cmd, body |-> None]
Everything == c1 :> {Login(u1), Login(u2), Login(None), Do("DogFeed", 0),
                     Do("DogFeed", 1), Do("DogTrain", 0), Do("DogPlay", 0)}
           @@ c2 :> {Login(u1), NoBody("Reserved"), NoBody("Unregistered"),
                     NoBody("Invalid")}
TwoAndOne  == c1 :> 2 @@ c2 :> 1
Feeding    == [c \in TwoConns |-> {Login(u1), Do("DogFeed", 0)}]
=============================================================================
