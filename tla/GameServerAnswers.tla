-------------------------- MODULE GameServerAnswers -------------------------
(* GameServer implements RequestReply towards clients that wait for every    *)
(* reply (MaxInFlight = 1): the refinement mapping.                          *)
EXTENDS GameServer

NoRequest == [cmd |-> 0, seq |-> 0]
Header(m) == [cmd |-> m.cmd, seq |-> m.seq]

Phase(c) == CASE link[c] = "none" -> "new"
              [] link[c] = "up" -> "open"
              [] OTHER -> "closed"
Waiting(c) == LET n == Len(answers[c])
              IN IF n < Len(asked[c]) THEN Header(asked[c][n + 1]) ELSE NoRequest
Got(c) == IF answers[c] = <<>> THEN NoRequest
                               ELSE Header(answers[c][Len(answers[c])])

RR == INSTANCE RequestReply
        WITH Clients <- Conns, Cmds <- Commands, NoRequest <- NoRequest,
             phase <- [c \in Conns |-> Phase(c)],
             waiting <- [c \in Conns |-> Waiting(c)],
             got <- [c \in Conns |-> Got(c)]

(* A client that waits for each reply is answered, by the reply to what it   *)
(* asked, unless its connection ends first (client.go:151-197).              *)
EveryRequestAnswered == RR!RRSpec
=============================================================================
