---------------------------- MODULE RequestReply ----------------------------
(* What the server promises a client that asks one thing at a time: every    *)
(* request is answered, by the reply that carries its own command and        *)
(* sequence number, unless the connection ends first.                        *)
EXTENDS Naturals

CONSTANTS Clients, Cmds, NoRequest

VARIABLES
  phase,    \* of each client: "new", "open" or "closed"
  waiting,  \* the request it waits on, or NoRequest
  got       \* the last reply it received, or NoRequest

rrvars == <<phase, waiting, got>>

Headers == [cmd : Cmds, seq : Nat]

RRInit ==
  /\ phase = [c \in Clients |-> "new"]
  /\ waiting = [c \in Clients |-> NoRequest]
  /\ got = [c \in Clients |-> NoRequest]

Open(c) ==
  /\ phase[c] = "new"
  /\ phase' = [phase EXCEPT ![c] = "open"]
  /\ UNCHANGED <<waiting, got>>

LastSeq(c) == IF got[c] = NoRequest THEN 0 ELSE got[c].seq

Ask(c) ==
  /\ phase[c] = "open" /\ waiting[c] = NoRequest
  /\ \E k \in Cmds : waiting' = [waiting EXCEPT ![c] = [cmd |-> k, seq |-> LastSeq(c) + 1]]
  /\ UNCHANGED <<phase, got>>

Answer(c) ==
  /\ phase[c] = "open" /\ waiting[c] # NoRequest
  /\ got' = [got EXCEPT ![c] = waiting[c]]
  /\ waiting' = [waiting EXCEPT ![c] = NoRequest]
  /\ UNCHANGED phase

HangUp(c) ==
  /\ phase[c] = "open"
  /\ phase' = [phase EXCEPT ![c] = "closed"]
  /\ UNCHANGED <<waiting, got>>

(* A crash of the server hangs up on everybody.                              *)
HangUpAll ==
  /\ phase' = [c \in Clients |-> IF phase[c] = "open" THEN "closed" ELSE phase[c]]
  /\ UNCHANGED <<waiting, got>>

RRNext == HangUpAll \/ \E c \in Clients : Open(c) \/ Ask(c) \/ Answer(c) \/ HangUp(c)

RRFairness ==
  \A c \in Clients : WF_rrvars(waiting[c] # NoRequest /\ (Answer(c) \/ HangUp(c)))

RRSpec == RRInit /\ [][RRNext]_rrvars /\ RRFairness
=============================================================================
