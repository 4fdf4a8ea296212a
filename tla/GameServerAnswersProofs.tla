----------------------- MODULE GameServerAnswersProofs ----------------------
(* What holds of GameServer for clients that wait for each reply before they *)
(* ask again: the one buffer of a connection serves them faithfully, and     *)
(* every step they can see is a step of RequestReply.                        *)
EXTENDS GameServerAnswers, GameServerProofs

SameHeader(m, n) == m.cmd = n.cmd /\ m.seq = n.seq

-----------------------------------------------------------------------------
(* The line of a connection: its requests are sent, handled and answered one *)
(* at a time, and the one on its way is in one place only: in the inbox, in  *)
(* the buffer the reader fills, in req_chan, or before procMsg.              *)
InHand   == {"dispatch", "handle"}
Answering == {"insert", "store", "send"}
Latest(c) == asked[c][Len(asked[c])]

Counts(c) ==
  /\ Len(answers[c]) <= Len(served[c])
  /\ Len(served[c]) <= Len(asked[c])
  /\ Len(asked[c]) <= Len(answers[c]) + 1

Pending(c) == inbox[c] # <<>> \/ Awaited(c)

OnePlace(c) ==
  /\ Awaited(c) => inbox[c] = <<>>
  /\ reader[c] = "push" => reqChan[c] # "msg" /\ main[c] \notin InHand
  /\ reqChan[c] = "msg" => main[c] \notin InHand

(* What each of those places holds is what the client asked last.            *)
PendingIsLatest(c) ==
  /\ Pending(c) => Len(asked[c]) = Len(served[c]) + 1
  /\ inbox[c] # <<>> => inbox[c] = <<Latest(c)>>
  /\ reader[c] = "decode" \/ Awaited(c) => Wanted(Latest(c), cmsg[c].body)
  /\ Awaited(c) => SameHeader(cmsg[c], Latest(c))

(* From Dispatch to SendReply the reply carries the header of its request.   *)
ReplyIsLatest(c) ==
  /\ main[c] = "handle" => SameHeader(reply[c], cmsg[c])
  /\ main[c] \in Answering =>
       /\ Len(served[c]) = Len(answers[c]) + 1
       /\ SameHeader(reply[c], Latest(c))

HistoryMatches(c) ==
  /\ \A i \in 1..Len(asked[c]) : asked[c][i].seq = i
  /\ \A i \in 1..Len(served[c]) : /\ SameHeader(served[c][i], asked[c][i])
                                  /\ Wanted(asked[c][i], served[c][i].body)
  /\ \A i \in 1..Len(answers[c]) : SameHeader(answers[c][i], asked[c][i])

Line(c) == /\ Counts(c) /\ OnePlace(c) /\ PendingIsLatest(c)
           /\ ReplyIsLatest(c) /\ HistoryMatches(c)

(* A connection is new until Proc starts on it, and never again.             *)
Fresh(c) == main[c] = "off" <=> link[c] = "none"

AInv == IInv /\ (\A c \in Conns : Fresh(c)) /\ (\A c \in Conns : Line(c))

(* A step that leaves a connection's messages alone and brings no goroutine  *)
(* of it into a place of the line leaves the line as it is.                  *)
Still(c) ==
  /\ asked'[c] = asked[c] /\ served'[c] = served[c] /\ answers'[c] = answers[c]
  /\ inbox'[c] = inbox[c] /\ cmsg'[c] = cmsg[c]
  /\ reader'[c] \in {"push", "decode"} => reader'[c] = reader[c]
  /\ reqChan'[c] = "msg" => reqChan[c] = "msg"
  /\ main'[c] \in InHand => main'[c] = main[c]
  /\ main'[c] \in Answering => main[c] \in Answering
  /\ main'[c] \in {"handle"} \cup Answering => SameHeader(reply'[c], reply[c])

LEMMA StillLine == ASSUME NEW c \in Conns, Line(c), Still(c) PROVE Line(c)'
<1> USE DEF Line, Still
<1>1. Counts(c)' BY DEF Counts
<1>2. Awaited(c)' => Awaited(c) BY DEF Awaited, InHand
<1>3. OnePlace(c)' BY <1>2 DEF OnePlace, InHand
<1>4. Latest(c)' = Latest(c) BY DEF Latest
<1>5. PendingIsLatest(c)' BY <1>2, <1>4 DEF PendingIsLatest, Pending
<1>6. ReplyIsLatest(c)'
  <2>1. main'[c] = "handle" => main[c] = "handle" BY DEF InHand
  <2> QED BY <1>4, <2>1 DEF ReplyIsLatest, SameHeader, Answering
<1>7. HistoryMatches(c)' BY DEF HistoryMatches
<1> QED BY <1>1, <1>3, <1>5, <1>6, <1>7

LEMMA LineInit == Init => \A c \in Conns : Line(c)
<1> SUFFICES ASSUME Init, NEW c \in Conns PROVE Line(c) OBVIOUS
<1>1. /\ asked[c] = <<>> /\ served[c] = <<>> /\ answers[c] = <<>>
      /\ inbox[c] = <<>> /\ main[c] = "off" /\ reader[c] = "off"
      /\ reqChan[c] = "empty"
  BY DEF Init
<1>2. Len(<<>>) = 0 OBVIOUS
<1>3. ~Awaited(c) BY <1>1 DEF Awaited
<1>4. Counts(c) BY <1>1, <1>2 DEF Counts
<1>5. OnePlace(c) BY <1>1, <1>3 DEF OnePlace
<1>6. PendingIsLatest(c) BY <1>1, <1>3 DEF PendingIsLatest, Pending
<1>7. ReplyIsLatest(c) BY <1>1 DEF ReplyIsLatest, Answering
<1>8. HistoryMatches(c) BY <1>1, <1>2 DEF HistoryMatches
<1> QED BY <1>4, <1>5, <1>6, <1>7, <1>8 DEF Line

-----------------------------------------------------------------------------
(* The steps that move the line, for the connection they move.               *)
LEMMA SendShape ==
  ASSUME IInv, NEW c \in Conns, ClientSend(c)
  PROVE  \E m \in Messages : /\ inbox' = [inbox EXCEPT ![c] = Append(@, m)]
                             /\ asked' = [asked EXCEPT ![c] = Append(@, m)]
                             /\ m.seq = Len(asked[c]) + 1
<1>1. PICK r \in Requests :
        LET m == [cmd |-> r.cmd, seq |-> Len(asked[c]) + 1, body |-> r.body]
        IN /\ inbox' = [inbox EXCEPT ![c] = Append(@, m)]
           /\ asked' = [asked EXCEPT ![c] = Append(@, m)]
  BY DEF ClientSend
<1> DEFINE m == [cmd |-> r.cmd, seq |-> Len(asked[c]) + 1, body |-> r.body]
<1>2. Len(asked[c]) \in Nat BY DEF IInv, TypeOK
<1>3. m \in Messages BY <1>2, DataAssumption DEF Messages
<1>4. m.seq = Len(asked[c]) + 1 OBVIOUS
<1>5. /\ inbox' = [inbox EXCEPT ![c] = Append(@, m)]
      /\ asked' = [asked EXCEPT ![c] = Append(@, m)]
  BY <1>1
<1> HIDE DEF m
<1> QED BY <1>3, <1>4, <1>5

LEMMA SendLine ==
  ASSUME MaxInFlight = 1, IInv, NEW c \in Conns, Line(c), ClientSend(c)
  PROVE  Line(c)'
<1> USE DEF Line, IInv, TypeOK
<1>1. PICK m \in Messages :
        /\ inbox' = [inbox EXCEPT ![c] = Append(@, m)]
        /\ asked' = [asked EXCEPT ![c] = Append(@, m)]
        /\ m.seq = Len(asked[c]) + 1
  BY SendShape
<1>2. UNCHANGED <<main, reader, reqChan, cmsg, reply, served, answers>>
  BY DEF ClientSend
<1>3. /\ asked[c] \in Seq(Messages) /\ inbox[c] \in Seq(Messages)
      /\ served[c] \in Seq(Messages) /\ answers[c] \in Seq(Replies)
  OBVIOUS
<1>4. /\ asked'[c] = Append(asked[c], m) /\ inbox'[c] = Append(inbox[c], m)
      /\ served'[c] = served[c] /\ answers'[c] = answers[c]
  BY <1>1, <1>2
<1>5. /\ Len(asked'[c]) = Len(asked[c]) + 1 /\ Len(asked[c]) \in Nat
      /\ asked'[c][Len(asked[c]) + 1] = m
      /\ \A i \in 1..Len(asked[c]) : asked'[c][i] = asked[c][i]
  BY <1>3, <1>4
<1>6. Len(served[c]) \in Nat /\ Len(answers[c]) \in Nat BY <1>3
<1>7. /\ Len(asked[c]) = Len(answers[c]) /\ Len(served[c]) = Len(answers[c])
  <2>1. Len(asked[c]) - Len(answers[c]) < 1 BY DEF ClientSend
  <2> QED BY <2>1, <1>5, <1>6 DEF Counts
<1>8. ~Pending(c) /\ main[c] \notin Answering
  BY <1>5, <1>6, <1>7 DEF PendingIsLatest, ReplyIsLatest
<1>9. ~Awaited(c) /\ inbox[c] = <<>> BY <1>8 DEF Pending
<1>10. reader[c] # "decode" BY <1>9 DEF HandlersReady
<1>11. ~Awaited(c)' BY <1>2, <1>9 DEF Awaited
<1>12. Latest(c)' = m BY <1>5 DEF Latest
<1>13. inbox'[c] = <<m>> BY <1>4, <1>9
<1>14. Counts(c)' BY <1>4, <1>5, <1>6, <1>7 DEF Counts
<1>15. OnePlace(c)'
  BY <1>2, <1>11 DEF OnePlace, Awaited, InHand
<1>16. PendingIsLatest(c)'
  BY <1>2, <1>4, <1>5, <1>6, <1>7, <1>10, <1>11, <1>12, <1>13 DEF PendingIsLatest
<1>17. ReplyIsLatest(c)'
  BY <1>2, <1>8, <1>9 DEF ReplyIsLatest, Awaited
<1>18. HistoryMatches(c)'
  <2>1. \A i \in 1..Len(asked'[c]) : asked'[c][i].seq = i
    BY <1>1, <1>5 DEF HistoryMatches
  <2>2. \A i \in 1..Len(served[c]) : i \in 1..Len(asked[c])
    BY <1>5, <1>6, <1>7
  <2>3. \A i \in 1..Len(answers[c]) : i \in 1..Len(asked[c])
    BY <1>5, <1>6, <1>7
  <2>4. \A i \in 1..Len(served'[c]) : /\ SameHeader(served'[c][i], asked'[c][i])
                                      /\ Wanted(asked'[c][i], served'[c][i].body)
    BY <1>4, <1>5, <2>2 DEF HistoryMatches
  <2>5. \A i \in 1..Len(answers'[c]) : SameHeader(answers'[c][i], asked'[c][i])
    BY <1>4, <1>5, <2>3 DEF HistoryMatches
  <2> QED BY <2>1, <2>4, <2>5 DEF HistoryMatches
<1> QED BY <1>14, <1>15, <1>16, <1>17, <1>18

(* A body decoded over an older one holds every key the request set.         *)
LEMMA MergeKeepsWanted ==
  ASSUME NEW m, NEW old PROVE Wanted(m, MergeBody(old, m.body))
BY DEF Wanted, MergeBody

(* While the line's messages stay, only the buffer, the reply and where the  *)
(* goroutines are have to be looked at.                                      *)
LEMMA SameCounts ==
  ASSUME NEW c \in Conns, Line(c), asked'[c] = asked[c],
         served'[c] = served[c], answers'[c] = answers[c]
  PROVE  Counts(c)' /\ HistoryMatches(c)' /\ Latest(c)' = Latest(c)
BY DEF Line, Counts, HistoryMatches, Latest

LEMMA ReadBodyLine ==
  ASSUME IInv, NEW c \in Conns, Line(c), ReadBody(c) PROVE Line(c)'
<1> USE DEF Line, IInv, TypeOK
<1>1. /\ reader[c] = "read" /\ inbox[c] # <<>>
      /\ cmsg' = [cmsg EXCEPT ![c].body = MergeBody(@, Head(inbox[c]).body)]
      /\ reader' = [reader EXCEPT ![c] = "decode"]
      /\ UNCHANGED <<main, inbox, reqChan, reply, asked, served, answers>>
  BY DEF ReadBody, history
<1>2. Counts(c)' /\ HistoryMatches(c)' /\ Latest(c)' = Latest(c)
  BY <1>1, SameCounts
<1>3. inbox[c] = <<Latest(c)>> BY <1>1 DEF PendingIsLatest
<1>4. Head(inbox[c]) = Latest(c) BY <1>3
<1>5. cmsg'[c].body = MergeBody(cmsg[c].body, Latest(c).body)
  BY <1>1, <1>4 DEF Buffers
<1>6. Wanted(Latest(c), cmsg'[c].body) BY <1>5, MergeKeepsWanted
<1>7. ~Awaited(c) BY <1>1 DEF OnePlace
<1>8. ~Awaited(c)' BY <1>1, <1>7 DEF Awaited
<1>9. OnePlace(c)' BY <1>1, <1>8 DEF OnePlace, Awaited, InHand
<1>10. PendingIsLatest(c)'
  BY <1>1, <1>2, <1>6, <1>8 DEF PendingIsLatest, Pending
<1>11. ReplyIsLatest(c)'
  BY <1>1, <1>2, <1>7 DEF ReplyIsLatest, Awaited
<1> QED BY <1>2, <1>9, <1>10, <1>11

LEMMA ReadHeaderLine ==
  ASSUME IInv, NEW c \in Conns, Line(c), ReadHeader(c) PROVE Line(c)'
<1> USE DEF Line, IInv, TypeOK
<1>1. /\ reader[c] = "decode"
      /\ cmsg' = [cmsg EXCEPT ![c].cmd = Head(inbox[c]).cmd,
                              ![c].seq = Head(inbox[c]).seq]
      /\ inbox' = [inbox EXCEPT ![c] = Tail(@)]
      /\ reader' = [reader EXCEPT ![c] = "push"]
      /\ UNCHANGED <<main, reqChan, reply, asked, served, answers>>
  BY DEF ReadHeader, history
<1>2. Counts(c)' /\ HistoryMatches(c)' /\ Latest(c)' = Latest(c)
  BY <1>1, SameCounts
<1>3. inbox[c] # <<>> BY <1>1 DEF HandlersReady
<1>4. inbox[c] = <<Latest(c)>> BY <1>3 DEF PendingIsLatest
<1>5. Head(inbox[c]) = Latest(c) /\ Tail(inbox[c]) = <<>> BY <1>4
<1>6. /\ cmsg'[c].cmd = Latest(c).cmd /\ cmsg'[c].seq = Latest(c).seq
      /\ cmsg'[c].body = cmsg[c].body
  BY <1>1, <1>5 DEF Buffers
<1>7. ~Awaited(c) BY <1>3 DEF OnePlace
<1>8. inbox'[c] = <<>> BY <1>1, <1>5
<1>9. OnePlace(c)' BY <1>1, <1>7, <1>8 DEF OnePlace, Awaited, InHand
<1>10. Len(asked[c]) = Len(served[c]) + 1 BY <1>3 DEF PendingIsLatest, Pending
<1>11. Wanted(Latest(c), cmsg[c].body) BY <1>1 DEF PendingIsLatest
<1>12. PendingIsLatest(c)'
  BY <1>1, <1>2, <1>6, <1>8, <1>10, <1>11 DEF PendingIsLatest, SameHeader
<1>13. ReplyIsLatest(c)'
  BY <1>1, <1>2, <1>7 DEF ReplyIsLatest, Awaited
<1> QED BY <1>2, <1>9, <1>12, <1>13

(* The request changes place without being touched.                          *)
LEMMA HandOverLine ==
  ASSUME IInv, NEW c \in Conns, Line(c), PushRequest(c) \/ TakeRequest(c)
  PROVE  Line(c)'
<1> USE DEF Line, IInv, TypeOK
<1>1. UNCHANGED <<inbox, cmsg, reply, asked, served, answers>>
  BY DEF PushRequest, TakeRequest, history
<1>2. Counts(c)' /\ HistoryMatches(c)' /\ Latest(c)' = Latest(c)
  BY <1>1, SameCounts
<1>3. CASE PushRequest(c)
  <2>1. /\ reader[c] = "push" /\ reader'[c] = "read" /\ reqChan'[c] = "msg"
        /\ main'[c] = main[c]
    BY <1>3 DEF PushRequest
  <2>2. Awaited(c) /\ Awaited(c)' /\ main[c] \notin InHand
    BY <2>1 DEF Awaited, OnePlace
  <2>3. OnePlace(c)' BY <1>1, <2>1, <2>2 DEF OnePlace
  <2>4. PendingIsLatest(c)'
    BY <1>1, <1>2, <2>1, <2>2 DEF PendingIsLatest, Pending
  <2>5. ReplyIsLatest(c)' BY <1>1, <1>2, <2>1, <2>2 DEF ReplyIsLatest, InHand
  <2> QED BY <1>2, <2>3, <2>4, <2>5
<1>4. CASE TakeRequest(c) /\ reqChan[c] = "msg"
  <2>1. /\ main'[c] = "dispatch" /\ reqChan'[c] = "empty" /\ reader'[c] = reader[c]
    BY <1>4 DEF TakeRequest, Goto
  <2>2. Awaited(c) /\ Awaited(c)' /\ reader[c] # "push"
    BY <1>4, <2>1 DEF Awaited, OnePlace
  <2>3. OnePlace(c)' BY <1>1, <2>1, <2>2 DEF OnePlace
  <2>4. PendingIsLatest(c)'
    BY <1>1, <1>2, <2>1, <2>2 DEF PendingIsLatest, Pending
  <2>5. ReplyIsLatest(c)' BY <2>1 DEF ReplyIsLatest, Answering
  <2> QED BY <1>2, <2>3, <2>4, <2>5
<1>5. CASE TakeRequest(c) /\ reqChan[c] # "msg"
  <2>1. main'[c] = "top" /\ reqChan'[c] = "empty" /\ reader'[c] = reader[c]
    BY <1>5 DEF TakeRequest, Goto
  <2>2. Still(c) BY <1>1, <2>1 DEF Still, InHand, Answering
  <2> QED BY <2>2, StillLine
<1> QED BY <1>3, <1>4, <1>5

LEMMA DispatchLine ==
  ASSUME IInv, NEW c \in Conns, Line(c), Dispatch(c) PROVE Line(c)'
<1> USE DEF Line, IInv, TypeOK
<1>1. /\ main[c] = "dispatch" /\ main'[c] = "handle"
      /\ reply'[c].cmd = cmsg[c].cmd /\ reply'[c].seq = cmsg[c].seq
      /\ UNCHANGED <<reader, reqChan, inbox, cmsg, asked, served, answers>>
  BY DEF Dispatch, transport, history, Goto
<1>2. Counts(c)' /\ HistoryMatches(c)' /\ Latest(c)' = Latest(c)
  BY <1>1, SameCounts
<1>3. Awaited(c) /\ Awaited(c)' BY <1>1 DEF Awaited
<1>4. OnePlace(c)' BY <1>1, <1>3 DEF OnePlace, InHand
<1>5. PendingIsLatest(c)' BY <1>1, <1>2, <1>3 DEF PendingIsLatest, Pending
<1>6. ReplyIsLatest(c)' BY <1>1 DEF ReplyIsLatest, SameHeader, Answering
<1> QED BY <1>2, <1>4, <1>5, <1>6

(* A handler records the request it has in hand and keeps the reply's header.*)
LEMMA HandlerShape ==
  ASSUME IInv, NEW c \in Conns,
         KickStranger(c) \/ Handle(c) \/ LoginLoad(c) \/ LoginLoadFails(c)
  PROVE  /\ main[c] = "handle" /\ main'[c] \in {"insert", "store"}
         /\ Record(c)
         /\ SameHeader(reply'[c], reply[c])
         /\ \A d \in Conns \ {c} : main'[d] = main[d] /\ reply'[d] = reply[d]
         /\ UNCHANGED <<reader, inbox, reqChan, cmsg, asked, answers>>
<1> USE DEF IInv, TypeOK, Goto, transport, SameHeader
<1>1. CASE KickStranger(c)
  <2>1. reply'[c].cmd = reply[c].cmd /\ reply'[c].seq = reply[c].seq
    BY <1>1 DEF KickStranger, Replies
  <2> QED BY <1>1, <2>1 DEF KickStranger
<1>2. CASE Handle(c)
  <2> DEFINE e == Serve(cmsg[c].cmd, user[c].udb, cmsg[c].body).err
  <2>1. reply' = [reply EXCEPT ![c].err = e] BY <1>2 DEF Handle
  <2> HIDE DEF e
  <2>2. reply'[c].cmd = reply[c].cmd /\ reply'[c].seq = reply[c].seq
    BY <2>1 DEF Replies
  <2>3. main' = [main EXCEPT ![c] = "store"] /\ main[c] = "handle" /\ Record(c)
        /\ UNCHANGED <<reader, inbox, reqChan, cmsg, asked, answers>>
    BY <1>2 DEF Handle
  <2> QED BY <2>1, <2>2, <2>3
<1>3. CASE LoginLoad(c)
  <2>1. main' = [main EXCEPT ![c] = "insert"] /\ main[c] = "handle" /\ Record(c)
        /\ UNCHANGED <<reader, inbox, reqChan, cmsg, asked, answers, reply>>
    BY <1>3 DEF LoginLoad
  <2> QED BY <2>1
<1>4. CASE LoginLoadFails(c)
  <2>1. reply'[c].cmd = reply[c].cmd /\ reply'[c].seq = reply[c].seq
    BY <1>4 DEF LoginLoadFails, Replies
  <2> QED BY <1>4, <2>1 DEF LoginLoadFails
<1> QED BY <1>1, <1>2, <1>3, <1>4

LEMMA HandlerLine ==
  ASSUME IInv, NEW c \in Conns, Line(c),
         KickStranger(c) \/ Handle(c) \/ LoginLoad(c) \/ LoginLoadFails(c)
  PROVE  Line(c)'
<1> USE DEF Line, IInv, TypeOK
<1> DEFINE m == [cmd |-> cmsg[c].cmd, body |-> cmsg[c].body, seq |-> reply[c].seq]
<1>1. /\ main[c] = "handle" /\ main'[c] \in {"insert", "store"} /\ Record(c)
      /\ SameHeader(reply'[c], reply[c])
      /\ UNCHANGED <<reader, inbox, reqChan, cmsg, asked, answers>>
  BY HandlerShape
<1>2. m \in Messages
  BY <1>1 DEF HandlersReady, Awaited, Buffers, Replies, Messages
<1>3. /\ Awaited(c) /\ inbox[c] = <<>> /\ reader[c] # "push" /\ reqChan[c] # "msg"
  BY <1>1 DEF Awaited, OnePlace, InHand
<1>4. /\ Len(asked[c]) = Len(served[c]) + 1
      /\ SameHeader(cmsg[c], Latest(c)) /\ Wanted(Latest(c), cmsg[c].body)
      /\ SameHeader(reply[c], cmsg[c])
  BY <1>1, <1>3 DEF PendingIsLatest, Pending, ReplyIsLatest
<1>5. SameHeader(m, Latest(c)) /\ Wanted(Latest(c), m.body)
  BY <1>4 DEF SameHeader
<1> HIDE DEF m
<1>6. served'[c] = Append(served[c], m) BY <1>1 DEF Record, m
<1>7. /\ served[c] \in Seq(Messages) /\ Len(served[c]) \in Nat
      /\ Len(asked[c]) \in Nat /\ Len(answers[c]) \in Nat
  OBVIOUS
<1>8. /\ Len(served'[c]) = Len(served[c]) + 1
      /\ served'[c][Len(served[c]) + 1] = m
      /\ \A i \in 1..Len(served[c]) : served'[c][i] = served[c][i]
  BY <1>2, <1>6, <1>7
<1>9. Latest(c)' = Latest(c) /\ asked[c][Len(served[c]) + 1] = Latest(c)
  BY <1>1, <1>4 DEF Latest
<1>10. ~Awaited(c)' BY <1>1, <1>3 DEF Awaited
<1>11. reader[c] # "decode" BY <1>3 DEF HandlersReady
<1>12. Counts(c)' BY <1>1, <1>4, <1>7, <1>8 DEF Counts
<1>13. OnePlace(c)' BY <1>1, <1>3, <1>10 DEF OnePlace, InHand
<1>14. PendingIsLatest(c)'
  BY <1>1, <1>3, <1>10, <1>11 DEF PendingIsLatest, Pending
<1>15. ReplyIsLatest(c)'
  <2>1. Len(served'[c]) = Len(answers[c]) + 1
    BY <1>4, <1>7, <1>8 DEF Counts
  <2>2. SameHeader(reply'[c], Latest(c)) BY <1>1, <1>4 DEF SameHeader
  <2> QED BY <1>1, <1>9, <2>1, <2>2 DEF ReplyIsLatest
<1>16. HistoryMatches(c)'
  <2>1. ASSUME NEW i \in 1..Len(served'[c])
        PROVE  /\ SameHeader(served'[c][i], asked[c][i])
               /\ Wanted(asked[c][i], served'[c][i].body)
    <3>1. CASE i \in 1..Len(served[c]) BY <3>1, <1>8 DEF HistoryMatches
    <3>2. CASE i = Len(served[c]) + 1 BY <3>2, <1>5, <1>8, <1>9
    <3> QED BY <1>7, <1>8, <3>1, <3>2
  <2> QED BY <1>1, <2>1 DEF HistoryMatches
<1> QED BY <1>12, <1>13, <1>14, <1>15, <1>16

LEMMA SendReplyLine ==
  ASSUME IInv, NEW c \in Conns, Line(c), SendReply(c) PROVE Line(c)'
<1> USE DEF Line, IInv, TypeOK
<1>1. /\ main[c] = "send" /\ main'[c] = "top"
      /\ UNCHANGED <<reader, reqChan, inbox, cmsg, reply, asked, served>>
  BY DEF SendReply, transport, Goto
<1>2. CASE link[c] # "up"
  <2>1. Still(c) BY <1>1, <1>2 DEF SendReply, Still, InHand, Answering
  <2> QED BY <2>1, StillLine
<1>3. CASE link[c] = "up"
  <2>1. answers'[c] = Append(answers[c], reply[c]) BY <1>3 DEF SendReply
  <2>2. /\ answers[c] \in Seq(Replies) /\ reply[c] \in Replies
        /\ Len(answers[c]) \in Nat /\ Len(served[c]) \in Nat /\ Len(asked[c]) \in Nat
    OBVIOUS
  <2>3. /\ Len(answers'[c]) = Len(answers[c]) + 1
        /\ answers'[c][Len(answers[c]) + 1] = reply[c]
        /\ \A i \in 1..Len(answers[c]) : answers'[c][i] = answers[c][i]
    BY <2>1, <2>2
  <2>4. Len(served[c]) = Len(answers[c]) + 1 /\ SameHeader(reply[c], Latest(c))
    BY <1>1 DEF ReplyIsLatest, Answering
  <2>5. Len(asked[c]) = Len(answers[c]) + 1 BY <2>2, <2>4 DEF Counts
  <2>6. Latest(c)' = Latest(c) /\ asked[c][Len(answers[c]) + 1] = Latest(c)
    BY <1>1, <2>5 DEF Latest
  <2>7. Counts(c)' BY <1>1, <2>2, <2>3, <2>4, <2>5 DEF Counts
  <2>8. ~Pending(c) BY <2>2, <2>4, <2>5 DEF PendingIsLatest
  <2>9. ~Awaited(c)' /\ inbox'[c] = <<>> BY <1>1, <2>8 DEF Pending, Awaited
  <2>10. reader[c] # "decode" BY <2>8 DEF Pending, HandlersReady
  <2>11. OnePlace(c)' BY <1>1, <2>9 DEF OnePlace, Awaited, InHand
  <2>12. PendingIsLatest(c)' BY <1>1, <2>9, <2>10 DEF PendingIsLatest, Pending
  <2>13. ReplyIsLatest(c)' BY <1>1 DEF ReplyIsLatest, Answering
  <2>14. ASSUME NEW i \in 1..Len(answers'[c])
         PROVE  SameHeader(answers'[c][i], asked[c][i])
    <3>1. CASE i \in 1..Len(answers[c]) BY <3>1, <2>3 DEF HistoryMatches
    <3>2. CASE i = Len(answers[c]) + 1 BY <3>2, <2>3, <2>4, <2>6
    <3> QED BY <2>2, <2>3, <3>1, <3>2
  <2>15. HistoryMatches(c)' BY <1>1, <2>14 DEF HistoryMatches
  <2> QED BY <2>7, <2>11, <2>12, <2>13, <2>15
<1> QED BY <1>2, <1>3

-----------------------------------------------------------------------------
(* Every other step leaves the line still.                                   *)
LEMMA QuietLine ==
  ASSUME IInv, NEW c \in Conns,
         \/ Connect(c) \/ ClientLeave(c) \/ ReadError(c) \/ PushNil(c)
         \/ TopOfLoop(c) \/ TakeCredit(c) \/ procTimeout(c) \/ InsertOnline(c)
         \/ Store(c) \/ StoreFails(c) \/ Unregister(c) \/ Close(c)
  PROVE  Still(c)
<1> USE DEF IInv, TypeOK, transport, history, Goto, Still, InHand, Answering,
            SameHeader
<1>1. ASSUME \/ Connect(c) \/ ClientLeave(c) \/ ReadError(c) \/ PushNil(c)
      PROVE  Still(c)
  BY <1>1 DEF Connect, ClientLeave, ReadError, PushNil
<1>2. CASE TopOfLoop(c)
  <2>1. reply'[c].cmd = reply[c].cmd /\ reply'[c].seq = reply[c].seq
    BY <1>2 DEF TopOfLoop, Replies
  <2> QED BY <1>2, <2>1 DEF TopOfLoop
<1>3. CASE TakeCredit(c) \/ procTimeout(c) BY <1>3 DEF TakeCredit, procTimeout
<1>4. CASE InsertOnline(c) BY <1>4 DEF InsertOnline
<1>5. CASE Store(c) BY <1>5 DEF Store
<1>6. CASE StoreFails(c)
  <2>1. reply'[c].cmd = reply[c].cmd /\ reply'[c].seq = reply[c].seq
    BY <1>6 DEF StoreFails, Replies
  <2> QED BY <1>6, <2>1 DEF StoreFails
<1>7. CASE Unregister(c) \/ Close(c) BY <1>7 DEF Unregister, Close
<1> QED BY <1>1, <1>2, <1>3, <1>4, <1>5, <1>6, <1>7

(* Nobody touches another connection's line.                                 *)
LEMMA OthersLine ==
  ASSUME IInv, NEW c \in Conns, Client(c) \/ Reader(c) \/ Main(c),
         NEW d \in Conns, d # c
  PROVE  Still(d)
<1> USE DEF IInv, TypeOK, transport, history, Goto, Still, SameHeader
<1>1. ASSUME Client(c) PROVE Still(d)
  <2>1. CASE ClientSend(c)
    <3>1. inbox'[d] = inbox[d] /\ asked'[d] = asked[d]
      BY <2>1, ClientSendShape
    <3> QED BY <2>1, <3>1 DEF ClientSend
  <2> QED BY <1>1, <2>1 DEF Client, Connect, ClientLeave
<1>2. ASSUME Reader(c) PROVE Still(d)
  BY <1>2 DEF Reader, ReadBody, ReadHeader, PushRequest, ReadError, PushNil
<1>3. ASSUME KickStranger(c) \/ Handle(c) \/ LoginLoad(c) \/ LoginLoadFails(c)
      PROVE  Still(d)
  <2>1. /\ Record(c) /\ main'[d] = main[d] /\ reply'[d] = reply[d]
        /\ UNCHANGED <<reader, inbox, reqChan, cmsg, asked, answers>>
    BY <1>3, HandlerShape
  <2>2. served'[d] = served[d] BY <2>1 DEF Record
  <2> QED BY <2>1, <2>2
<1>4. ASSUME \/ TopOfLoop(c) \/ TakeRequest(c) \/ TakeCredit(c) \/ procTimeout(c)
             \/ Dispatch(c)
      PROVE  Still(d)
  BY <1>4 DEF TopOfLoop, TakeRequest, TakeCredit, procTimeout, Dispatch
<1>5. ASSUME InsertOnline(c) \/ Store(c) \/ StoreFails(c) PROVE Still(d)
  BY <1>5 DEF InsertOnline, Store, StoreFails
<1>6. ASSUME SendReply(c) \/ Unregister(c) \/ Close(c) PROVE Still(d)
  BY <1>6 DEF SendReply, Unregister, Close
<1> QED BY <1>1, <1>2, <1>3, <1>4, <1>5, <1>6 DEF Main

LEMMA EverybodyStill ==
  ASSUME IInv, NEW c \in Conns,
         UNCHANGED vars \/ Crash \/ \E g \in Grants : Callback(g)
  PROVE  Still(c)
<1> USE DEF Still, SameHeader, transport, history
<1>1. CASE UNCHANGED vars BY <1>1 DEF vars
<1>2. CASE Crash BY <1>2 DEF Crash, InHand, Answering
<1>3. CASE \E g \in Grants : Callback(g)
  <2>1. UNCHANGED <<main, reader, transport, reply, history>>
    BY <1>3 DEF Callback, FindOnline, SendCredit, GrantLoad, GrantStore, GrantDbFails
  <2> QED BY <2>1
<1> QED BY <1>1, <1>2, <1>3

LEMMA OwnLine ==
  ASSUME MaxInFlight = 1, IInv, NEW c \in Conns, Line(c),
         Client(c) \/ Reader(c) \/ Main(c)
  PROVE  Line(c)'
<1>1. CASE ClientSend(c) BY <1>1, SendLine
<1>2. CASE ReadBody(c) \/ ReadHeader(c) BY <1>2, ReadBodyLine, ReadHeaderLine
<1>3. CASE PushRequest(c) \/ TakeRequest(c) BY <1>3, HandOverLine
<1>4. CASE Dispatch(c) BY <1>4, DispatchLine
<1>5. CASE KickStranger(c) \/ Handle(c) \/ LoginLoad(c) \/ LoginLoadFails(c)
  BY <1>5, HandlerLine
<1>6. CASE SendReply(c) BY <1>6, SendReplyLine
<1>7. CASE \/ Connect(c) \/ ClientLeave(c) \/ ReadError(c) \/ PushNil(c)
           \/ TopOfLoop(c) \/ TakeCredit(c) \/ procTimeout(c) \/ InsertOnline(c)
           \/ Store(c) \/ StoreFails(c) \/ Unregister(c) \/ Close(c)
  BY <1>7, QuietLine, StillLine
<1> QED
  BY <1>1, <1>2, <1>3, <1>4, <1>5, <1>6, <1>7 DEF Client, Reader, Main

LEMMA NextLine ==
  ASSUME MaxInFlight = 1, AInv, [Next]_vars PROVE \A d \in Conns : Line(d)'
<1> SUFFICES ASSUME NEW d \in Conns PROVE Line(d)' OBVIOUS
<1> USE DEF AInv
<1>1. CASE \E c \in Conns : Client(c) \/ Reader(c) \/ Main(c)
  <2>1. PICK c \in Conns : Client(c) \/ Reader(c) \/ Main(c) BY <1>1
  <2>2. CASE d = c BY <2>1, <2>2, OwnLine
  <2>3. CASE d # c BY <2>1, <2>3, OthersLine, StillLine
  <2> QED BY <2>2, <2>3
<1>2. CASE UNCHANGED vars \/ Crash \/ \E g \in Grants : Callback(g)
  BY <1>2, EverybodyStill, StillLine
<1> QED BY <1>1, <1>2 DEF Next, Finished

LEMMA NextFresh ==
  ASSUME AInv, [Next]_vars PROVE \A c \in Conns : Fresh(c)'
<1> USE DEF AInv, IInv, TypeOK, Fresh, transport, history, Goto
<1>1. ASSUME NEW c \in Conns, Client(c) PROVE \A d \in Conns : Fresh(d)'
  BY <1>1 DEF Client, Connect, ClientSend, ClientLeave
<1>2. ASSUME NEW c \in Conns, Reader(c) PROVE \A d \in Conns : Fresh(d)'
  BY <1>2 DEF Reader, ReadBody, ReadHeader, PushRequest, ReadError, PushNil
<1>3. ASSUME NEW c \in Conns,
             \/ TopOfLoop(c) \/ TakeRequest(c) \/ TakeCredit(c) \/ procTimeout(c)
             \/ Dispatch(c)
      PROVE  \A d \in Conns : Fresh(d)'
  BY <1>3 DEF TopOfLoop, TakeRequest, TakeCredit, procTimeout, Dispatch
<1>4. ASSUME NEW c \in Conns,
             KickStranger(c) \/ Handle(c) \/ LoginLoad(c) \/ LoginLoadFails(c)
      PROVE  \A d \in Conns : Fresh(d)'
  <2>1. UNCHANGED link
    BY <1>4 DEF KickStranger, Handle, LoginLoad, LoginLoadFails
  <2> QED BY <1>4, <2>1, HandlerShape
<1>5. ASSUME NEW c \in Conns,
             \/ InsertOnline(c) \/ Store(c) \/ StoreFails(c) \/ SendReply(c)
             \/ Unregister(c) \/ Close(c)
      PROVE  \A d \in Conns : Fresh(d)'
  BY <1>5 DEF InsertOnline, Store, StoreFails, SendReply, Unregister, Close
<1>6. CASE Crash BY <1>6 DEF Crash
<1>7. CASE \E g \in Grants : Callback(g)
  BY <1>7 DEF Callback, FindOnline, SendCredit, GrantLoad, GrantStore, GrantDbFails
<1>8. CASE UNCHANGED vars BY <1>8 DEF vars
<1> QED
  BY <1>1, <1>2, <1>3, <1>4, <1>5, <1>6, <1>7, <1>8 DEF Next, Main, Finished

LEMMA InOrder == MaxInFlight = 1 /\ Spec => []AInv
<1> SUFFICES ASSUME MaxInFlight = 1 PROVE Spec => []AInv OBVIOUS
<1>1. Init => \A c \in Conns : Line(c) BY LineInit
<1>2. Init => \A c \in Conns : Fresh(c) BY DEF Init, Fresh
<1>3. AInv /\ [Next]_vars
        => (\A c \in Conns : Line(c))' /\ (\A c \in Conns : Fresh(c))'
  BY NextLine, NextFresh
<1> QED BY <1>1, <1>2, <1>3, Inductive, PTL DEF Spec, AInv

(* The buffer that the two goroutines of a connection share never mixes two  *)
(* requests of a client that waits for its replies: what is handled is what  *)
(* was asked, in order and once (client.go:151-197).                         *)
THEOREM ServedAsAskedAlways == MaxInFlight = 1 /\ Spec => []ServedAsAsked
<1>1. ASSUME AInv PROVE ServedAsAsked
  <2> SUFFICES ASSUME NEW c \in Conns
               PROVE  /\ Len(served[c]) <= Len(asked[c])
                      /\ \A i \in DOMAIN served[c] :
                           /\ served[c][i].cmd = asked[c][i].cmd
                           /\ served[c][i].seq = asked[c][i].seq
                           /\ Wanted(asked[c][i], served[c][i].body)
    BY DEF ServedAsAsked
  <2>1. Counts(c) /\ HistoryMatches(c) BY <1>1 DEF AInv, Line
  <2>2. DOMAIN served[c] = 1..Len(served[c]) BY <1>1 DEF AInv, IInv, TypeOK
  <2> QED BY <2>1, <2>2 DEF Counts, HistoryMatches, SameHeader
<1> QED BY <1>1, InOrder, PTL

-----------------------------------------------------------------------------
(* Every step is a step of RequestReply, or one no client can see.           *)
SameView(c) == /\ Phase(c)' = Phase(c) /\ Waiting(c)' = Waiting(c)
               /\ Got(c)' = Got(c)

LEMMA ViewOf ==
  ASSUME NEW c, asked'[c] = asked[c], answers'[c] = answers[c]
  PROVE  /\ Waiting(c)' = Waiting(c) /\ Got(c)' = Got(c)
         /\ link'[c] = link[c] => Phase(c)' = Phase(c)
BY DEF Phase, Waiting, Got

LEMMA UnseenStep ==
  ASSUME \A c \in Conns : SameView(c) PROVE UNCHANGED RR!rrvars
<1>1. [c \in Conns |-> Phase(c)]' = [c \in Conns |-> Phase(c)] BY DEF SameView
<1>2. [c \in Conns |-> Waiting(c)]' = [c \in Conns |-> Waiting(c)] BY DEF SameView
<1>3. [c \in Conns |-> Got(c)]' = [c \in Conns |-> Got(c)] BY DEF SameView
<1> QED BY <1>1, <1>2, <1>3 DEF RR!rrvars

LEMMA RRInitial == Init => RR!RRInit
<1> SUFFICES ASSUME Init PROVE RR!RRInit OBVIOUS
<1>1. ASSUME NEW c \in Conns
      PROVE  Phase(c) = "new" /\ Waiting(c) = NoRequest /\ Got(c) = NoRequest
  <2>1. asked[c] = <<>> /\ answers[c] = <<>> /\ link[c] = "none" BY DEF Init
  <2>2. Len(<<>>) = 0 OBVIOUS
  <2> QED BY <2>1, <2>2 DEF Phase, Waiting, Got
<1> QED BY <1>1 DEF RR!RRInit

(* What a client may ask, and what it is told.                               *)
LEMMA HeadersMean ==
  ASSUME AInv, NEW c \in Conns
  PROVE  /\ answers[c] = <<>> <=> Got(c) = NoRequest
         /\ answers[c] # <<>> => Got(c).seq = Len(answers[c])
         /\ Waiting(c) = NoRequest <=> Len(asked[c]) = Len(answers[c])
         /\ Len(asked[c]) = Len(answers[c]) + 1 => Waiting(c) = Header(Latest(c))
         /\ Len(asked[c]) \in Nat /\ Len(answers[c]) \in Nat
<1> USE DEF AInv, IInv, TypeOK, Line
<1>1. /\ asked[c] \in Seq(Messages) /\ answers[c] \in Seq(Replies)
      /\ Len(asked[c]) \in Nat /\ Len(answers[c]) \in Nat /\ Len(served[c]) \in Nat
  OBVIOUS
<1>2. \A m \in Messages : Header(m) # NoRequest
  BY DEF Messages, Header, NoRequest, Commands
<1>3. answers[c] # <<>> => Got(c) = Header(asked[c][Len(answers[c])])
                            /\ Len(answers[c]) \in 1..Len(asked[c])
  <2> SUFFICES ASSUME answers[c] # <<>>
               PROVE  /\ Got(c) = Header(asked[c][Len(answers[c])])
                      /\ Len(answers[c]) \in 1..Len(asked[c])
    OBVIOUS
  <2>1. Len(answers[c]) > 0 BY <1>1
  <2>2. Len(answers[c]) \in 1..Len(answers[c]) BY <1>1, <2>1
  <2>3. SameHeader(answers[c][Len(answers[c])], asked[c][Len(answers[c])])
    BY <2>2 DEF HistoryMatches
  <2>4. Len(answers[c]) \in 1..Len(asked[c]) BY <1>1, <2>1 DEF Counts
  <2> QED BY <2>3, <2>4 DEF Got, SameHeader, Header
<1>4. answers[c] # <<>> => Got(c) # NoRequest /\ Got(c).seq = Len(answers[c])
  <2>1. \A i \in 1..Len(asked[c]) : asked[c][i] \in Messages /\ asked[c][i].seq = i
    BY <1>1 DEF HistoryMatches
  <2> QED BY <1>2, <1>3, <2>1 DEF Header
<1>5. Len(asked[c]) = Len(answers[c]) \/ Len(asked[c]) = Len(answers[c]) + 1
  BY <1>1 DEF Counts
<1>6. Len(asked[c]) = Len(answers[c]) => Waiting(c) = NoRequest
  BY <1>1 DEF Waiting
<1>7. Len(asked[c]) = Len(answers[c]) + 1 =>
        Waiting(c) = Header(Latest(c)) /\ Waiting(c) # NoRequest
  <2> SUFFICES ASSUME Len(asked[c]) = Len(answers[c]) + 1
               PROVE  Waiting(c) = Header(Latest(c)) /\ Waiting(c) # NoRequest
    OBVIOUS
  <2>1. Waiting(c) = Header(Latest(c)) BY <1>1 DEF Waiting, Latest
  <2>2. Latest(c) \in Messages BY <1>1 DEF Latest
  <2> QED BY <2>1, <2>2, <1>2
<1> QED BY <1>1, <1>4, <1>5, <1>6, <1>7 DEF Got

LEMMA ConnectStep ==
  ASSUME AInv, NEW c \in Conns, Connect(c) PROVE RR!Open(c)
<1> USE DEF AInv, IInv, TypeOK
<1>1. \A d \in Conns : Waiting(d)' = Waiting(d) /\ Got(d)' = Got(d)
  BY ViewOf DEF Connect, history
<1>2. link' = [link EXCEPT ![c] = "up"] /\ link[c] = "none"
  BY DEF Connect, Fresh
<1>3. \A d \in Conns : Phase(d)' = IF d = c THEN "open" ELSE Phase(d)
  BY <1>2 DEF Phase
<1>4. Phase(c) = "new" BY <1>2 DEF Phase
<1>5. [d \in Conns |-> Phase(d)]' = [[d \in Conns |-> Phase(d)] EXCEPT ![c] = "open"]
  BY <1>3
<1>6. /\ [d \in Conns |-> Waiting(d)]' = [d \in Conns |-> Waiting(d)]
      /\ [d \in Conns |-> Got(d)]' = [d \in Conns |-> Got(d)]
  BY <1>1
<1> QED BY <1>4, <1>5, <1>6 DEF RR!Open

LEMMA AskStep ==
  ASSUME MaxInFlight = 1, AInv, NEW c \in Conns, ClientSend(c)
  PROVE  RR!Ask(c)
<1> USE DEF AInv, IInv, TypeOK
<1>1. PICK m \in Messages :
        /\ asked' = [asked EXCEPT ![c] = Append(@, m)]
        /\ m.seq = Len(asked[c]) + 1
  BY SendShape
<1>2. UNCHANGED <<link, answers>> /\ link[c] = "up" BY DEF ClientSend
<1>3. Len(asked[c]) = Len(answers[c])
  <2>1. Len(asked[c]) - Len(answers[c]) < 1 BY DEF ClientSend
  <2>2. Len(answers[c]) \in Nat /\ Len(served[c]) \in Nat /\ Len(asked[c]) \in Nat
    OBVIOUS
  <2> QED BY <2>1, <2>2 DEF Line, Counts
<1>4. Waiting(c) = NoRequest BY <1>3, HeadersMean
<1>5. /\ asked'[c] = Append(asked[c], m) /\ asked[c] \in Seq(Messages)
      /\ \A d \in Conns \ {c} : asked'[d] = asked[d]
  BY <1>1
<1>6. Len(asked'[c]) = Len(asked[c]) + 1 /\ asked'[c][Len(asked[c]) + 1] = m
  BY <1>5
<1>7. Waiting(c)' = Header(m)
  <2>1. answers'[c] = answers[c] /\ Len(asked[c]) \in Nat BY <1>2
  <2> QED BY <1>3, <1>6, <2>1 DEF Waiting, Header
<1>8. \A d \in Conns : Phase(d)' = Phase(d) /\ Got(d)' = Got(d)
  BY <1>2 DEF Phase, Got
<1>9. \A d \in Conns \ {c} : Waiting(d)' = Waiting(d) BY <1>2, <1>5 DEF Waiting
<1> DEFINE lastSeq == IF Got(c) = NoRequest THEN 0 ELSE Got(c).seq
           ask == [cmd |-> m.cmd, seq |-> lastSeq + 1]
<1>10. Len(answers[c]) = lastSeq BY HeadersMean
<1>11. Header(m) = ask /\ m.cmd \in Commands
  BY <1>1, <1>3, <1>10 DEF Header, Messages
<1> HIDE DEF ask
<1>12. [d \in Conns |-> Waiting(d)]' = [[d \in Conns |-> Waiting(d)] EXCEPT ![c] = ask]
  BY <1>7, <1>9, <1>11
<1>13. /\ [d \in Conns |-> Phase(d)]' = [d \in Conns |-> Phase(d)]
       /\ [d \in Conns |-> Got(d)]' = [d \in Conns |-> Got(d)]
  BY <1>8
<1>14. Phase(c) = "open" BY <1>2 DEF Phase
<1> QED BY <1>4, <1>11, <1>12, <1>13, <1>14 DEF RR!Ask, RR!LastSeq, ask

LEMMA AnswerStep ==
  ASSUME AInv, NEW c \in Conns, SendReply(c), link[c] = "up"
  PROVE  RR!Answer(c)
<1> USE DEF AInv, IInv, TypeOK
<1>1. /\ main[c] = "send" /\ UNCHANGED <<link, asked>>
      /\ answers' = [answers EXCEPT ![c] = Append(@, reply[c])]
  BY DEF SendReply, transport
<1>2. /\ answers'[c] = Append(answers[c], reply[c])
      /\ answers[c] \in Seq(Replies) /\ reply[c] \in Replies
      /\ \A d \in Conns \ {c} : answers'[d] = answers[d]
  BY <1>1
<1>3. /\ Len(answers'[c]) = Len(answers[c]) + 1 /\ Len(answers[c]) \in Nat
      /\ answers'[c][Len(answers[c]) + 1] = reply[c] /\ answers'[c] # <<>>
  <2>1. answers'[c] # <<>> BY <1>2, AppendNonEmpty
  <2> QED BY <1>2, <2>1
<1>4. /\ Len(served[c]) = Len(answers[c]) + 1 /\ SameHeader(reply[c], Latest(c))
      /\ Counts(c)
  BY <1>1 DEF Line, ReplyIsLatest, Answering
<1>5. Len(asked[c]) = Len(answers[c]) + 1
  <2>1. Len(asked[c]) \in Nat /\ Len(served[c]) \in Nat OBVIOUS
  <2> QED BY <1>3, <1>4, <2>1 DEF Counts
<1>6. Waiting(c) = Header(Latest(c)) /\ Waiting(c) # NoRequest
  BY <1>3, <1>5, HeadersMean
<1>7. Got(c)' = Header(Latest(c)) BY <1>3, <1>4 DEF Got, SameHeader, Header
<1>8. Waiting(c)' = NoRequest
  <2>1. asked'[c] = asked[c] BY <1>1
  <2> QED BY <1>3, <1>5, <2>1 DEF Waiting
<1>9. \A d \in Conns \ {c} : Waiting(d)' = Waiting(d) /\ Got(d)' = Got(d)
  BY <1>1, <1>2 DEF Waiting, Got
<1>10. \A d \in Conns : Phase(d)' = Phase(d) BY <1>1 DEF Phase
<1>11. Phase(c) = "open" BY DEF Phase
<1>12. [d \in Conns |-> Got(d)]' = [[d \in Conns |-> Got(d)] EXCEPT ![c] = Waiting(c)]
  BY <1>6, <1>7, <1>9
<1>13. [d \in Conns |-> Waiting(d)]' = [[d \in Conns |-> Waiting(d)] EXCEPT ![c] = NoRequest]
  BY <1>8, <1>9
<1>14. [d \in Conns |-> Phase(d)]' = [d \in Conns |-> Phase(d)] BY <1>10
<1> QED BY <1>6, <1>11, <1>12, <1>13, <1>14 DEF RR!Answer

LEMMA HangUpStep ==
  ASSUME AInv, NEW c \in Conns, ClientLeave(c) \/ Close(c)
  PROVE  RR!HangUp(c) \/ UNCHANGED RR!rrvars
<1> USE DEF AInv, IInv, TypeOK
<1>1. PICK how \in {"closed", "silent", "down"} : link' = [link EXCEPT ![c] = how]
  BY DEF ClientLeave, Close
<1>2. link[c] # "none" BY DEF ClientLeave, Close, Fresh
<1>3. \A d \in Conns : Waiting(d)' = Waiting(d) /\ Got(d)' = Got(d)
  BY ViewOf DEF ClientLeave, Close, history
<1>4. /\ Phase(c)' = "closed" /\ Phase(c) \in {"open", "closed"}
      /\ \A d \in Conns \ {c} : Phase(d)' = Phase(d)
  BY <1>1, <1>2 DEF Phase
<1>5. /\ [d \in Conns |-> Waiting(d)]' = [d \in Conns |-> Waiting(d)]
      /\ [d \in Conns |-> Got(d)]' = [d \in Conns |-> Got(d)]
  BY <1>3
<1>6. CASE Phase(c) = "closed"
  BY <1>3, <1>4, <1>6, UnseenStep DEF SameView
<1>7. CASE Phase(c) = "open"
  <2>1. [d \in Conns |-> Phase(d)]' = [[d \in Conns |-> Phase(d)] EXCEPT ![c] = "closed"]
    BY <1>4
  <2> QED BY <1>5, <1>7, <2>1 DEF RR!HangUp
<1> QED BY <1>4, <1>6, <1>7

LEMMA CrashStep == ASSUME AInv, Crash PROVE RR!HangUpAll
<1> USE DEF AInv, IInv, TypeOK
<1>1. \A d \in Conns : Waiting(d)' = Waiting(d) /\ Got(d)' = Got(d)
  BY ViewOf DEF Crash, history
<1>2. \A d \in Conns : link'[d] = IF link[d] = "none" THEN "none" ELSE "down"
  BY DEF Crash, Fresh
<1>3. \A d \in Conns : Phase(d)' = IF Phase(d) = "open" THEN "closed" ELSE Phase(d)
  BY <1>2 DEF Phase, LinkStates
<1>4. /\ [d \in Conns |-> Waiting(d)]' = [d \in Conns |-> Waiting(d)]
      /\ [d \in Conns |-> Got(d)]' = [d \in Conns |-> Got(d)]
  BY <1>1
<1>5. [d \in Conns |-> Phase(d)]' =
        [d \in Conns |-> IF [e \in Conns |-> Phase(e)][d] = "open" THEN "closed"
                          ELSE [e \in Conns |-> Phase(e)][d]]
  BY <1>3
<1> QED BY <1>4, <1>5 DEF RR!HangUpAll

LEMMA NextRefines ==
  ASSUME MaxInFlight = 1, AInv, [Next]_vars PROVE [RR!RRNext]_RR!rrvars
<1>1. ASSUME NEW c \in Conns, Connect(c) \/ ClientSend(c) PROVE RR!RRNext
  BY <1>1, ConnectStep, AskStep DEF RR!RRNext
<1>2. ASSUME NEW c \in Conns, SendReply(c), link[c] = "up" PROVE RR!RRNext
  BY <1>2, AnswerStep DEF RR!RRNext
<1>3. ASSUME NEW c \in Conns, ClientLeave(c) \/ Close(c)
      PROVE  [RR!RRNext]_RR!rrvars
  BY <1>3, HangUpStep DEF RR!RRNext
<1>4. CASE Crash BY <1>4, CrashStep DEF RR!RRNext
<1>5. ASSUME UNCHANGED <<link, asked, answers>> PROVE [RR!RRNext]_RR!rrvars
  <2>1. \A d \in Conns : SameView(d) BY <1>5, ViewOf DEF SameView
  <2> QED BY <2>1, UnseenStep
<1>6. ASSUME NEW c \in Conns, Main(c), ~Close(c), ~(SendReply(c) /\ link[c] = "up")
      PROVE  UNCHANGED <<link, asked, answers>>
  <2>1. CASE KickStranger(c) \/ Handle(c) \/ LoginLoad(c) \/ LoginLoadFails(c)
    BY <2>1 DEF KickStranger, Handle, LoginLoad, LoginLoadFails, transport
  <2>2. CASE SendReply(c) BY <1>6, <2>2 DEF SendReply, transport
  <2>3. CASE \/ TopOfLoop(c) \/ TakeRequest(c) \/ TakeCredit(c) \/ procTimeout(c)
             \/ Dispatch(c) \/ InsertOnline(c) \/ Store(c) \/ StoreFails(c)
             \/ Unregister(c)
    BY <2>3 DEF TopOfLoop, TakeRequest, TakeCredit, procTimeout, Dispatch,
                InsertOnline, Store, StoreFails, Unregister, transport, history
  <2> QED BY <1>6, <2>1, <2>2, <2>3 DEF Main
<1>7. ASSUME NEW c \in Conns, Reader(c) PROVE UNCHANGED <<link, asked, answers>>
  BY <1>7 DEF Reader, ReadBody, ReadHeader, PushRequest, ReadError, PushNil,
              transport, history
<1>8. ASSUME NEW g \in Grants, Callback(g) PROVE UNCHANGED <<link, asked, answers>>
  BY <1>8 DEF Callback, FindOnline, SendCredit, GrantLoad, GrantStore,
              GrantDbFails, transport, history
<1>9. ASSUME UNCHANGED vars PROVE UNCHANGED <<link, asked, answers>>
  BY <1>9 DEF vars, transport, history
<1> QED
  BY <1>1, <1>2, <1>3, <1>4, <1>5, <1>6, <1>7, <1>8, <1>9 DEF Next, Client, Finished

(* The server is RequestReply towards clients that wait, step by step: a     *)
(* client is told nothing but the answer to what it asked last, and only     *)
(* while its connection is open (client.go:151-243).  That the answer comes  *)
(* is RRFairness, which the run checks.                                      *)
THEOREM ImplementsRequestReply ==
  MaxInFlight = 1 /\ Spec => RR!RRInit /\ [][RR!RRNext]_RR!rrvars
<1> SUFFICES ASSUME MaxInFlight = 1
             PROVE  Spec => RR!RRInit /\ [][RR!RRNext]_RR!rrvars
  OBVIOUS
<1>1. AInv /\ [Next]_vars => [RR!RRNext]_RR!rrvars BY NextRefines
<1> QED BY <1>1, InOrder, RRInitial, PTL DEF Spec
=============================================================================
