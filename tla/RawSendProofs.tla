---------------------------- MODULE RawSendProofs ----------------------------
(***************************************************************************)
(* Theorems about RawSend, for any width of the identifiers and any size   *)
(* of messages.                                                            *)
(***************************************************************************)
EXTENDS RawSend, TLAPS

IInv == TypeOK /\ FrameSound /\ CompleteWriteFails /\ RetriesRepeat

\* The bounds are numbers.
LEMMA Numbers ==
  /\ IdCount \in Nat /\ IdCount >= 2 /\ MaxSize \in Nat
  /\ 0 \in Ids /\ 1 \in Ids /\ 0 \in Sizes
BY RawSendAssumption DEF Ids, Sizes

\* The empty message is a message.
LEMMA NoMessageType == NoMessage \in Messages
BY Numbers DEF NoMessage, Messages

\* prepareToSend makes a message of a message that has a PDU, and room for a CRC; it
\* says what it is, and a response keeps its identifier.
LEMMA CompletedSound ==
  ASSUME TypeOK, msg.size >= 1, setup.net = "Tcp" \/ msg.size + 2 <= MaxSize
  PROVE  /\ Completed \in Messages
         /\ Completed.kind = msg.kind
         /\ msg.kind = "response" => Completed.id = msg.id
         /\ IF setup.net = "Tcp" THEN Completed.length = Completed.size + 1
                                 ELSE Completed.size = Completed.crcOf + 2
<1>1. /\ msg \in Messages /\ msg.size \in 0 .. MaxSize /\ nextId \in Ids
      /\ MaxSize \in Nat
  BY Numbers DEF TypeOK, Messages, Sizes
<1>2. CASE setup.net = "Tcp"
  <2>1. msg.size + 1 \in 0 .. MaxSize + 1
    BY <1>1
  <2> QED BY <1>1, <1>2, <2>1 DEF Completed, WithHeader, Messages, Sizes
<1>3. CASE setup.net # "Tcp"
  <2>1. msg.size + 2 \in 0 .. MaxSize
    BY <1>1, <1>3
  <2> QED BY <1>1, <1>3, <2>1 DEF Completed, WithCrc, Messages, Sizes
<1> QED
  BY <1>2, <1>3

\* The counter keeps its width.
LEMMA CountedType == ASSUME TypeOK PROVE Counted \in Ids
<1>1. NextId \in Ids
  BY Numbers DEF TypeOK, NextId, Ids
<1> QED
  BY <1>1 DEF TypeOK, Counted

\* Nothing is sent yet.
LEMMA InitInv == Init => IInv
<1> SUFFICES ASSUME Init PROVE IInv
  OBVIOUS
<1>1. HeaderLength \in Nat
  BY DEF HeaderLength
<1>2. TypeOK
  BY <1>1, Numbers, NoMessageType DEF Init, TypeOK
<1>3. CompleteWriteFails
  <2>1. NoMessage.size = 0 /\ HeaderLength >= 1
    BY DEF NoMessage, HeaderLength
  <2> QED BY <1>1, <2>1 DEF Init, CompleteWriteFails, FrameLength
<1> QED
  BY <1>2, <1>3
     DEF Init, IInv, FrameSound, SaysItsLength, AnswerKeepsId, RetriesRepeat, NoMessage

\* So is one that was received, and it was not completed here.
LEMMA ReceivedType ==
  ASSUME NEW i \in Ids, NEW n \in Sizes
  PROVE  /\ Received(i, n) \in Messages /\ ~Received(i, n).done
         /\ Received(i, n).kind = "request"
<1> DEFINE j == IF setup.net = "Tcp" THEN i ELSE 0
<1>1. j \in Ids
  BY Numbers
<1>2. Received(i, n) = [NoMessage EXCEPT !.size = n, !.id = j]
  BY DEF Received
<1> HIDE DEF j
<1>3. [NoMessage EXCEPT !.size = n, !.id = j] \in Messages
  BY <1>1, NoMessageType DEF Messages
<1>4. /\ ~[NoMessage EXCEPT !.size = n, !.id = j].done
      /\ [NoMessage EXCEPT !.size = n, !.id = j].kind = "request"
  BY DEF NoMessage
<1> QED BY <1>2, <1>3, <1>4

\* What the application has made of its message.
Built ==
  /\ msg' \in Messages /\ given' \in Ids
  /\ msg'.kind = "response" => msg'.id = given'
  /\ SaysItsLength'

\* A call that has not written anything has not written it all.
LEMMA NothingWritten ==
  ASSUME TypeOK', written' = 0, ret' \in {-1, 0}
  PROVE  CompleteWriteFails'
<1>1. HeaderLength' \in Nat /\ HeaderLength' >= 1
  BY DEF HeaderLength
<1>2. msg'.size \in Nat
  BY Numbers DEF TypeOK, Messages, Sizes
<1>3. FrameLength' = HeaderLength' + msg'.size
  BY DEF FrameLength
<1> QED BY <1>1, <1>2, <1>3 DEF CompleteWriteFails

\* The application changes its message between two calls.
LEMMA BuildStep == IInv /\ Build => IInv'
<1> SUFFICES ASSUME IInv, Build PROVE IInv'
  OBVIOUS
<1>2. /\ pc = "idle" /\ ret' = 0 /\ written' = 0
      /\ UNCHANGED <<setup, nextId, link, pc, first, trouble>>
  BY DEF Build, NewRequest, NewResponse, NewMessage, Edit, Answer, SetResponseFlag,
         SetTransactionIdentifier, Forgotten
<1>3. Built
  <2>1. ASSUME NEW n \in Sizes, Edit(n) PROVE Built
    BY <2>1 DEF Built, IInv, TypeOK, AnswerKeepsId, FrameSound, SaysItsLength, Edit, Messages
  <2>2. ASSUME NEW n \in Sizes, NEW i \in Ids, NewRequest(i, n) \/ NewResponse(i, n)
        PROVE  Built
    <3>1. NewMessage(NoMessage) \/ NewMessage(Received(i, n))
      BY <2>2 DEF NewRequest, NewResponse
    <3>2. msg' \in {NoMessage, Received(i, n)} /\ given' = 0
      BY <3>1 DEF NewMessage
    <3>3. ~NoMessage.done /\ NoMessage.kind = "request"
      BY DEF NoMessage
    <3>4. msg' \in Messages /\ ~msg'.done /\ msg'.kind = "request"
      BY <3>2, <3>3, NoMessageType, ReceivedType
    <3> QED BY <3>2, <3>4, Numbers DEF Built, SaysItsLength
  <2>3. ASSUME NEW n \in Sizes, NEW i \in Ids, Answer(i, n) PROVE Built
    <3>1. msg' = [Received(i, n) EXCEPT !.kind = "response"] /\ given' = msg'.id
      BY <2>3 DEF Answer
    <3>2. Received(i, n) \in Messages /\ ~Received(i, n).done
      BY ReceivedType
    <3>3. /\ msg' \in Messages /\ msg'.done = Received(i, n).done
      BY <3>1, <3>2 DEF Messages
    <3>4. given' \in Ids
      BY <3>1, <3>3 DEF Messages
    <3> QED BY <3>1, <3>2, <3>3, <3>4 DEF Built, SaysItsLength
  <2>4. ASSUME NEW k \in {"request", "response"}, SetResponseFlag(k) PROVE Built
    <3>1. msg' = [msg EXCEPT !.kind = k] /\ msg \in Messages /\ setup' = setup
      BY <2>4 DEF SetResponseFlag, IInv, TypeOK
    <3>2. /\ msg' \in Messages /\ msg'.kind = k /\ msg'.id = msg.id
          /\ msg'.done = msg.done /\ msg'.size = msg.size
          /\ msg'.length = msg.length /\ msg'.crcOf = msg.crcOf
      BY <3>1 DEF Messages
    <3>3. given' \in Ids /\ (k = "response" => given' = msg.id)
      BY <2>4, <3>1, Numbers DEF SetResponseFlag, Messages
    <3>4. SaysItsLength'
      BY <3>1, <3>2 DEF IInv, FrameSound, SaysItsLength
    <3> QED BY <3>2, <3>3, <3>4 DEF Built
  <2>5. ASSUME NEW i \in Ids, SetTransactionIdentifier(i) PROVE Built
    <3>1. /\ msg' = [msg EXCEPT !.id = i] /\ msg \in Messages /\ setup' = setup
          /\ given' = IF msg.kind = "response" THEN i ELSE given
          /\ given \in Ids
      BY <2>5 DEF SetTransactionIdentifier, IInv, TypeOK
    <3>2. /\ msg' \in Messages /\ msg'.kind = msg.kind /\ msg'.id = i
          /\ msg'.done = msg.done /\ msg'.size = msg.size
          /\ msg'.length = msg.length /\ msg'.crcOf = msg.crcOf
      BY <3>1 DEF Messages
    <3>3. SaysItsLength'
      BY <3>1, <3>2 DEF IInv, FrameSound, SaysItsLength
    <3> QED BY <3>1, <3>2, <3>3 DEF Built
  <2> QED BY <2>1, <2>2, <2>3, <2>4, <2>5 DEF Build
<1>4. 0 \in -1 .. MaxSize + HeaderLength /\ 0 \in 0 .. MaxSize + HeaderLength
  BY Numbers DEF HeaderLength
<1>5. TypeOK'
  BY <1>2, <1>3, <1>4 DEF IInv, TypeOK, HeaderLength, Built
<1> QED
  BY <1>2, <1>3, <1>5, NothingWritten DEF IInv, Built, FrameSound, AnswerKeepsId, RetriesRepeat

\* The call, with or without completing the message.
LEMMA SendStep == ASSUME IInv, NEW p \in BOOLEAN, Send(p) PROVE IInv'
<1>1. /\ -1 \in -1 .. MaxSize + HeaderLength /\ 0 \in -1 .. MaxSize + HeaderLength
      /\ 0 \in 0 .. MaxSize + HeaderLength
  BY Numbers DEF HeaderLength
<1>2. HeaderLength' = HeaderLength
  BY DEF Send, HeaderLength
<1>3. CASE UNCHANGED <<msg, nextId, pc, first>> /\ ret' = -1 /\ written' = 0
  <2>1. TypeOK'
    BY <1>1, <1>2, <1>3 DEF IInv, TypeOK, Send
  <2> QED
    BY <1>3, <2>1, NothingWritten
       DEF IInv, FrameSound, SaysItsLength, AnswerKeepsId, RetriesRepeat, Send
<1>4. CASE /\ msg.size >= 1
           /\ p => setup.net = "Tcp" \/ msg.size + 2 <= MaxSize
           /\ IF p THEN msg' = Completed /\ nextId' = Counted
                   ELSE UNCHANGED <<msg, nextId>>
           /\ first' = msg' /\ pc' = "write" /\ Forgotten
  <2>1. /\ msg' \in Messages /\ nextId' \in Ids
        /\ msg'.kind = msg.kind
        /\ msg'.kind = "response" => msg'.id = given
        /\ msg'.done => IF setup.net = "Tcp" THEN msg'.length = msg'.size + 1
                                             ELSE msg'.size = msg'.crcOf + 2
    <3>1. CASE p
      BY <1>4, <3>1, CompletedSound, CountedType DEF IInv, FrameSound, AnswerKeepsId
    <3>2. CASE ~p
      BY <1>4, <3>2 DEF IInv, TypeOK, AnswerKeepsId, SaysItsLength, FrameSound
    <3> QED BY <3>1, <3>2
  <2>2. UNCHANGED <<setup, link, given, trouble>>
    BY DEF Send
  <2>3. TypeOK'
    BY <1>1, <1>2, <1>4, <2>1, <2>2 DEF IInv, TypeOK, Forgotten
  <2> QED
    BY <1>4, <2>1, <2>2, <2>3, NothingWritten
       DEF IInv, FrameSound, SaysItsLength, AnswerKeepsId, RetriesRepeat, Forgotten
<1> QED
  BY <1>3, <1>4 DEF Send

\* An attempt, its failure, and what is done before the next one: the message stays.
LEMMA AttemptStep == IInv /\ Attempt => IInv'
<1> SUFFICES ASSUME IInv, Attempt PROVE IInv'
  OBVIOUS
<1>1. /\ UNCHANGED <<setup, msg, nextId, given, trouble>>
      /\ HeaderLength' = HeaderLength
      /\ HeaderLength \in Nat /\ msg \in Messages /\ msg.size \in Nat
      /\ msg.size <= MaxSize /\ MaxSize \in Nat
  <2>1. UNCHANGED <<setup, msg, nextId, given, trouble>>
    BY DEF Attempt, WriteSome, WriteLost, WriteError, Reopen, Flush, Again
  <2>2. HeaderLength' = HeaderLength
    BY <2>1 DEF HeaderLength
  <2>3. HeaderLength \in Nat
    BY DEF HeaderLength
  <2>4. msg \in Messages
    BY DEF IInv, TypeOK
  <2>5. msg.size \in Nat /\ msg.size <= MaxSize /\ MaxSize \in Nat
    BY <2>4, Numbers DEF Messages, Sizes
  <2> QED BY <2>1, <2>2, <2>3, <2>4, <2>5
<1>2. /\ ret' \in -1 .. MaxSize + HeaderLength
      /\ written' \in 0 .. MaxSize + HeaderLength
      /\ CompleteWriteFails'
      /\ link' \in {"up", "lost", "closed", "listening"}
      /\ pc' \in {"idle", "write", "reopen", "flush"}
      /\ first' \in Messages
      /\ pc' # "idle" => first' = first /\ pc # "idle"
      /\ pc' \in {"reopen", "flush"} => msg.kind = "request"
  <2>1. CASE WriteSome
    <3>1. PICK n \in 1 .. FrameLength : written' = n /\ ret' = Compared(n)
      BY <2>1 DEF WriteSome
    <3>2. /\ FrameLength = HeaderLength + msg.size /\ FrameLength' = FrameLength
          /\ HeaderLength >= 1
      BY <1>1 DEF FrameLength, HeaderLength
    <3>3. /\ n \in Nat /\ n <= MaxSize + HeaderLength
      BY <1>1, <3>1, <3>2
    <3>4. ret' = IF n = msg.size THEN n ELSE -1
      BY <3>1 DEF Compared
    <3>5. CompleteWriteFails'
      BY <1>1, <3>1, <3>2, <3>3, <3>4 DEF CompleteWriteFails
    <3> QED BY <1>1, <2>1, <3>1, <3>3, <3>4, <3>5, NoMessageType DEF WriteSome, IInv, TypeOK
  <2>2. CASE WriteLost \/ WriteError
    <3>1. PICK lost \in BOOLEAN : Fail(lost)
      BY <2>2 DEF WriteLost, WriteError
    <3>2. pc = "write"
      BY <2>2 DEF WriteLost, WriteError
    <3>3. written' = written /\ ret' \in {ret, -1} /\ FrameLength' = FrameLength
      BY <1>1, <3>1 DEF Fail, FrameLength
    <3>4. CompleteWriteFails'
      BY <1>1, <3>3 DEF IInv, CompleteWriteFails
    <3> QED
      BY <1>1, <3>1, <3>2, <3>3, <3>4, NoMessageType DEF Fail, Retried, IInv, TypeOK
  <2>3. CASE Reopen \/ Flush
    <3>1. written' = written /\ ret' = ret /\ FrameLength' = FrameLength
      BY <1>1, <2>3 DEF Reopen, Flush, FrameLength
    <3>2. CompleteWriteFails'
      BY <1>1, <3>1 DEF IInv, CompleteWriteFails
    <3> QED BY <2>3, <1>1, <3>1, <3>2 DEF Reopen, Flush, Opened, IInv, TypeOK
  <2> QED BY <2>1, <2>2, <2>3 DEF Attempt
<1>3. TypeOK'
  BY <1>1, <1>2 DEF IInv, TypeOK
<1> QED
  BY <1>1, <1>2, <1>3 DEF IInv, FrameSound, SaysItsLength, AnswerKeepsId, RetriesRepeat

\* The network changes nothing of the message.
LEMMA NetworkStep == IInv /\ (Lose \/ Change \/ OpenAgain \/ Accept) => IInv'
<1> SUFFICES ASSUME IInv, Lose \/ Change \/ OpenAgain \/ Accept PROVE IInv'
  OBVIOUS
<1>1. UNCHANGED <<setup, msg, nextId, pc, ret, written, given, first>>
  BY DEF Lose, Change, OpenAgain, Accept
<1>2. link' \in {"up", "lost", "closed", "listening"} /\ trouble' \in BOOLEAN
  BY DEF IInv, TypeOK, Lose, Change, OpenAgain, Opened, Accept
<1>3. TypeOK'
  BY <1>1, <1>2 DEF IInv, TypeOK, HeaderLength
<1> QED
  BY <1>1, <1>3
     DEF IInv, FrameSound, SaysItsLength, AnswerKeepsId, RetriesRepeat, CompleteWriteFails,
         FrameLength, HeaderLength

\* The invariant holds in every state of a device that sends.
THEOREM Invariance == Spec => []IInv
<1>1. Init => IInv
  BY InitInv
<1>2. IInv /\ [Next]_vars => IInv'
  <2>1. IInv /\ UNCHANGED vars => IInv'
    BY DEF IInv, TypeOK, HeaderLength, FrameSound, SaysItsLength, AnswerKeepsId, RetriesRepeat,
           CompleteWriteFails, FrameLength, vars
  <2> QED
    BY <2>1, BuildStep, SendStep, AttemptStep, NetworkStep DEF Next
<1> QED
  BY <1>1, <1>2, PTL DEF Spec

\* Sizes, lengths and identifiers stay in their widths (tcplayer.cpp:67-86).
THEOREM TypeCorrect == Spec => []TypeOK
<1>1. IInv => TypeOK
  BY DEF IInv
<1> QED
  BY <1>1, Invariance, PTL

\* A completed message says its length or ends with the CRC of the rest, and a response keeps
\* the identifier of the request it answers, or the one it was given, however often it is
\* prepared, changed and sent (tcplayer.cpp:67-86, rtulayer.cpp:213-226).
THEOREM FrameSoundCorrect == Spec => []FrameSound
<1>1. IInv => FrameSound
  BY DEF IInv
<1> QED
  BY <1>1, Invariance, PTL

\* For messages of any size: a call that wrote its frame returns -1, and one that returns a
\* length has left the frame incomplete (device.cpp:409), against device.h:501.
THEOREM CompleteWriteFailsCorrect == Spec => []CompleteWriteFails
<1>1. IInv => CompleteWriteFails
  BY DEF IInv
<1> QED
  BY <1>1, Invariance, PTL

\* The attempts of one call are at one message, and a response is tried once
\* (device.cpp:382-408).
THEOREM RetriesRepeatCorrect == Spec => []RetriesRepeat
<1>1. IInv => RetriesRepeat
  BY DEF IInv
<1> QED
  BY <1>1, Invariance, PTL
-----------------------------------------------------------------------------
(* Liveness. What is left of a call when the network works: the steps down  *)
(* to its end.                                                              *)

Ended == pc = "idle"
Up == link = "up"
Writing == pc = "write" /\ Up
Reopening == pc = "reopen" /\ link = "closed"
WritingLost == pc = "write" /\ ~Up /\ ~Hopeless
Flushing == pc = "flush" /\ ~Hopeless
Stuck == pc # "idle" /\ Hopeless

\* A link that is closed when the call opens it: nothing else opens one in a call.
ClosedForReopen == pc = "reopen" => link = "closed"

\* Only WriteLost leads there, and it closes the link.
LEMMA ClosedForReopenCorrect == Spec => []ClosedForReopen
<1>1. Init => ClosedForReopen
  BY DEF Init, ClosedForReopen
<1>2. ClosedForReopen /\ [Next]_vars => ClosedForReopen'
  <2> SUFFICES ASSUME ClosedForReopen, [Next]_vars PROVE ClosedForReopen'
    OBVIOUS
  <2> USE DEF ClosedForReopen
  <2>1. CASE Build
    BY <2>1 DEF Build, Edit, NewRequest, NewResponse, NewMessage, Answer, SetResponseFlag,
                SetTransactionIdentifier
  <2>2. ASSUME NEW p \in BOOLEAN, Send(p) PROVE ClosedForReopen'
    BY <2>2 DEF Send
  <2>3. CASE Attempt
    BY <2>3 DEF Attempt, WriteSome, WriteLost, WriteError, Fail, Reopen, Flush
  <2>4. CASE Lose \/ Change \/ OpenAgain \/ Accept
    BY <2>4 DEF Lose, Change, OpenAgain, Accept
  <2>5. CASE UNCHANGED vars
    BY <2>5 DEF vars
  <2> QED BY <2>1, <2>2, <2>3, <2>4, <2>5 DEF Next
<1> QED BY <1>1, <1>2, PTL DEF Spec

\* A call is in one of these places.
LEMMA Somewhere ==
  TypeOK /\ ClosedForReopen =>
    /\ Ended \/ Writing \/ Reopening \/ WritingLost \/ Flushing \/ Stuck
    /\ Stuck => Hopeless
    /\ Writing => Up
    /\ Up => ~Reopening /\ ~WritingLost /\ ~Stuck
<1> SUFFICES ASSUME TypeOK, ClosedForReopen
             PROVE  /\ Ended \/ Writing \/ Reopening \/ WritingLost \/ Flushing \/ Stuck
                    /\ Stuck => Hopeless
                    /\ Writing => Up
                    /\ Up => ~Reopening /\ ~WritingLost /\ ~Stuck
  OBVIOUS
<1>1. /\ pc \in {"idle", "write", "reopen", "flush"}
      /\ pc = "reopen" => link = "closed"
  BY DEF TypeOK, ClosedForReopen
<1>2. Hopeless \in BOOLEAN /\ (Hopeless => link # "up")
  BY DEF Hopeless
<1> QED
  BY <1>1, <1>2 DEF Ended, Up, Writing, Reopening, WritingLost, Flushing, Stuck

\* Of the other threads, while the network works, none moves a call; one may accept a client.
LEMMA OnlyAttempts ==
  TypeOK /\ ~trouble /\ ~trouble' /\ [Next]_vars /\ ~Attempt /\ ~Ended =>
    UNCHANGED <<pc, setup>> /\ (link' = link \/ (link = "listening" /\ link' = "up"))
<1> SUFFICES ASSUME TypeOK, ~trouble, ~trouble', [Next]_vars, ~Attempt, ~Ended
             PROVE  UNCHANGED <<pc, setup>> /\ (link' = link \/ (link = "listening" /\ link' = "up"))
  OBVIOUS
<1>1. pc # "idle"
  BY DEF Ended
<1>2. CASE Build
  BY <1>1, <1>2 DEF Build, Edit, NewRequest, NewResponse, NewMessage, Answer, SetResponseFlag,
                    SetTransactionIdentifier
<1>3. ASSUME NEW p \in BOOLEAN, Send(p) PROVE FALSE
  BY <1>1, <1>3 DEF Send
<1>4. CASE Lose \/ Change \/ OpenAgain \/ Accept
  BY <1>1, <1>4 DEF Lose, Change, OpenAgain, Accept, TypeOK
<1>5. CASE UNCHANGED vars
  BY <1>5 DEF vars
<1> QED BY <1>2, <1>3, <1>4, <1>5 DEF Next

\* While the network works, each attempt brings a call nearer to its end, or shows that its
\* link does not come back.
LEMMA AttemptsApproach ==
  TypeOK /\ ClosedForReopen /\ ~trouble /\ Attempt =>
    /\ Writing => Ended'
    /\ Reopening => Writing' \/ Stuck'
    /\ WritingLost => Ended' \/ Reopening' \/ Stuck'
    /\ Flushing => Writing' \/ WritingLost'
    /\ Stuck => Ended' \/ Stuck'
<1> SUFFICES ASSUME TypeOK, ClosedForReopen, ~trouble, Attempt
             PROVE  /\ Writing => Ended'
                    /\ Reopening => Writing' \/ Stuck'
                    /\ WritingLost => Ended' \/ Reopening' \/ Stuck'
                    /\ Flushing => Writing' \/ WritingLost'
                    /\ Stuck => Ended' \/ Stuck'
  OBVIOUS
<1> USE DEF Ended, Up, Writing, Reopening, WritingLost, Flushing, Stuck, Hopeless
<1>0. setup.net \in {"Tcp", "Rtu"} /\ setup.server \in BOOLEAN
  BY RawSendAssumption DEF TypeOK, Setup
<1>1. CASE WriteSome
  BY <1>1 DEF WriteSome
<1>2. CASE WriteLost
  <2>1. pc = "write" /\ link # "up" /\ setup' = setup
    BY <1>2 DEF WriteLost
  <2>2. CASE pc' = "idle"
    BY <2>1, <2>2
  <2>3. CASE pc' # "idle"
    <3>1. IF link # "lost" \/ setup.net = "Tcp" THEN pc' = "reopen" /\ link' = "closed"
                                               ELSE pc' = "flush" /\ link' = link
      BY <1>2, <2>3 DEF WriteLost, Fail
    <3>2. CASE setup.net = "Tcp"
      BY <1>0, <2>1, <3>1, <3>2 DEF TypeOK
    <3>3. CASE setup.net = "Rtu"
      BY <1>0, <2>1, <3>1, <3>3 DEF TypeOK
    <3> QED BY <1>0, <3>2, <3>3
  <2> QED BY <2>2, <2>3
<1>3. CASE WriteError
  BY <1>3 DEF WriteError
<1>4. CASE Reopen
  <2>1. /\ pc = "reopen" /\ pc' = "write" /\ setup' = setup
        /\ link' = IF Listens THEN "listening" ELSE "up"
    BY <1>4 DEF Reopen, Opened
  <2>2. CASE Listens
    BY <1>0, <2>1, <2>2 DEF Listens
  <2>3. CASE ~Listens
    BY <1>0, <2>1, <2>3 DEF Listens, ClosedForReopen
  <2> QED BY <2>2, <2>3
<1>5. CASE Flush
  BY <1>5 DEF Flush
<1> QED BY <1>1, <1>2, <1>3, <1>4, <1>5 DEF Attempt

\* The same of any step, if there is one: what is not nearer to the end is where it was, and
\* a link that is up stays up.
LEMMA StepsApproach ==
  TypeOK /\ ClosedForReopen /\ ~trouble /\ ~trouble' /\ [Next]_vars =>
    /\ Writing => Writing' \/ Ended'
    /\ Reopening => Reopening' \/ Writing' \/ Stuck'
    /\ WritingLost => WritingLost' \/ Reopening' \/ Ended' \/ Stuck' \/ Writing'
    /\ Flushing => Flushing' \/ WritingLost' \/ Writing'
    /\ Stuck => Stuck' \/ Ended' \/ Up'
    /\ Up /\ ~Ended => Up'
<1> SUFFICES ASSUME TypeOK, ClosedForReopen, ~trouble, ~trouble', [Next]_vars
             PROVE  /\ Writing => Writing' \/ Ended'
                    /\ Reopening => Reopening' \/ Writing' \/ Stuck'
                    /\ WritingLost => WritingLost' \/ Reopening' \/ Ended' \/ Stuck' \/ Writing'
                    /\ Flushing => Flushing' \/ WritingLost' \/ Writing'
                    /\ Stuck => Stuck' \/ Ended' \/ Up'
                    /\ Up /\ ~Ended => Up'
  OBVIOUS
<1>1. CASE Attempt
  <2>1. Up /\ ~Ended => Up'
    <3>1. CASE Reopen
      BY <3>1 DEF Reopen, ClosedForReopen, Up
    <3>2. CASE WriteSome \/ WriteLost \/ WriteError \/ Flush
      BY <3>2 DEF WriteSome, WriteLost, WriteError, Flush, Up
    <3> QED BY <1>1, <3>1, <3>2 DEF Attempt
  <2> QED BY <1>1, <2>1, AttemptsApproach
<1>2. CASE ~Attempt /\ ~Ended
  <2>1. UNCHANGED <<pc, setup>> /\ (link' = link \/ (link = "listening" /\ link' = "up"))
    BY <1>2, OnlyAttempts
  <2> QED
    BY <2>1 DEF Ended, Up, Writing, Reopening, WritingLost, Flushing, Stuck, Hopeless
<1>3. CASE Ended /\ ~Attempt
  BY <1>3 DEF Ended, Writing, Reopening, WritingLost, Flushing, Stuck
<1> QED BY <1>1, <1>2, <1>3

\* sendRawMessage returns once the network works: its attempts, each of which is possible as
\* long as the call lasts, lead to a write that takes all, to an error that is not retried, or
\* to a link that this call never brings back: that of a serial adapter that was unplugged,
\* and of a Server over Tcp that no client connects to.
THEOREM SendReturnsCorrect == LiveSpec /\ []AttemptEnabled => SendReturns
<1>1. Ended <=> pc = "idle"
  BY DEF Ended
<1>3. TypeOK /\ ClosedForReopen /\ ~trouble /\ <<Attempt>>_vars =>
        /\ Writing => Ended'
        /\ Reopening => Writing' \/ Stuck'
        /\ WritingLost => Ended' \/ Reopening' \/ Stuck'
        /\ Flushing => Writing' \/ WritingLost'
  BY AttemptsApproach
<1> QED
  BY <1>1, <1>3, Somewhere, StepsApproach, ClosedForReopenCorrect, TypeCorrect, PTL
     DEF LiveSpec, Spec, AttemptEnabled, SendReturns
=============================================================================
