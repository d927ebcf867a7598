------------------------------- MODULE RawSend -------------------------------
(***************************************************************************)
(* Device::sendRawMessage (src/src/device.cpp) with the network layers'    *)
(* prepareToSend and sendRawMessage: a message is completed with a header  *)
(* (Tcp) or a CRC (Rtu), then written, again and again while recoveryLink  *)
(* is set and the write of a request fails.                                *)
(*                                                                         *)
(* A message is the flag that makes it a response, the size of its PDU,    *)
(* and the fields prepareToSend writes. The device is a Master, or a       *)
(* Server, whose callback answers or which has a client to ask: the two    *)
(* have their own open().                                                  *)
(***************************************************************************)
EXTENDS Integers

CONSTANTS IdCount,   \* transaction identifiers: 2^16
          MaxSize,   \* of a PDU
          Setups     \* the devices that are considered

\* server : the device is a Server
Setup == [net : {"Tcp", "Rtu"}, recoveryLink : BOOLEAN, server : BOOLEAN]

ASSUME RawSendAssumption ==
  /\ IdCount \in Nat \ {0, 1} /\ MaxSize \in Nat
  /\ Setups \subseteq Setup

VARIABLES
  setup,
  msg,      \* the message of the application
  nextId,   \* TcpLayer::Private::transactionId
  link,     \* "up", "lost" (the peer reset it), "closed", or "listening": of a Server over
            \* Tcp, with no client and no socket to write to
  pc,       \* where sendRawMessage is
  ret,      \* what the last call returned
  written,  \* history: the bytes of the frame that this call could write
  given,    \* history: the identifier a response had when it became one, or was given since
  first,    \* history: the message this call tried to write first
  trouble   \* the network may fail

vars == <<setup, msg, nextId, link, pc, ret, written, given, first, trouble>>

Ids == 0 .. IdCount - 1
Sizes == 0 .. MaxSize
\* kind : what isResponse() says ; length : of the header, Tcp ; crcOf : the bytes of the PDU the CRC at its end is
\* for, or -1, Rtu ; done : completed by prepareToSend and not changed since
Messages == [kind : {"request", "response"}, size : Sizes, id : Ids,
             length : 0 .. MaxSize + 1, crcOf : Sizes \cup {-1}, done : BOOLEAN]

NoMessage == [kind |-> "request", size |-> 0, id |-> 0, length |-> 0, crcOf |-> -1,
              done |-> FALSE]

\* What the network puts before the PDU: modbus_get_header_length.
HeaderLength == IF setup.net = "Tcp" THEN 7 ELSE 1

TypeOK ==
  /\ setup \in Setups
  /\ msg \in Messages
  /\ nextId \in Ids
  /\ link \in {"up", "lost", "closed", "listening"}
  /\ pc \in {"idle", "write", "reopen", "flush"}
  /\ ret \in -1 .. MaxSize + HeaderLength
  /\ written \in 0 .. MaxSize + HeaderLength
  /\ given \in Ids
  /\ first \in Messages
  /\ trouble \in BOOLEAN

Init ==
  /\ setup \in Setups
  /\ msg = NoMessage
  /\ nextId = 1
  /\ link = "closed"
  /\ pc = "idle"
  /\ ret = 0
  /\ written = 0
  /\ given = 0
  /\ first = NoMessage
  /\ trouble = TRUE

-----------------------------------------------------------------------------
(* The application builds a message, or changes the one it has.             *)

\* The outcome of the last call is of no use any more.
Forgotten == ret' = 0 /\ written' = 0

\* Message::Private (q, b, adu): a message of the bytes that were received.
Received(i, n) ==
  [NoMessage EXCEPT !.size = n, !.id = IF setup.net = "Tcp" THEN i ELSE 0]

\* The constructors of Message for a backend or a device: a new one, or one of bytes.
NewMessage(m) ==
  /\ pc = "idle"
  /\ msg' = m
  /\ given' = 0
  /\ Forgotten
  /\ UNCHANGED <<setup, nextId, link, pc, first, trouble>>

NewRequest(i, n) == NewMessage(NoMessage) \/ NewMessage(Received(i, n))

\* Those of Response do not set isResponse either.
NewResponse(i, n) == NewMessage(NoMessage) \/ NewMessage(Received(i, n))

\* Response (const Request &) and (const Message &): a copy of a message with
\* identifier i, with another PDU.
Answer(i, n) ==
  /\ pc = "idle"
  /\ msg' = [Received(i, n) EXCEPT !.kind = "response"]
  /\ given' = msg'.id
  /\ Forgotten
  /\ UNCHANGED <<setup, nextId, link, pc, first, trouble>>

\* Message::setResponseFlag
SetResponseFlag(k) ==
  /\ pc = "idle"
  /\ msg' = [msg EXCEPT !.kind = k]
  /\ given' = IF k = "response" THEN msg.id ELSE 0
  /\ Forgotten
  /\ UNCHANGED <<setup, nextId, link, pc, first, trouble>>

\* Message::setTransactionIdentifier, of a message for Tcp. Its length is what it was.
SetTransactionIdentifier(i) ==
  /\ pc = "idle" /\ setup.net = "Tcp"
  /\ msg' = [msg EXCEPT !.id = i]
  /\ given' = IF msg.kind = "response" THEN i ELSE given
  /\ Forgotten
  /\ UNCHANGED <<setup, nextId, link, pc, first, trouble>>

\* setSize, setByte and setWord of the PDU: the header and the CRC stay as they were.
Edit(n) ==
  /\ pc = "idle"
  /\ msg' = [msg EXCEPT !.size = n, !.crcOf = -1, !.done = FALSE]
  /\ Forgotten
  /\ UNCHANGED <<setup, nextId, link, pc, given, first, trouble>>

-----------------------------------------------------------------------------
(* prepareToSend.                                                           *)

\* Mutant: the counter is not cut to its width.
NextId_Wide == nextId + 1

\* A uint16_t.
NextId == (nextId + 1) % IdCount

\* Mutant: the length does not count the unit identifier.
WithHeader_Short ==
  [msg EXCEPT !.id = IF msg.kind = "request" THEN nextId ELSE @,
              !.length = msg.size, !.done = TRUE]

\* Mutant: responses get an identifier too.
WithHeader_NewId == [msg EXCEPT !.id = nextId, !.length = msg.size + 1, !.done = TRUE]

\* Tcp: a request gets the layer's next identifier, a response keeps the one it has.
WithHeader ==
  [msg EXCEPT !.id = IF msg.kind = "request" THEN nextId ELSE @,
              !.length = msg.size + 1, !.done = TRUE]

\* Rtu: the CRC makes the PDU longer.
WithCrc == [msg EXCEPT !.crcOf = msg.size, !.size = @ + 2, !.done = TRUE]

Completed == IF setup.net = "Tcp" THEN WithHeader ELSE WithCrc

\* What a call of prepareToSend does to the layer's counter.
Counted == IF setup.net = "Tcp" /\ msg.kind = "request" THEN NextId ELSE nextId

-----------------------------------------------------------------------------
(* sendRawMessage.                                                          *)

\* The call. An empty message cannot be prepared: EINVAL. A CRC needs room: MaxSize.
\* Empty messages that are sent as they are are left out.
Send(p) ==
  /\ pc = "idle"
  /\ \/ /\ p /\ msg.size = 0
        /\ ret' = -1 /\ written' = 0
        /\ UNCHANGED <<msg, nextId, pc, first>>
     \/ /\ msg.size >= 1
        /\ p => setup.net = "Tcp" \/ msg.size + 2 <= MaxSize
        /\ IF p THEN msg' = Completed /\ nextId' = Counted
                ELSE UNCHANGED <<msg, nextId>>
        /\ first' = msg'
        /\ pc' = "write"
        /\ Forgotten
  /\ UNCHANGED <<setup, link, given, trouble>>

Retried == setup.recoveryLink /\ msg.kind = "request"

FrameLength == HeaderLength + msg.size

\* Mutant: what was written is not compared with anything.
Compared_NoCheck(n) == n

\* What the call returns after a write of n bytes: rc != msg->size()
Compared(n) == IF n = msg.size THEN n ELSE -1

\* The write of the frame takes some bytes of it, all of them if there is no trouble.
WriteSome ==
  /\ pc = "write" /\ link = "up"
  /\ \E n \in 1 .. FrameLength :
       /\ n = FrameLength \/ trouble
       /\ written' = n
       /\ ret' = Compared(n)
  /\ pc' = "idle"
  /\ first' = NoMessage
  /\ UNCHANGED <<setup, msg, nextId, link, given, trouble>>

\* A failed write ends the call, or the link is closed (d->close) or kept.
Fail(lost) ==
  IF Retried
  THEN /\ pc' = IF lost THEN "reopen" ELSE "flush"
       /\ link' = IF lost THEN "closed" ELSE link
       /\ UNCHANGED <<ret, written, first>>
  ELSE pc' = "idle" /\ ret' = -1 /\ first' = NoMessage /\ UNCHANGED <<link, written>>

\* EBADF without a socket, ECONNRESET or EPIPE of a connection the peer reset. A serial
\* adapter that is gone fails with EIO.
WriteLost ==
  /\ pc = "write" /\ link # "up"
  /\ Fail(link # "lost" \/ setup.net = "Tcp")
  /\ UNCHANGED <<setup, msg, nextId, given, trouble>>

\* Any other error of a link that is up.
WriteError ==
  /\ pc = "write" /\ link = "up" /\ trouble
  /\ Fail(FALSE)
  /\ UNCHANGED <<setup, msg, nextId, given, trouble>>

\* Mutant: the message is prepared again for every attempt.
Again_Prepared == msg' = Completed /\ nextId' = Counted

\* The loop goes on with the same message.
Again == UNCHANGED <<msg, nextId>>

Listens == setup.server /\ setup.net = "Tcp"

\* open() is virtual: a Server over Tcp only listens. It may fail.
Opened == {IF Listens THEN "listening" ELSE "up"} \cup IF trouble THEN {"closed"} ELSE {}

\* Mutant: the link that was closed is not opened.
Reopen_Closed ==
  /\ pc = "reopen"
  /\ pc' = "write"
  /\ Again
  /\ UNCHANGED <<setup, link, ret, written, given, first, trouble>>

\* Mutant: the call waits for a connection before it goes on.
Reopen_Waiting ==
  /\ pc = "reopen" /\ link = "up"
  /\ pc' = "write"
  /\ Again
  /\ UNCHANGED <<setup, link, ret, written, given, first, trouble>>

\* After a pause of the response timeout: d->open, whose result is dropped.
Reopen ==
  /\ pc = "reopen"
  /\ link' \in Opened
  /\ pc' = "write"
  /\ Again
  /\ UNCHANGED <<setup, ret, written, given, first, trouble>>

\* After the same pause: flush.
Flush ==
  /\ pc = "flush"
  /\ pc' = "write"
  /\ Again
  /\ UNCHANGED <<setup, link, ret, written, given, first, trouble>>

-----------------------------------------------------------------------------
(* The network.                                                             *)

\* The peer resets the connection, or the serial adapter is unplugged.
Lose ==
  /\ trouble /\ link = "up"
  /\ link' = "lost"
  /\ UNCHANGED <<setup, msg, nextId, pc, ret, written, given, first, trouble>>

\* Trouble comes and goes.
Change ==
  /\ trouble' = ~trouble
  /\ UNCHANGED <<setup, msg, nextId, link, pc, ret, written, given, first>>

\* Between two calls the application closes and opens the device, or the daemon of a Server
\* does. (That the daemon does in the middle of a call of another thread is left out.)
OpenAgain ==
  /\ pc = "idle" /\ link # "up"
  /\ link' \in Opened
  /\ UNCHANGED <<setup, msg, nextId, pc, ret, written, given, first, trouble>>

\* Server::Private::receive accepts a client, between two calls or in another thread.
Accept ==
  /\ link = "listening"
  /\ link' = "up"
  /\ UNCHANGED <<setup, msg, nextId, pc, ret, written, given, first, trouble>>

-----------------------------------------------------------------------------
Build ==
  \/ \E n \in Sizes :
       Edit(n) \/ \E i \in Ids : NewRequest(i, n) \/ NewResponse(i, n) \/ Answer(i, n)
  \/ \E i \in Ids : SetTransactionIdentifier(i)
  \/ \E k \in {"request", "response"} : SetResponseFlag(k)

Attempt == WriteSome \/ WriteLost \/ WriteError \/ Reopen \/ Flush

Next ==
  \/ Build
  \/ \E p \in BOOLEAN : Send(p)
  \/ Attempt
  \/ Lose \/ Change \/ OpenAgain \/ Accept

Spec == Init /\ [][Next]_vars

\* The thread that is in sendRawMessage runs, and its pauses end. Nothing is assumed of
\* the application or of the network.
LiveSpec == Spec /\ WF_vars(Attempt)

-----------------------------------------------------------------------------
(* Properties.                                                              *)

\* The length of a completed message is that of its PDU and unit identifier, or its last
\* two bytes are the CRC of all the others.
SaysItsLength ==
  msg.done =>
    IF setup.net = "Tcp" THEN msg.length = msg.size + 1
                         ELSE msg.size = msg.crcOf + 2

\* A message that was made a response has the identifier it had then, that of the request it
\* answers, or the one it was given since.
AnswerKeepsId == msg.kind = "response" => msg.id = given

\* message.h:226: a message says what it is and which request it answers, prepared or not,
\* changed or not, however often it is sent.
FrameSound == SaysItsLength /\ AnswerKeepsId

\* Whatever goes wrong in a call, what it tries to write is the message of its first
\* attempt: a retry is not a new transaction; and a response is not retried.
RetriesRepeat ==
  /\ pc # "idle" => msg = first
  /\ pc \in {"reopen", "flush"} => msg.kind = "request"

\* device.h:501 says that sendRawMessage returns "the full message length, if successful.
\* Otherwise it shall return -1". It is the other way round: a call that wrote the whole
\* frame returns -1, and one that returns a length has left out as many bytes as there are
\* in the header.
CompleteWriteFails ==
  /\ written = FrameLength => ret = -1
  /\ ret > 0 => written = ret /\ written = FrameLength - HeaderLength

\* A call that has begun can go on: some step of the loop is possible wherever it is.
AttemptEnabled == pc = "idle" \/ ENABLED <<Attempt>>_vars

\* What a retry does not bring back: a serial adapter that was unplugged, whose error is not
\* one of those that open it again, and the client of a Server over Tcp, which each retry
\* closes and opens, to listen.
Hopeless ==
  IF setup.net = "Rtu" THEN link = "lost" ELSE setup.server /\ link \in {"closed", "listening"}

\* Once the network works a call returns, or its link is one that the call does not bring
\* back, and stays so for ever.
SendReturns == <>[]~trouble => []<>(pc = "idle") \/ <>[]Hopeless
=============================================================================
