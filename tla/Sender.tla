------------------------------- MODULE Sender -------------------------------
(***************************************************************************)
(* The sender of the browser (src/ui/stream/sender.js): messages are       *)
(* gathered in a buffer, and a segment is written when the buffer is full, *)
(* when enough messages have come, when the last of them has waited long   *)
(* enough, or when the sender is closed.  Between send and the write are   *)
(* the queue of a Subscribe (subscribe.js) and a loop that takes from it.  *)
(*                                                                         *)
(* A write encrypts the segment under a nonce of its own (socket.js).      *)
(***************************************************************************)
EXTENDS SequencesExt

CONSTANTS
  SegSize,      \* maxSegSize, 4032 in the code
  MaxBuffered   \* maxBufferedRequests, 10 in the code

ASSUME SenderAssumption == SegSize \in Nat \ {0} /\ MaxBuffered \in Nat \ {0}

VARIABLES
  messages,  \* what send was called with: the kind and the size
  promise,   \* what has become of each message's promise
  queue,     \* subscribe.pending, the entry the loop has been woken with included
  loop,      \* sending: awaits the subscription, writes, or has ended
  callbacks, \* the messages that the next write settles
  rest,      \* the bytes of a message that did not fit into the segment
  buffer,
  segment,   \* the segment that is being written
  purpose,   \* why it is: the buffer was full, a flush, or the flush of close
  requests,  \* bufferedRequests
  timer,     \* sendDelay is pending
  closed,    \* how far close has come
  nonce,     \* senderNonce, counted from 0
  wire,      \* segments on their way to the server
  up         \* the WebSocket is open

senderVars == <<messages, promise, queue, loop, callbacks, rest, buffer, segment,
                purpose, requests, timer, closed, nonce, wire, up>>

Data(n) == [kind |-> "data", message |-> n]
Flush(kind) == [kind |-> kind, message |-> 0]

SenderInit ==
  /\ messages = <<>> /\ promise = <<>> /\ queue = <<>>
  /\ loop = "waiting" /\ callbacks = {} /\ rest = <<>>
  /\ buffer = <<>> /\ segment = <<>> /\ purpose = "flush"
  /\ requests = 0 /\ timer = FALSE /\ closed = "no"
  /\ nonce = 0 /\ wire = <<>> /\ up = TRUE

---------------------------------------------------------------------------
\* Sender.send.
Send(kind, size) ==
  /\ closed = "no"
  /\ LET n == Len(messages) + 1
         full == requests + 1 >= MaxBuffered
     IN /\ messages' = Append(messages, [kind |-> kind, size |-> size])
        /\ promise' = Append(promise, "pending")
        /\ queue' = queue \o IF full THEN <<Data(n), Flush("flush")>> ELSE <<Data(n)>>
        /\ requests' = IF full THEN 0 ELSE requests + 1
        /\ timer' = ~full
  /\ UNCHANGED <<loop, callbacks, rest, buffer, segment, purpose, closed, nonce, wire, up>>

\* The timer of send.
DelayFires ==
  /\ timer
  /\ timer' = FALSE
  /\ requests' = 0
  /\ queue' = Append(queue, Flush("flush"))
  /\ UNCHANGED <<messages, promise, loop, callbacks, rest, buffer, segment, purpose,
                 closed, nonce, wire, up>>

\* exportBuffer, and the call of sendData.
Write(bytes, why) ==
  /\ segment' = bytes
  /\ purpose' = why
  /\ buffer' = <<>>
  /\ requests' = 0
  /\ loop' = "writing"

\* The inner loop of sending: what fits goes into the buffer, and a full one is
\* written.
Fill(bytes) ==
  LET room == SegSize - Len(buffer)
      taken == SubSeq(bytes, 1, IF Len(bytes) < room THEN Len(bytes) ELSE room)
      filled == buffer \o taken
  IN /\ rest' = SubSeq(bytes, Len(taken) + 1, Len(bytes))
     /\ IF Len(filled) = SegSize THEN Write(filled, "full")
        ELSE /\ buffer' = filled
             /\ loop' = "waiting"
             /\ UNCHANGED <<segment, purpose, requests>>

BytesOf(n) == [k \in 1 .. messages[n].size |-> <<n, k>>]

TakeData ==
  /\ loop = "waiting" /\ queue # <<>> /\ Head(queue).kind = "data"
  /\ queue' = Tail(queue)
  /\ callbacks' = callbacks \cup {Head(queue).message}
  /\ Fill(BytesOf(Head(queue).message))
  /\ UNCHANGED <<messages, promise, timer, closed, nonce, wire, up>>

\* A flush; with nothing in the buffer that of close is answered at once.
TakeFlush ==
  /\ loop = "waiting" /\ queue # <<>> /\ Head(queue).kind \in {"flush", "close"}
  /\ queue' = Tail(queue)
  /\ IF buffer # <<>>
     THEN Write(buffer, Head(queue).kind) /\ UNCHANGED closed
     ELSE /\ closed' = IF Head(queue).kind = "close" THEN "flushed" ELSE closed
          /\ UNCHANGED <<loop, buffer, segment, purpose, requests>>
  /\ UNCHANGED <<messages, promise, callbacks, rest, timer, nonce, wire, up>>

\* The Exception of close.
TakeRejection ==
  /\ loop = "waiting" /\ queue # <<>> /\ Head(queue).kind = "reject"
  /\ queue' = Tail(queue)
  /\ loop' = "ended"
  /\ UNCHANGED <<messages, promise, callbacks, rest, buffer, segment, purpose, requests,
                 timer, closed, nonce, wire, up>>

\* Mutant: a message is taken as sent with its first segment.
SentInPart == callbacks
\* resolveOnSuccess: not of the message that goes on in the next segment.
SentWhole == IF purpose = "full" /\ rest # <<>> THEN callbacks \ {rest[1][1]} ELSE callbacks

\* Mutant: of the messages gathered in a segment only the last hears of it.
SettleLast(ns, outcome) ==
  promise' = [n \in DOMAIN promise |->
                IF n \in ns /\ (\A m \in ns : m <= n) THEN outcome ELSE promise[n]]

Settle(ns, outcome) ==
  promise' = [n \in DOMAIN promise |->
                IF n \in ns /\ promise[n] = "pending" THEN outcome ELSE promise[n]]

\* What sending does after a write, however that has ended.
AfterWrite ==
  IF purpose = "full" /\ rest # <<>>
  THEN callbacks' = {rest[1][1]} /\ Fill(rest) /\ UNCHANGED closed
  ELSE /\ callbacks' = {}
       /\ loop' = "waiting"
       /\ closed' = IF purpose = "close" THEN "flushed" ELSE closed
       /\ UNCHANGED <<rest, buffer, segment, purpose, requests>>

IncreaseNonce == nonce' = nonce + 1

\* sendData succeeds: a WebSocket that is closing swallows what it is given.
WriteSucceeds ==
  /\ loop = "writing"
  /\ IncreaseNonce
  /\ wire' = IF up THEN Append(wire, [nonce |-> nonce, bytes |-> segment]) ELSE wire
  /\ Settle(SentWhole, "resolved")
  /\ AfterWrite
  /\ UNCHANGED <<messages, queue, timer, up>>

\* ... or throws: the encryption or the WebSocket has failed, and it is closed.
WriteFails ==
  /\ loop = "writing"
  /\ up' = FALSE
  /\ Settle(callbacks, "rejected")
  /\ AfterWrite
  /\ UNCHANGED <<messages, queue, timer, nonce, wire>>

FlushFirst == queue' = Append(queue, Flush("close")) /\ closed' = "flushing"

\* Sender.close up to the await ...
Close ==
  /\ closed = "no"
  /\ timer' = FALSE
  /\ FlushFirst
  /\ UNCHANGED <<messages, promise, loop, callbacks, rest, buffer, segment, purpose,
                 requests, nonce, wire, up>>

\* ... and after it.
CloseEnds ==
  /\ closed = "flushed"
  /\ closed' = "closed"
  /\ queue' = Append(queue, Flush("reject"))
  /\ requests' = 0
  /\ UNCHANGED <<messages, promise, loop, callbacks, rest, buffer, segment, purpose,
                 timer, nonce, wire, up>>

Sending == DelayFires \/ TakeData \/ TakeFlush \/ TakeRejection \/ WriteSucceeds
           \/ WriteFails \/ CloseEnds
=============================================================================
