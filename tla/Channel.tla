------------------------------ MODULE Channel ------------------------------
(***************************************************************************)
(* The encrypted connection of src/ui/socket.js: the sender of the browser *)
(* (Sender.tla) and the server that reads what it writes; the server's     *)
(* packages and the browser's readers (reader.js), which unpack them when  *)
(* somebody reads; and the flow control of Socket.open, that asks the      *)
(* server to pause while too much is not unpacked.                         *)
(*                                                                         *)
(* Both sides number their segments.  A segment that is opened under       *)
(* another number fails its authentication: it is shown as a byte that     *)
(* nobody has written.                                                     *)
(***************************************************************************)
EXTENDS Sender

CONSTANTS
  MinReceivedToPause,    \* minReceivedToPause, 16384 in the code
  ReceiveToPauseFactor,  \* receiveToPauseFactor, 6 in the code
  Sizes,                 \* sizes of the messages of the browser's streams
  PackageSizes,          \* sizes of the server's packages
  MaxMessages,           \* bound: how many of them there are
  MaxPackages            \* bound: packages of the server

ASSUME ChannelAssumption ==
  /\ {MinReceivedToPause, ReceiveToPauseFactor, MaxMessages, MaxPackages} \subseteq Nat
  /\ Sizes \cup PackageSizes \subseteq Nat \ {0}

VARIABLES
  readNonce,    \* the server's count of what it has read
  read,         \* the bytes it has read
  serverPaused, \* it was asked to pause
  packages,     \* sizes of the packages it has sent
  incoming,     \* packages on their way to the browser
  buffers,      \* Blobs in the Reader's Subscribe, not unpacked
  receiverNonce,
  plain,        \* what the Multiple of the decrypted stream holds
  consumed,     \* the bytes that were read from it
  received,     \* currentReceived
  unpacked,     \* currentUnpacked
  streamPaused

serverVars == <<readNonce, read, serverPaused, packages>>
readerVars == <<incoming, buffers, receiverNonce, plain, consumed>>
flowVars == <<received, unpacked, streamPaused>>
vars == <<senderVars, serverVars, readerVars, flowVars>>

Init ==
  /\ SenderInit
  /\ readNonce = 0 /\ read = <<>> /\ serverPaused = FALSE /\ packages = <<>>
  /\ incoming = <<>> /\ buffers = <<>> /\ receiverNonce = 0
  /\ plain = <<>> /\ consumed = <<>>
  /\ received = 0 /\ unpacked = 0 /\ streamPaused = FALSE

Garbage == <<0, 0>>
Opened(sealed, count) == IF sealed.nonce = count THEN sealed.bytes ELSE <<Garbage>>

---------------------------------------------------------------------------
(* The server                                                              *)

\* The control messages that are whole in what the server has read; the last counts.
Controls(bytes) ==
  {n \in DOMAIN messages : messages[n].kind # "data" /\ <<n, 1>> \in Range(bytes)}

\* The fetcher of socket.Get, and handleControl.  What it still reads of a connection
\* that is gone does not matter.
ServerReads ==
  /\ up /\ wire # <<>>
  /\ wire' = Tail(wire)
  /\ readNonce' = readNonce + 1
  /\ LET bytes == Opened(Head(wire), readNonce)
         asked == Controls(bytes)
     IN /\ read' = read \o bytes
        /\ serverPaused' = IF asked = {} THEN serverPaused
                           ELSE messages[Max(asked)].kind = "pause"
  /\ UNCHANGED <<messages, promise, queue, loop, callbacks, rest, buffer, segment, purpose,
                 requests, timer, closed, nonce, up, packages, readerVars, flowVars>>

\* A stream of the server writes: the packager numbers it.
ServerWrites ==
  /\ up /\ ~serverPaused /\ Len(packages) < MaxPackages
  /\ \E size \in PackageSizes :
       LET n == Len(packages) + 1
       IN /\ packages' = Append(packages, size)
          /\ incoming' = Append(incoming, [nonce |-> n - 1,
                                           bytes |-> [k \in 1 .. size |-> <<n, k>>]])
  /\ UNCHANGED <<senderVars, readNonce, read, serverPaused, buffers,
                 receiverNonce, plain, consumed, flowVars>>

---------------------------------------------------------------------------
(* The browser's readers, and flow control                                 *)

\* The WebSocket's message event.
Arrives ==
  /\ up /\ incoming # <<>>
  /\ incoming' = Tail(incoming)
  /\ buffers' = Append(buffers, Head(incoming))
  /\ received' = received + Len(Head(incoming).bytes)
  /\ UNCHANGED <<senderVars, serverVars, receiverNonce, plain, consumed, unpacked,
                 streamPaused>>

ShouldPause(got, done) ==
  got > MinReceivedToPause /\ got > done * ReceiveToPauseFactor

\* Mutant: when everything is unpacked the counters start again, and that is all.
ControlUnlessEmpty(got, done) ==
  /\ received' = (IF done >= got THEN 0 ELSE got)
  /\ unpacked' = (IF done >= got THEN 0 ELSE done)
  /\ IF done < got /\ closed = "no" /\ ShouldPause(got, done) # streamPaused
     THEN /\ streamPaused' = ~streamPaused
          /\ Send(IF streamPaused THEN "resume" ELSE "pause", 1)
     ELSE UNCHANGED <<senderVars, streamPaused>>

\* inboundUnpacked, after done of got bytes: the counters start again when everything
\* is unpacked, and the server is asked to pause or to go on.
FlowControl(got, done) ==
  LET empty == done >= got
      pause == ~empty /\ ShouldPause(got, done)
  IN /\ received' = (IF empty THEN 0 ELSE got)
     /\ unpacked' = (IF empty THEN 0 ELSE done)
     /\ IF pause = streamPaused THEN UNCHANGED <<senderVars, streamPaused>>
        ELSE /\ streamPaused' = pause
             /\ IF closed # "no" THEN UNCHANGED senderVars
                ELSE Send(IF pause THEN "pause" ELSE "resume", 1)

IncreaseReceiverNonce == receiverNonce' = receiverNonce + 1

\* The depleted callback of cgmReader, when nothing is left of the last package: the
\* Reader reads the next Blob, which is decrypted and fed to the Multiple.
Unpack ==
  /\ up /\ buffers # <<>> /\ plain = <<>>
  /\ buffers' = Tail(buffers)
  /\ plain' = Opened(Head(buffers), receiverNonce)
  /\ IncreaseReceiverNonce
  /\ FlowControl(received, unpacked + Len(Head(buffers).bytes))
  /\ UNCHANGED <<serverVars, incoming, consumed>>

\* Multiple.export(n): no more than there is, and no more than asked for.
Export ==
  /\ up /\ plain # <<>>
  /\ \E n \in {1, Len(plain)} :
       /\ consumed' = consumed \o SubSeq(plain, 1, n)
       /\ plain' = SubSeq(plain, n + 1, Len(plain))
  /\ UNCHANGED <<senderVars, serverVars, incoming, buffers, receiverNonce, flowVars>>

---------------------------------------------------------------------------
(* The streams                                                             *)

DataMessages == Cardinality({n \in DOMAIN messages : messages[n].kind = "data"})

StreamSends ==
  /\ DataMessages < MaxMessages
  /\ \E size \in Sizes : Send("data", size)
  /\ UNCHANGED <<serverVars, readerVars, flowVars>>

\* closeWithReason, of all readers: what is in them is not read any more.
CloseReaders ==
  /\ incoming' = <<>> /\ buffers' = <<>> /\ plain' = <<>>
  /\ received' = 0 /\ unpacked' = 0 /\ streamPaused' = FALSE
  /\ UNCHANGED <<receiverNonce, consumed>>

\* A write that fails closes the WebSocket and the readers.
SenderStep ==
  /\ Sending
  /\ IF up /\ ~up' THEN CloseReaders ELSE UNCHANGED <<readerVars, flowVars>>
  /\ UNCHANGED serverVars

\* Streams.clear closes the sender, and the cleared callback the WebSocket.
Clear == Close /\ UNCHANGED <<serverVars, readerVars, flowVars>>

Down ==
  /\ up' = FALSE
  /\ CloseReaders
  /\ UNCHANGED <<messages, promise, queue, loop, callbacks, rest, buffer, segment, purpose,
                 requests, timer, closed, nonce, wire, serverVars>>

Cleared == up /\ closed = "closed" /\ Down

Break == up /\ Down

Next ==
  \/ StreamSends \/ SenderStep \/ Clear \/ Cleared \/ Break
  \/ ServerReads \/ ServerWrites
  \/ Arrives \/ Unpack \/ Export

Spec == Init /\ [][Next]_vars

\* Timers fire, promises settle, the server reads on and the streams take what has come.
FairSpec ==
  /\ Spec
  /\ WF_vars(SenderStep)
  /\ WF_vars(Cleared)
  /\ WF_vars(ServerReads)
  /\ WF_vars(Arrives)
  /\ WF_vars(Unpack)
  /\ WF_vars(Export)

---------------------------------------------------------------------------
(* Properties                                                              *)

WrittenSizes == [n \in DOMAIN messages |-> messages[n].size]
Resolved == {n \in DOMAIN promise : promise[n] = "resolved"}

\* What has been handed over to the server: what it has read, and what is on its way.
Segments == [i \in DOMAIN wire |-> Opened(wire[i], readNonce + i - 1)]
Delivered == read \o FlattenSeq(Segments)

\* What the browser's streams may rely on, in both directions (Fifo.tla): however
\* messages are gathered, cut into segments, flushed early or late, and whatever fails,
\* they arrive whole and in order under the nonces of both sides; a promise of send is
\* resolved when the message is on its way and not before.
ToServer == INSTANCE Fifo WITH
  written <- WrittenSizes, delivered <- Delivered, confirmed <- Resolved, up <- up
ToBrowser == INSTANCE Fifo WITH
  written <- packages, delivered <- consumed, confirmed <- {}, up <- up

BothWaysInOrder == ToServer!Spec /\ ToBrowser!Spec

\* Every promise of send is settled, in whatever order the delay, the tenth message, a
\* full buffer, close and a failing write come (Sender.sending, Sender.close).
EveryPromiseIsSettled ==
  \A n \in 1 .. MaxMessages + MaxPackages :
    n \in DOMAIN promise ~> n \in DOMAIN promise /\ promise[n] # "pending"

\* A server that was asked to pause is asked to go on when the browser has caught up:
\* nobody waits for a byte that only the other would send (Socket.open).
PausedIsResumed == serverPaused ~> ~serverPaused \/ ~up
=============================================================================
