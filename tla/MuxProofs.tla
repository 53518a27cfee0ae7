----------------------------- MODULE MuxProofs -----------------------------
(***************************************************************************)
(* The safety of one connection with both its ends, for any number of      *)
(* slots, sessions and frames in transit.                                  *)
(*                                                                         *)
(* The properties of Mux.tla are about the frame an end reads next.  What  *)
(* that frame may be depends on everything that was written before it, so  *)
(* the invariant says, slot by slot, what may be under way in which state  *)
(* of the two ends, and in which order.  It is about a connection that is  *)
(* up: when it is gone, nothing that is read matters any more.             *)
(***************************************************************************)
EXTENDS Mux, HandlerProofs, SequenceTheorems

---------------------------------------------------------------------------
(* What is under way.                                                       *)

Kind(f) == IF f.type = "stream" THEN f.body ELSE f.type

Messages == {"answer", "input", "refuse"}
Early == {"hook", "prompt", "report"}
StreamKinds == AnswerBodies \cup OutputBodies \cup {"close", "completed"}

\* A frame of the stream in slot s.
IsOf(f, s) == f.slot = s /\ f.type # "control"

Has(q, s, kinds) == \E f \in Range(q) : IsOf(f, s) /\ Kind(f) \in kinds
IsSent(s, kinds) == Has(toServer, s, kinds)
IsComing(s, kinds) == Has(toClient, s, kinds)
Quiet(s) == ~IsComing(s, StreamKinds)

SameStream(f, g) == IsOf(f, g.slot) /\ g.type # "control"

\* What the browser writes after a frame while the server has not read that: after
\* COMPLETED the next session's request, after CLOSE nothing but COMPLETED.
MayBeSentAfter(f, g) ==
  /\ Kind(f) = "completed" => Kind(g) # "completed" /\ g.sess # f.sess
  /\ Kind(g) = "completed" => g.sess = f.sess
  /\ Kind(f) = "close" => g.type # "close" /\ g.type # "stream"
  /\ Kind(f) = "request" => g.type # "stream"

\* The order in which the server speaks: the answer, what is said before there is a
\* connection, that there is one, its output, CLOSE, COMPLETED.  After a failure there
\* is nothing but COMPLETED, for a request that was cancelled.  A machine that may
\* write early comes before its request's ok with anything, its CLOSE included.
MayComeAfter(f, g) ==
  /\ Kind(g) \in AnswerBodies =>
       EarlyFrames /\ Kind(g) = "ok" /\ Kind(f) \in OutputBodies \cup {"close"}
  /\ Kind(f) \in {"connected", "output"} => Kind(g) \notin Early \cup {"connected"}
  /\ Kind(f) = "failed" => Kind(g) = "completed"
  /\ Kind(f) = "close" => Kind(g) \in {"completed", "ok"}
  /\ Kind(f) # "completed"

InOrder(q, order) == \A i, j \in DOMAIN q : i < j => <<q[i], q[j]>> \in order

SentOrder == {p \in Frames \X Frames : SameStream(p[1], p[2]) => MayBeSentAfter(p[1], p[2])}
ComingOrder == {p \in Frames \X Frames : SameStream(p[1], p[2]) => MayComeAfter(p[1], p[2])}

---------------------------------------------------------------------------
(* Where the two ends are.                                                  *)

\* The connection ends: the server reads nothing any more.
Ending == \/ pc \in {"shutdown", "done"}
          \/ pc \in {"closing", "releasing"} /\ why = "shutdown"

\* The server is about to answer the request for s; in its handleClose; in its
\* handleCompleted.  The browser is in its handleClose.
Answering(s) == pc = "signal" /\ cur = s
ServesClose(s) == pc \in {"closing", "reply"} /\ cur = s /\ why = "close"
ServesCompleted(s) == pc \in {"closing", "releasing"} /\ cur = s /\ why = "completed"
Completing(s) == cpc = "completing" /\ closing = s

Vacant(s) == fsmMachine[s] = NoSession

\* The server runs a machine for the session that has the slot in the browser, ...
Current(s) == ~Vacant(s) /\ serves[fsmMachine[s]] = command[s]

\* ... or still one for the slot's previous session.
Outlived(s) == ~Vacant(s) /\ serves[fsmMachine[s]] # command[s]

\* The machine has sent CLOSE.
HasClosed(s) == remote[fsmMachine[s]] \in {"signalled", "ended"}

\* It has told the browser that it is connected.
HasGreeted(s) == /\ remote[fsmMachine[s]] \in {"connected", "leaving", "signalled", "ended"}
                 /\ conn[fsmMachine[s]]

SenderClosed(s) == Running(s) /\ senderClosed[command[s]]
IsConnected(s) == Running(s) /\ connected[command[s]]
Opening(s) == Running(s) /\ initializing[s]
ShuttingDown(s) == Running(s) /\ shuttingDown[s]

---------------------------------------------------------------------------
(* The invariant of a slot.                                                 *)

\* A slot that is initializing has a request on its way, or one being answered, or
\* the answer on its way, and only one of them.
OpenInv(s) ==
  /\ Opening(s) => /\ IsSent(s, {"request"}) \/ Answering(s) \/ IsComing(s, AnswerBodies)
                   /\ ~IsConnected(s)
                   /\ SenderClosed(s) => ShuttingDown(s)
  /\ IsSent(s, {"request"}) => /\ Opening(s) /\ Quiet(s)
                               /\ ~Current(s) /\ ~Answering(s) /\ ~ServesClose(s)
  /\ Answering(s) => /\ Opening(s) /\ ~IsComing(s, AnswerBodies) /\ ~IsComing(s, {"completed"})
                     /\ Quiet(s) \/ (EarlyFrames /\ why = "ok")
                     /\ IF why = "ok" THEN Current(s) ELSE Vacant(s)
  /\ IsComing(s, AnswerBodies) => Opening(s)
  /\ IsComing(s, {"ok"}) => Current(s) \/ Ending \/ (EarlyFrames /\ ShuttingDown(s))
  /\ IsComing(s, {"failed"}) => Vacant(s)

\* While the server serves, a stream that is open in the browser has its machine.
UseInv(s) ==
  /\ ShuttingDown(s) => SenderClosed(s)
  /\ Running(s) /\ ~Opening(s) /\ ~Ending => ShuttingDown(s) \/ Current(s)
  /\ Current(s) /\ ~SenderClosed(s) /\ ~Ending => fsmRunning[s] /\ ~fsmClosed[s]
  /\ IsSent(s, Messages) /\ ~Ending =>
       /\ Current(s) /\ ~Opening(s) /\ fsmRunning[s] /\ ~fsmClosed[s]

\* The browser's CLOSE is on its way, or served, or its COMPLETED is on the way, and
\* only one of them.
CloseInv(s) ==
  /\ IsSent(s, {"close"}) /\ ~Ending => /\ SenderClosed(s) /\ ~ServesClose(s)
                                        /\ ~IsComing(s, {"completed"})
  /\ ServesClose(s) => /\ SenderClosed(s) /\ ~IsComing(s, {"completed"})
                       /\ ~Outlived(s)
  /\ IsComing(s, {"completed"}) => /\ SenderClosed(s)
                                   /\ ShuttingDown(s) \/ IsComing(s, {"close"})
                                   /\ ~Vacant(s) => /\ fsmClosed[s]
                                                    /\ remote[fsmMachine[s]] = "ended"

\* And the same for the server's.
EndInv(s) ==
  /\ ~Vacant(s) /\ HasClosed(s) => \/ IsComing(s, {"close"}) \/ Completing(s)
                                   \/ IsSent(s, {"completed"}) \/ ServesCompleted(s)
  /\ IsComing(s, {"close"}) => /\ ~Vacant(s) => HasClosed(s)
                               /\ ~Completing(s)
                               /\ ~Ending => /\ ~Vacant(s) /\ ~ServesCompleted(s)
                                             /\ ~IsSent(s, {"completed"})
  /\ Completing(s) => /\ ShuttingDown(s) /\ (Opening(s) => EarlyFrames)
                      /\ ~Vacant(s) => Current(s) /\ HasClosed(s)
                      /\ ~Ending => /\ ~Vacant(s) /\ ~ServesCompleted(s)
                                    /\ ~IsSent(s, {"completed"})
  /\ IsSent(s, {"completed"}) /\ ~Ending =>
       /\ ~Vacant(s) /\ fsmRunning[s] /\ HasClosed(s) /\ ~ServesCompleted(s)
       /\ Current(s) => ShuttingDown(s) /\ (Opening(s) => EarlyFrames)
  /\ ServesCompleted(s) => /\ ~Vacant(s) /\ HasClosed(s)
                           /\ Current(s) => ShuttingDown(s) /\ (Opening(s) => EarlyFrames)

\* A machine the slot has outlived has ended, and the browser's COMPLETED for it is
\* on its way, or served.
OutlivedInv(s) ==
  Outlived(s) => /\ remote[fsmMachine[s]] = "ended"
                 /\ IsSent(s, {"completed"}) \/ ServesCompleted(s)
                 /\ Running(s) => IsSent(s, {"request"})
                 /\ Quiet(s)

\* Nothing comes for a slot that is free.  What comes before connect.succeed finds a
\* session that is not connected, and what comes after it one that is.
TalkInv(s) ==
  /\ ~Quiet(s) => Running(s)
  /\ IsConnected(s) => /\ ~IsComing(s, Early \cup {"connected"})
                       /\ Current(s) => HasGreeted(s)
  /\ IsComing(s, {"connected", "output"}) /\ Current(s) => HasGreeted(s)
  /\ ~IsConnected(s) /\ ~ShuttingDown(s) =>
       /\ IsComing(s, {"output"}) => IsComing(s, {"connected"})
       /\ Current(s) /\ remote[fsmMachine[s]] = "connected" => IsComing(s, {"connected"})

SlotInv(s) == /\ OpenInv(s) /\ UseInv(s) /\ CloseInv(s) /\ EndInv(s)
              /\ OutlivedInv(s) /\ TalkInv(s)

---------------------------------------------------------------------------
(* The invariant of the connection.                                         *)

ClientTypeOK ==
  /\ cpc \in {"serve", "completing", "stopped"}
  /\ closing \in Slots
  /\ command \in [Slots -> 0 .. MaxSession]
  /\ initializing \in [Slots -> BOOLEAN]
  /\ shuttingDown \in [Slots -> BOOLEAN]
  /\ sessions \in 0 .. MaxSession
  /\ senderClosed \in [Sessions -> BOOLEAN]
  /\ connected \in [Sessions -> BOOLEAN]
  /\ request \in [Sessions -> Slots \cup {NoRequest}]
  /\ prompted \in [Sessions -> BOOLEAN]
  /\ streamPaused \in BOOLEAN
  /\ serves \in [Sessions -> 0 .. MaxSession]

\* Sessions and machines are numbered as they come, and a session has one slot.
Numbered ==
  /\ \A s \in Slots : command[s] <= sessions
  /\ \A s, t \in Slots : Running(s) /\ command[s] = command[t] => s = t
  /\ \A s \in Slots : ~Running(s) => ~initializing[s] /\ ~shuttingDown[s]
  /\ \A m \in Sessions : m > sessions => ~senderClosed[m] /\ ~connected[m]
  /\ \A k \in Sessions : k <= machines => serves[k] \in 1 .. sessions
  /\ \A f \in Range(toServer) : f.type # "control" => f.sess \in 1 .. sessions

\* A wizard's request is in the slot of its session, and handleClose in a slot in use.
Held == /\ \A m \in Sessions : request[m] # NoRequest => command[request[m]] = m
        /\ cpc = "completing" => Running(closing)

\* Every frame is one that the other end may be sent, and says whose it is.
SentFrame(f) ==
  \/ f \in {Control("pause"), Control("resume")}
  \/ /\ Kind(f) \in Messages \cup {"request", "close", "completed"}
     /\ Kind(f) = "request" => f.sess = command[f.slot]
     /\ Kind(f) \in Messages \cup {"close"} /\ ~Ending => f.sess = command[f.slot]
     /\ Kind(f) = "completed" =>
          /\ f = Completed(f.slot, f.sess)
          /\ ~Vacant(f.slot) => f.sess = serves[fsmMachine[f.slot]]
ComingFrame(f) ==
  \/ f = Control("echo")
  \/ /\ Kind(f) \in StreamKinds
     /\ f.sess \in 0 .. machines
     /\ f.sess # NoSession => serves[f.sess] = command[f.slot]

FramesInv == /\ \A f \in Range(toServer) : SentFrame(f)
             /\ \A f \in Range(toClient) : ComingFrame(f)

LinkInv ==
  /\ cpc # "stopped"
  /\ pc = "reply" => why = "close"
  /\ \A s \in Slots : SlotInv(s)
  /\ FramesInv
  /\ InOrder(toClient, ComingOrder)
  /\ ~Ending => InOrder(toServer, SentOrder)

\* What is true whether the connection is up or not.
BrowserInv == WireTypeOK /\ ClientTypeOK /\ Numbered /\ Held

\* A machine that says it is connected has delivered its connection.
Delivered == \A m \in Sessions : remote[m] \in {"greeting", "connected"} => conn[m]

MuxInv == IInv /\ Delivered /\ BrowserInv /\ (up => LinkInv)
---------------------------------------------------------------------------
(* Frames and queues of frames.                                             *)

LEMMA AppendFrame ==
  ASSUME NEW q \in Seq(Frames), NEW f \in Frames, NEW order
  PROVE  /\ Append(q, f) \in Seq(Frames)
         /\ Range(Append(q, f)) = Range(q) \cup {f}
         /\ InOrder(q, order) /\ (\A g \in Range(q) : <<g, f>> \in order)
              => InOrder(Append(q, f), order)
<1> DEFINE r == Append(q, f)
<1>1. /\ r \in Seq(Frames)
      /\ DOMAIN r = 1 .. Len(q) + 1
      /\ DOMAIN q = 1 .. Len(q)
      /\ Len(q) \in Nat
      /\ \A i \in 1 .. Len(q) : r[i] = q[i]
      /\ r[Len(q) + 1] = f
  BY AppendProperties, LenProperties
<1> HIDE DEF r
<1>2. Range(r) = Range(q) \cup {f}
  BY <1>1 DEF Range
<1>3. ASSUME InOrder(q, order), \A g \in Range(q) : <<g, f>> \in order,
             NEW i \in DOMAIN r, NEW j \in DOMAIN r, i < j
      PROVE  <<r[i], r[j]>> \in order
  <2>1. CASE j = Len(q) + 1
    BY <1>1, <1>3, <2>1 DEF Range
  <2>2. CASE j # Len(q) + 1
    BY <1>1, <1>3, <2>2 DEF InOrder
  <2> QED
    BY <2>1, <2>2
<1>4. InOrder(q, order) /\ (\A g \in Range(q) : <<g, f>> \in order) => InOrder(r, order)
  BY <1>3 DEF InOrder
<1> QED
  BY <1>1, <1>2, <1>4 DEF r

LEMMA TailFrames ==
  ASSUME NEW q \in Seq(Frames), q # <<>>, NEW order
  PROVE  /\ Tail(q) \in Seq(Frames)
         /\ Head(q) \in Frames
         /\ Range(q) = {Head(q)} \cup Range(Tail(q))
         /\ InOrder(q, order) => /\ InOrder(Tail(q), order)
                                 /\ \A g \in Range(Tail(q)) : <<Head(q), g>> \in order
<1> DEFINE r == Tail(q)
<1>1. /\ r \in Seq(Frames)
      /\ Head(q) \in Frames /\ Head(q) = q[1]
      /\ DOMAIN r = 1 .. Len(q) - 1
      /\ DOMAIN q = 1 .. Len(q)
      /\ Len(q) \in Nat \ {0}
      /\ \A i \in 1 .. Len(q) - 1 : r[i] = q[i + 1]
  BY HeadTailProperties, LenProperties, EmptySeq
<1> HIDE DEF r
<1>2. Range(q) \subseteq {q[1]} \cup Range(r)
  <2> SUFFICES ASSUME NEW i \in 1 .. Len(q), i # 1
               PROVE  q[i] \in Range(r)
    BY <1>1 DEF Range
  <2>1. i - 1 \in DOMAIN r /\ q[i] = r[i - 1]
    BY <1>1
  <2> QED
    BY <2>1 DEF Range
<1>3. {q[1]} \cup Range(r) \subseteq Range(q)
  BY <1>1 DEF Range
<1>4. ASSUME InOrder(q, order)
      PROVE  InOrder(r, order) /\ \A g \in Range(r) : <<q[1], g>> \in order
  <2>1. InOrder(r, order)
    <3> SUFFICES ASSUME NEW i \in DOMAIN r, NEW j \in DOMAIN r, i < j
                 PROVE  <<r[i], r[j]>> \in order
      BY DEF InOrder
    <3>1. i + 1 \in DOMAIN q /\ j + 1 \in DOMAIN q /\ i + 1 < j + 1
      BY <1>1
    <3>2. r[i] = q[i + 1] /\ r[j] = q[j + 1]
      BY <1>1
    <3> QED
      BY <1>4, <3>1, <3>2 DEF InOrder
  <2>2. ASSUME NEW i \in DOMAIN r
        PROVE  <<q[1], r[i]>> \in order
    <3>1. 1 \in DOMAIN q /\ i + 1 \in DOMAIN q /\ 1 < i + 1 /\ r[i] = q[i + 1]
      BY <1>1
    <3> QED
      BY <1>4, <3>1 DEF InOrder
  <2> QED
    BY <2>1, <2>2 DEF Range
<1> QED
  BY <1>1, <1>2, <1>3, <1>4 DEF r

LEMMA HasKinds ==
  ASSUME NEW q, NEW s
  PROVE  /\ Has(q, s, AnswerBodies) <=> Has(q, s, {"ok"}) \/ Has(q, s, {"failed"})
         /\ Has(q, s, Early \cup {"connected"}) <=> Has(q, s, Early) \/ Has(q, s, {"connected"})
         /\ Has(q, s, {"connected", "output"})
              <=> Has(q, s, {"connected"}) \/ Has(q, s, {"output"})
         /\ Has(q, s, StreamKinds)
              <=> \/ Has(q, s, {"ok"}) \/ Has(q, s, {"failed"})
                  \/ Has(q, s, Early) \/ Has(q, s, {"connected"}) \/ Has(q, s, {"output"})
                  \/ Has(q, s, {"close"}) \/ Has(q, s, {"completed"})
BY DEF Has, AnswerBodies, OutputBodies, Early, StreamKinds

LEMMA FramesAreFrames ==
  ASSUME NEW s \in Slots, NEW m \in 0 .. MaxSession, NEW b \in Bodies
  PROVE  /\ Stream(s, b, m) \in Frames /\ Kind(Stream(s, b, m)) = b
         /\ Stream(s, b, m).slot = s /\ Stream(s, b, m).sess = m
         /\ Stream(s, b, m).type = "stream" /\ Stream(s, b, m).body = b
         /\ Close(s, m) \in Frames /\ Kind(Close(s, m)) = "close"
         /\ Close(s, m).slot = s /\ Close(s, m).sess = m /\ Close(s, m).type = "close"
         /\ Completed(s, m) \in Frames /\ Kind(Completed(s, m)) = "completed"
         /\ Completed(s, m).slot = s /\ Completed(s, m).sess = m
         /\ Completed(s, m).type = "completed"
         /\ Control(b) \in Frames /\ Kind(Control(b)) = "control"
         /\ Control(b).type = "control" /\ Control(b).body = b
BY SlotsFacts, WireAssumption
DEF Frames, Stream, Close, Completed, Control, Kind, Types, NoSession, Bodies

LEMMA SendFrame ==
  ASSUME WireTypeOK, up, NEW f \in Frames, WriteToServer(f)
  PROVE  /\ toServer' \in Seq(Frames)
         /\ Range(toServer') = Range(toServer) \cup {f}
         /\ \A s, kinds : IsSent(s, kinds)'
                            <=> IsSent(s, kinds) \/ (IsOf(f, s) /\ Kind(f) \in kinds)
         /\ InOrder(toServer, SentOrder) /\ (\A g \in Range(toServer) : <<g, f>> \in SentOrder)
              => InOrder(toServer, SentOrder)'
<1>1. toServer' = Append(toServer, f)
  BY DEF WriteToServer
<1>2. /\ toServer' \in Seq(Frames)
      /\ Range(toServer') = Range(toServer) \cup {f}
      /\ InOrder(toServer, SentOrder) /\ (\A g \in Range(toServer) : <<g, f>> \in SentOrder)
              => InOrder(toServer', SentOrder)
  BY <1>1, AppendFrame DEF WireTypeOK
<1>3. SentOrder' = SentOrder
  BY DEF SentOrder
<1> QED
  BY <1>2, <1>3 DEF IsSent, Has

LEMMA ComeFrame ==
  ASSUME WireTypeOK, up, NEW f \in Frames, WriteToClient(f)
  PROVE  /\ toClient' \in Seq(Frames)
         /\ Range(toClient') = Range(toClient) \cup {f}
         /\ \A s, kinds : IsComing(s, kinds)'
                            <=> IsComing(s, kinds) \/ (IsOf(f, s) /\ Kind(f) \in kinds)
         /\ InOrder(toClient, ComingOrder)
              /\ (\A g \in Range(toClient) : <<g, f>> \in ComingOrder)
              => InOrder(toClient, ComingOrder)'
<1>1. toClient' = Append(toClient, f)
  BY DEF WriteToClient
<1>2. /\ toClient' \in Seq(Frames)
      /\ Range(toClient') = Range(toClient) \cup {f}
      /\ InOrder(toClient, ComingOrder)
           /\ (\A g \in Range(toClient) : <<g, f>> \in ComingOrder)
           => InOrder(toClient', ComingOrder)
  BY <1>1, AppendFrame DEF WireTypeOK
<1>3. ComingOrder' = ComingOrder
  BY DEF ComingOrder
<1> QED
  BY <1>2, <1>3 DEF IsComing, Has

LEMMA ReadSent ==
  ASSUME WireTypeOK, NEW type, Reads(type)
  PROVE  /\ Incoming \in Frames /\ Incoming \in Range(toServer) /\ Incoming.type = type
         /\ toServer' \in Seq(Frames)
         /\ Range(toServer') \subseteq Range(toServer)
         /\ \A s, kinds : IsSent(s, kinds)' => IsSent(s, kinds)
         /\ \A s, kinds : ~(IsOf(Incoming, s) /\ Kind(Incoming) \in kinds)
                            => (IsSent(s, kinds)' <=> IsSent(s, kinds))
         /\ InOrder(toServer, SentOrder) =>
              /\ InOrder(toServer, SentOrder)'
              /\ \A g \in Range(toServer') : SameStream(Incoming, g) => MayBeSentAfter(Incoming, g)
<1>1. toServer # <<>> /\ toServer' = Tail(toServer) /\ Incoming.type = type
  BY DEF Reads
<1>2. /\ toServer' \in Seq(Frames) /\ Incoming \in Frames
      /\ Range(toServer) = {Incoming} \cup Range(toServer')
      /\ InOrder(toServer, SentOrder) =>
           /\ InOrder(toServer', SentOrder)
           /\ \A g \in Range(toServer') : <<Incoming, g>> \in SentOrder
  BY <1>1, TailFrames DEF WireTypeOK, Incoming
<1>3. SentOrder' = SentOrder
  BY DEF SentOrder
<1>4. ASSUME NEW g, <<Incoming, g>> \in SentOrder
      PROVE  SameStream(Incoming, g) => MayBeSentAfter(Incoming, g)
  BY <1>4 DEF SentOrder
<1> QED
  BY <1>1, <1>2, <1>3, <1>4 DEF IsSent, Has

LEMMA ReadComing ==
  ASSUME WireTypeOK, NEW type, Receives(type)
  PROVE  /\ Received \in Frames /\ Received \in Range(toClient) /\ Received.type = type
         /\ toClient' \in Seq(Frames)
         /\ Range(toClient') \subseteq Range(toClient)
         /\ \A s, kinds : IsComing(s, kinds)' => IsComing(s, kinds)
         /\ \A s, kinds : ~(IsOf(Received, s) /\ Kind(Received) \in kinds)
                            => (IsComing(s, kinds)' <=> IsComing(s, kinds))
         /\ InOrder(toClient, ComingOrder) =>
              /\ InOrder(toClient, ComingOrder)'
              /\ \A g \in Range(toClient') : SameStream(Received, g) => MayComeAfter(Received, g)
<1>1. toClient # <<>> /\ toClient' = Tail(toClient) /\ Received.type = type
  BY DEF Receives
<1>2. /\ toClient' \in Seq(Frames) /\ Received \in Frames
      /\ Range(toClient) = {Received} \cup Range(toClient')
      /\ InOrder(toClient, ComingOrder) =>
           /\ InOrder(toClient', ComingOrder)
           /\ \A g \in Range(toClient') : <<Received, g>> \in ComingOrder
  BY <1>1, TailFrames DEF WireTypeOK, Received
<1>3. ComingOrder' = ComingOrder
  BY DEF ComingOrder
<1>4. ASSUME NEW g, <<Received, g>> \in ComingOrder
      PROVE  SameStream(Received, g) => MayComeAfter(Received, g)
  BY <1>4 DEF ComingOrder
<1> QED
  BY <1>1, <1>2, <1>3, <1>4 DEF IsComing, Has

---------------------------------------------------------------------------
(* Slots a step does not touch.                                             *)

SameInBrowser(s) ==
  /\ command'[s] = command[s]
  /\ initializing'[s] = initializing[s] /\ shuttingDown'[s] = shuttingDown[s]
  /\ Running(s) => /\ senderClosed'[command[s]] = senderClosed[command[s]]
                   /\ connected'[command[s]] = connected[command[s]]
  /\ Completing(s)' <=> Completing(s)

SameAtServer(s) ==
  /\ fsmMachine'[s] = fsmMachine[s]
  /\ fsmRunning'[s] = fsmRunning[s] /\ fsmClosed'[s] = fsmClosed[s]
  /\ ~Vacant(s) => /\ serves'[fsmMachine[s]] = serves[fsmMachine[s]]
                   /\ remote'[fsmMachine[s]] = remote[fsmMachine[s]]
                   /\ conn'[fsmMachine[s]] = conn[fsmMachine[s]]
  /\ Answering(s)' <=> Answering(s)
  /\ Answering(s) => why' = why
  /\ ServesClose(s)' <=> ServesClose(s)
  /\ ServesCompleted(s)' <=> ServesCompleted(s)

SameUnderWay(s) == \A kinds : /\ IsSent(s, kinds)' <=> IsSent(s, kinds)
                              /\ IsComing(s, kinds)' <=> IsComing(s, kinds)

LEMMA BrowserAtoms ==
  ASSUME NEW s, SameInBrowser(s)
  PROVE  /\ Running(s)' <=> Running(s)
         /\ Opening(s)' <=> Opening(s)
         /\ ShuttingDown(s)' <=> ShuttingDown(s)
         /\ SenderClosed(s)' <=> SenderClosed(s)
         /\ IsConnected(s)' <=> IsConnected(s)
         /\ Completing(s)' <=> Completing(s)
BY DEF SameInBrowser, Running, Opening, ShuttingDown, SenderClosed, IsConnected

LEMMA ServerAtoms ==
  ASSUME NEW s, SameAtServer(s)
  PROVE  /\ Vacant(s)' <=> Vacant(s)
         /\ (fsmRunning[s])' <=> fsmRunning[s]
         /\ (fsmClosed[s])' <=> fsmClosed[s]
         /\ ~Vacant(s) => /\ HasClosed(s)' <=> HasClosed(s)
                          /\ HasGreeted(s)' <=> HasGreeted(s)
                          /\ (remote[fsmMachine[s]])' = remote[fsmMachine[s]]
         /\ Answering(s)' <=> Answering(s)
         /\ Answering(s) => why' = why
         /\ ServesClose(s)' <=> ServesClose(s)
         /\ ServesCompleted(s)' <=> ServesCompleted(s)
         /\ command'[s] = command[s] => /\ Current(s)' <=> Current(s)
                                        /\ Outlived(s)' <=> Outlived(s)
BY DEF SameAtServer, Vacant, HasClosed, HasGreeted, Current, Outlived

LEMMA UnderWayAtoms ==
  ASSUME NEW s, SameUnderWay(s)
  PROVE  /\ Quiet(s)' <=> Quiet(s)
         /\ \A kinds : IsSent(s, kinds)' <=> IsSent(s, kinds)
         /\ \A kinds : IsComing(s, kinds)' <=> IsComing(s, kinds)
BY DEF SameUnderWay, Quiet

LEMMA UntouchedSlot ==
  ASSUME NEW s, SlotInv(s),
         SameInBrowser(s), SameAtServer(s), SameUnderWay(s), Ending => Ending'
  PROVE  SlotInv(s)'
<1>1. command'[s] = command[s]
  BY DEF SameInBrowser
<1> USE <1>1, BrowserAtoms, ServerAtoms, UnderWayAtoms
<1>2. OpenInv(s)' /\ UseInv(s)'
  BY DEF SlotInv, OpenInv, UseInv
<1>3. CloseInv(s)' /\ EndInv(s)'
  BY DEF SlotInv, CloseInv, EndInv, Outlived, Vacant, Current
<1>4. OutlivedInv(s)' /\ TalkInv(s)'
  BY DEF SlotInv, OutlivedInv, TalkInv, Outlived, Vacant, Current
<1> QED
  BY <1>2, <1>3, <1>4 DEF SlotInv
---------------------------------------------------------------------------
(* What the browser does, whether the connection is up or not.              *)

LEMMA ClientFacts ==
  ASSUME BrowserInv
  PROVE  /\ sessions \in Nat
         /\ \A s \in Slots : /\ command[s] \in 0 .. MaxSession
                             /\ Running(s) => command[s] \in Sessions /\ command[s] \in 1 .. sessions
         /\ \A m \in Sessions : request[m] # NoRequest => request[m] \in Slots
         /\ NoRequest \notin Slots
<1>1. sessions \in Nat
  BY DEF BrowserInv, ClientTypeOK
<1>2. ASSUME NEW s \in Slots
      PROVE  /\ command[s] \in 0 .. MaxSession
             /\ Running(s) => command[s] \in Sessions /\ command[s] \in 1 .. sessions
  BY WireAssumption DEF BrowserInv, ClientTypeOK, Numbered, Running, Sessions, NoSession
<1>3. NoRequest \notin Slots
  BY WireAssumption DEF NoRequest, Slots
<1>4. \A m \in Sessions : request[m] # NoRequest => request[m] \in Slots
  BY DEF BrowserInv, ClientTypeOK
<1> QED
  BY <1>1, <1>2, <1>3, <1>4

\* The frames the browser writes are its own sessions'.
LEMMA ClientSends ==
  ASSUME BrowserInv, NEW f \in Frames, WriteToServer(f), UNCHANGED up,
         sessions' \in Nat, sessions <= sessions',
         f.type # "control" => f.sess \in 1 .. sessions'
  PROVE  /\ toServer' \in Seq(Frames)
         /\ \A g \in Range(toServer') : g.type # "control" => g.sess \in 1 .. sessions'
<1>1. CASE up
  <2>1. Range(toServer') = Range(toServer) \cup {f} /\ toServer' \in Seq(Frames)
    BY <1>1, SendFrame DEF BrowserInv
  <2>2. ASSUME NEW g \in Range(toServer), g.type # "control"
        PROVE  g.sess \in 1 .. sessions'
    BY <2>2, ClientFacts DEF BrowserInv, Numbered
  <2> QED
    BY <2>1, <2>2
<1>2. CASE ~up
  <2>1. toServer' = toServer
    BY <1>2 DEF WriteToServer
  <2>2. ASSUME NEW g \in Range(toServer), g.type # "control"
        PROVE  g.sess \in 1 .. sessions'
    BY <2>2, ClientFacts DEF BrowserInv, Numbered
  <2> QED
    BY <2>1, <2>2 DEF BrowserInv, WireTypeOK
<1> QED
  BY <1>1, <1>2

LEMMA CloseStreamEffects ==
  ASSUME BrowserInv, NEW s \in Slots, Running(s), CloseStream(s), UNCHANGED up
  PROVE  /\ shuttingDown' = [shuttingDown EXCEPT ![s] = TRUE]
         /\ senderClosed' = [senderClosed EXCEPT ![command[s]] = @ \/ ~shuttingDown[s]]
         /\ IF shuttingDown[s] \/ senderClosed[command[s]]
              THEN toServer' = toServer
              ELSE WriteToServer(Close(s, command[s]))
<1>1. command[s] \in Sessions
  BY ClientFacts
<1> QED
  BY <1>1 DEF CloseStream, CloseSender, BrowserInv, ClientTypeOK

LEMMA NoRequestFact ==
  /\ NoRequest \in Slots \cup {NoRequest} /\ NoRequest \notin Slots
  /\ 0 \in Slots /\ NoSession \in 0 .. MaxSession /\ NoSession \notin Sessions
  /\ \A m \in Sessions : m \in 0 .. MaxSession
BY WireAssumption, SlotsFacts DEF NoRequest, Slots, NoSession, Sessions

LEMMA RequestKeepsBrowser ==
  ASSUME BrowserInv, NEW s \in Slots, Request(s), UNCHANGED <<serverVars, serves>>
  PROVE  BrowserInv'
<1> DEFINE m == sessions + 1
<1>1. /\ m \in Sessions /\ sessions' = m /\ sessions \in Nat
      /\ ~Running(s) /\ command[s] = NoSession
      /\ command' = [command EXCEPT ![s] = m]
      /\ initializing' = [initializing EXCEPT ![s] = TRUE]
      /\ request' = [request EXCEPT ![m] = s]
      /\ WriteToServer(Stream(s, "request", m))
      /\ UNCHANGED <<toClient, up, cpc, closing, shuttingDown, senderClosed,
                     connected, prompted, streamPaused>>
  BY ClientFacts DEF Request, FirstFree, Running
<1>2. m \in 0 .. MaxSession /\ m \in 1 .. m /\ m # NoSession
  BY <1>1, NoRequestFact DEF Sessions
<1>3. /\ toServer' \in Seq(Frames)
      /\ \A g \in Range(toServer') : g.type # "control" => g.sess \in 1 .. sessions'
  <2>1. "request" \in Bodies
    BY DEF Bodies, RequestBodies
  <2>2. Stream(s, "request", m) \in Frames /\ Stream(s, "request", m).sess = m
    BY <1>2, <2>1, FramesAreFrames
  <2>3. sessions' \in Nat /\ sessions <= sessions'
    BY <1>1
  <2> HIDE DEF m
  <2> QED
    BY <1>1, <1>2, <2>2, <2>3, ClientSends
<1>4. WireTypeOK' /\ ClientTypeOK'
  BY <1>1, <1>2, <1>3 DEF BrowserInv, WireTypeOK, ClientTypeOK
<1>5. Numbered'
  <2>1. \A t \in Slots : command'[t] = IF t = s THEN m ELSE command[t]
    BY <1>1 DEF BrowserInv, ClientTypeOK
  <2>2. \A t \in Slots : command[t] <= sessions /\ command[t] \in Nat
    BY DEF BrowserInv, Numbered, ClientTypeOK
  <2>3. \A t \in Slots : command'[t] <= sessions'
    BY <1>1, <2>1, <2>2
  <2>4. \A t, u \in Slots : command'[t] # NoSession /\ command'[t] = command'[u] => t = u
    BY <1>1, <2>1, <2>2 DEF BrowserInv, Numbered, Running
  <2>5. \A t \in Slots : command'[t] = NoSession => ~initializing'[t] /\ ~shuttingDown'[t]
    BY <1>1, <1>2, <2>1 DEF BrowserInv, Numbered, Running, ClientTypeOK
  <2>6. \A k \in Sessions : k > sessions' => ~senderClosed'[k] /\ ~connected'[k]
    BY <1>1, SlotsFacts DEF BrowserInv, Numbered
  <2>7. \A k \in Sessions : k <= machines' => serves'[k] \in 1 .. sessions'
    BY <1>1 DEF BrowserInv, Numbered, serverVars, machineVars
  <2> QED
    BY <1>3, <2>3, <2>4, <2>5, <2>6, <2>7 DEF Numbered, Running
<1>6. Held'
  <2>1. ASSUME cpc = "completing"
        PROVE  command'[closing] # NoSession
    BY <1>1, <2>1 DEF BrowserInv, Held, Running, ClientTypeOK
  <2> SUFFICES ASSUME NEW k \in Sessions, request'[k] # NoRequest
               PROVE  command'[request'[k]] = k
    BY <1>1, <2>1 DEF Held, NoRequest, Running
  <2>2. CASE k = m
    BY <1>1, <2>2 DEF BrowserInv, ClientTypeOK
  <2>3. CASE k # m
    <3>1. request'[k] = request[k] /\ request[k] \in Slots /\ command[request[k]] = k
      BY <1>1, <2>3, ClientFacts DEF BrowserInv, ClientTypeOK, Held
    <3>2. request[k] # s
      BY <1>1, <3>1, NoRequestFact
    <3> QED
      BY <1>1, <3>1, <3>2 DEF BrowserInv, ClientTypeOK
  <2> QED
    BY <2>2, <2>3
<1> QED
  BY <1>4, <1>5, <1>6 DEF BrowserInv

\* Steps that start and free no session.
LEMMA QuietStepKeepsBrowser ==
  ASSUME BrowserInv, UNCHANGED <<command, sessions, machines, serves>>, WireTypeOK',
         cpc' \in {"serve", "completing", "stopped"}, closing' \in Slots,
         cpc' = "completing" => Running(closing'),
         initializing' \in [Slots -> BOOLEAN], shuttingDown' \in [Slots -> BOOLEAN],
         \A s \in Slots : ~Running(s) => ~initializing'[s] /\ ~shuttingDown'[s],
         senderClosed' \in [Sessions -> BOOLEAN], connected' \in [Sessions -> BOOLEAN],
         \A m \in Sessions : m > sessions => ~senderClosed'[m] /\ ~connected'[m],
         request' \in [Sessions -> Slots \cup {NoRequest}],
         \A m \in Sessions : request'[m] \in {request[m], NoRequest},
         prompted' \in [Sessions -> BOOLEAN], streamPaused' \in BOOLEAN,
         \A g \in Range(toServer') : g.type # "control" => g.sess \in 1 .. sessions
  PROVE  BrowserInv'
<1>1. ClientTypeOK'
  BY DEF BrowserInv, ClientTypeOK
<1>2. Numbered'
  BY DEF BrowserInv, Numbered, Running
<1>3. Held'
  BY DEF BrowserInv, Held, NoRequest, Running
<1> QED
  BY <1>1, <1>2, <1>3 DEF BrowserInv

LEMMA ClearKeepsBrowser ==
  ASSUME BrowserInv, NEW s \in Slots, cpc = "serve", Running(s), Clear(s), DropRequest(command[s]),
         UNCHANGED <<cpc, closing, sessions, streamPaused, toServer, machines, serves>>,
         WireTypeOK'
  PROVE  BrowserInv'
<1> DEFINE m == command[s]
<1>1. /\ m \in Sessions /\ m # NoSession
      /\ command' = [command EXCEPT ![s] = NoSession]
      /\ initializing' = [initializing EXCEPT ![s] = FALSE]
      /\ shuttingDown' = [shuttingDown EXCEPT ![s] = FALSE]
      /\ senderClosed' = [senderClosed EXCEPT ![m] = FALSE]
      /\ connected' = [connected EXCEPT ![m] = FALSE]
      /\ prompted' = [prompted EXCEPT ![m] = FALSE]
      /\ request' = [request EXCEPT ![m] = NoRequest]
  BY ClientFacts DEF Clear, DropRequest, Running
<1>2. ClientTypeOK'
  BY <1>1, NoRequestFact DEF BrowserInv, ClientTypeOK
<1>3. Numbered'
  <2>1. \A t \in Slots : command'[t] = IF t = s THEN NoSession ELSE command[t]
    BY <1>1 DEF BrowserInv, ClientTypeOK
  <2>2. \A t \in Slots : command'[t] <= sessions'
    BY <2>1, ClientFacts DEF BrowserInv, Numbered, NoSession
  <2>3. \A t, u \in Slots : command'[t] # NoSession /\ command'[t] = command'[u] => t = u
    BY <2>1 DEF BrowserInv, Numbered, Running
  <2>4. \A t \in Slots : command'[t] = NoSession => ~initializing'[t] /\ ~shuttingDown'[t]
    BY <1>1, <2>1 DEF BrowserInv, Numbered, Running, ClientTypeOK
  <2>5. \A k \in Sessions : k > sessions' => ~senderClosed'[k] /\ ~connected'[k]
    BY <1>1 DEF BrowserInv, Numbered, ClientTypeOK
  <2> QED
    BY <2>2, <2>3, <2>4, <2>5 DEF BrowserInv, Numbered, Running
<1>4. Held'
  <2> SUFFICES ASSUME NEW k \in Sessions, request'[k] # NoRequest
               PROVE  command'[request'[k]] = k
    BY DEF Held, NoRequest
  <2>1. k # m /\ request'[k] = request[k] /\ request[k] \in Slots /\ command[request[k]] = k
    BY <1>1, ClientFacts DEF BrowserInv, ClientTypeOK, Held
  <2>2. request[k] # s
    BY <2>1
  <2> QED
    BY <1>1, <2>1, <2>2 DEF BrowserInv, ClientTypeOK
<1> QED
  BY <1>2, <1>3, <1>4 DEF BrowserInv

\* What ClientSends says, for the frames there are.
LEMMA SendsKeepWire ==
  ASSUME BrowserInv, UNCHANGED <<toClient, up, sessions>>,
         \/ toServer' = toServer
         \/ \E b \in ControlBodies : WriteToServer(Control(b))
         \/ \E s \in Slots : /\ Running(s)
                             /\ \/ WriteToServer(Close(s, command[s]))
                                \/ WriteToServer(Completed(s, command[s]))
                                \/ \E b \in Bodies : WriteToServer(Stream(s, b, command[s]))
  PROVE  /\ WireTypeOK'
         /\ \A g \in Range(toServer') : g.type # "control" => g.sess \in 1 .. sessions
<1>1. CASE toServer' = toServer
  BY <1>1 DEF BrowserInv, WireTypeOK, Numbered
<1>2. CASE toServer' # toServer
  <2>1. PICK f : /\ f \in Frames /\ WriteToServer(f)
                 /\ f.type # "control" => f.sess \in 1 .. sessions
    <3>1. CASE \E b \in ControlBodies : WriteToServer(Control(b))
      <4>1. PICK b \in ControlBodies : WriteToServer(Control(b))
        BY <3>1
      <4>2. Control(b) \in Frames /\ Control(b).type = "control"
        BY FramesFacts DEF Control
      <4> QED
        BY <4>1, <4>2
    <3>2. CASE \E s \in Slots : /\ Running(s)
                                /\ \/ WriteToServer(Close(s, command[s]))
                                   \/ WriteToServer(Completed(s, command[s]))
                                   \/ \E b \in Bodies : WriteToServer(Stream(s, b, command[s]))
      <4>1. PICK s \in Slots : /\ Running(s)
                               /\ \/ WriteToServer(Close(s, command[s]))
                                  \/ WriteToServer(Completed(s, command[s]))
                                  \/ \E b \in Bodies : WriteToServer(Stream(s, b, command[s]))
        BY <3>2
      <4>2. command[s] \in 0 .. MaxSession /\ command[s] \in 1 .. sessions
        BY <4>1, ClientFacts
      <4>3. \A b \in Bodies : /\ Close(s, command[s]) \in Frames
                              /\ Close(s, command[s]).sess = command[s]
                              /\ Completed(s, command[s]) \in Frames
                              /\ Completed(s, command[s]).sess = command[s]
                              /\ Stream(s, b, command[s]) \in Frames
                              /\ Stream(s, b, command[s]).sess = command[s]
        BY <4>2, FramesAreFrames
      <4>4. "none" \in Bodies
        BY DEF Bodies
      <4> QED
        BY <4>1, <4>2, <4>3, <4>4
    <3> QED
      BY <1>2, <3>1, <3>2
  <2>2. sessions' = sessions /\ sessions' \in Nat /\ sessions <= sessions'
    BY ClientFacts
  <2> QED
    BY <2>1, <2>2, ClientSends DEF BrowserInv, WireTypeOK
<1> QED
  BY <1>1, <1>2

LEMMA ClearAllKeepsBrowser ==
  ASSUME BrowserInv, ClearAll, UNCHANGED <<machines, serves>>
  PROVE  BrowserInv'
<1>1. WireTypeOK'
  BY DEF ClearAll, BrowserInv, WireTypeOK
<1>2. ClientTypeOK'
  BY NoRequestFact DEF ClearAll, BrowserInv, ClientTypeOK
<1>3. Numbered'
  BY <1>2, ClientFacts, NoRequestFact
  DEF ClearAll, BrowserInv, Numbered, Running, NoSession
<1>4. Held'
  BY DEF ClearAll, Held, NoRequest, Running
<1> QED
  BY <1>1, <1>2, <1>3, <1>4 DEF BrowserInv

LEMMA UserKeepsBrowser ==
  ASSUME BrowserInv, UserStep, UNCHANGED <<serverVars, serves>>
  PROVE  BrowserInv'
<1> USE DEF serverVars, machineVars
<1>1. ASSUME NEW s \in Slots, Request(s)
      PROVE  BrowserInv'
  BY <1>1, RequestKeepsBrowser
<1>2. ASSUME NEW s \in Slots, CloseTerminal(s)
      PROVE  BrowserInv'
  <2>1. /\ Running(s) /\ ~senderClosed[command[s]]
        /\ senderClosed' = [senderClosed EXCEPT ![command[s]] = TRUE]
        /\ WriteToServer(Close(s, command[s]))
        /\ UNCHANGED <<toClient, up, cpc, closing, command, initializing, shuttingDown,
                       sessions, connected, request, prompted, streamPaused>>
    BY <1>2 DEF CloseTerminal, CloseSender
  <2>2. command[s] \in Sessions /\ ~(command[s] > sessions)
    BY <2>1, ClientFacts
  <2>3. /\ WireTypeOK'
        /\ \A g \in Range(toServer') : g.type # "control" => g.sess \in 1 .. sessions
    BY <2>1, SendsKeepWire
  <2>4. /\ senderClosed' \in [Sessions -> BOOLEAN]
        /\ \A m \in Sessions : m > sessions => ~senderClosed'[m] /\ ~connected'[m]
    BY <2>1, <2>2 DEF BrowserInv, ClientTypeOK, Numbered
  <2> QED
    BY <2>1, <2>3, <2>4, QuietStepKeepsBrowser DEF BrowserInv, ClientTypeOK, Numbered, Held
<1>3. ASSUME NEW s \in Slots, NEW body \in {"input", "answer", "refuse"}, Say(s, body)
      PROVE  BrowserInv'
  <2>1. /\ Running(s)
        /\ prompted' = [prompted EXCEPT ![command[s]] = @ /\ body = "input"]
        /\ WriteToServer(Stream(s, body, command[s]))
        /\ UNCHANGED <<toClient, up, cpc, closing, command, initializing, shuttingDown,
                       sessions, senderClosed, connected, request, streamPaused>>
    BY <1>3 DEF Say
  <2>2. body \in Bodies
    BY DEF Bodies, MessageBodies
  <2>3. /\ WireTypeOK'
        /\ \A g \in Range(toServer') : g.type # "control" => g.sess \in 1 .. sessions
    BY <2>1, <2>2, SendsKeepWire
  <2>4. prompted' \in [Sessions -> BOOLEAN]
    BY <2>1 DEF BrowserInv, ClientTypeOK
  <2> QED
    BY <2>1, <2>3, <2>4, QuietStepKeepsBrowser DEF BrowserInv, ClientTypeOK, Numbered, Held
<1>4. ASSUME NEW m \in Sessions, CancelRequest(m)
      PROVE  BrowserInv'
  <2> DEFINE s == request[m]
  <2>1. /\ s \in Slots
        /\ request' = [request EXCEPT ![m] = NoRequest]
        /\ UNCHANGED <<toClient, up, cpc, closing, command, initializing, sessions,
                       connected, prompted, streamPaused>>
    BY <1>4 DEF CancelRequest, DropRequest
  <2>2. CASE Running(s)
    <3>1. /\ shuttingDown' = [shuttingDown EXCEPT ![s] = TRUE]
          /\ senderClosed' = [senderClosed EXCEPT ![command[s]] = @ \/ ~shuttingDown[s]]
          /\ toServer' = toServer \/ WriteToServer(Close(s, command[s]))
      BY <1>4, <2>1, <2>2, CloseStreamEffects DEF CancelRequest
    <3>2. command[s] \in Sessions /\ ~(command[s] > sessions)
      BY <2>1, <2>2, ClientFacts
    <3>3. /\ WireTypeOK'
          /\ \A g \in Range(toServer') : g.type # "control" => g.sess \in 1 .. sessions
      BY <2>1, <2>2, <3>1, SendsKeepWire
    <3>4. /\ senderClosed' \in [Sessions -> BOOLEAN]
          /\ \A k \in Sessions : k > sessions => ~senderClosed'[k] /\ ~connected'[k]
          /\ shuttingDown' \in [Slots -> BOOLEAN]
          /\ \A t \in Slots : ~Running(t) => ~initializing'[t] /\ ~shuttingDown'[t]
      BY <2>1, <2>2, <3>1, <3>2 DEF BrowserInv, ClientTypeOK, Numbered
    <3>5. /\ request' \in [Sessions -> Slots \cup {NoRequest}]
          /\ \A k \in Sessions : request'[k] \in {request[k], NoRequest}
      BY <2>1 DEF BrowserInv, ClientTypeOK
    <3> QED
      BY <2>1, <3>3, <3>4, <3>5, QuietStepKeepsBrowser DEF BrowserInv, ClientTypeOK, Held
  <2>3. CASE ~Running(s)
    <3>1. UNCHANGED <<shuttingDown, senderClosed, toServer>>
      BY <1>4, <2>3 DEF CancelRequest
    <3>2. /\ WireTypeOK'
          /\ \A g \in Range(toServer') : g.type # "control" => g.sess \in 1 .. sessions
      BY <2>1, <3>1, SendsKeepWire
    <3>3. /\ request' \in [Sessions -> Slots \cup {NoRequest}]
          /\ \A k \in Sessions : request'[k] \in {request[k], NoRequest}
      BY <2>1 DEF BrowserInv, ClientTypeOK
    <3> QED
      BY <2>1, <3>1, <3>2, <3>3, QuietStepKeepsBrowser DEF BrowserInv, ClientTypeOK, Numbered, Held
  <2> QED
    BY <2>2, <2>3
<1>5. CASE PauseServer \/ ResumeServer
  <2>1. /\ streamPaused' \in BOOLEAN
        /\ WriteToServer(Control("pause")) \/ WriteToServer(Control("resume"))
        /\ UNCHANGED <<toClient, up, cpc, closing, command, initializing, shuttingDown,
                       sessions, senderClosed, connected, request, prompted>>
    BY <1>5 DEF PauseServer, ResumeServer
  <2>2. /\ WireTypeOK'
        /\ \A g \in Range(toServer') : g.type # "control" => g.sess \in 1 .. sessions
    BY <2>1, SendsKeepWire DEF ControlBodies
  <2> QED
    BY <2>1, <2>2, QuietStepKeepsBrowser DEF BrowserInv, ClientTypeOK, Numbered, Held
<1> QED
  BY <1>1, <1>2, <1>3, <1>4, <1>5 DEF UserStep, SayAnything

LEMMA ServeKeepsBrowser ==
  ASSUME BrowserInv, ServeStep, UNCHANGED <<serverVars, serves>>
  PROVE  BrowserInv'
<1> USE DEF serverVars, machineVars
<1>1. ASSUME NEW type, Receives(type), toServer' = toServer
      PROVE  /\ WireTypeOK' /\ Received \in Frames
             /\ \A g \in Range(toServer') : g.type # "control" => g.sess \in 1 .. sessions
  <2>1. Receives(type) /\ toClient' \in Seq(Frames) /\ Received \in Frames /\ up' = up
    BY <1>1, ReadComing DEF BrowserInv, Receives
  <2> QED
    BY <1>1, <2>1 DEF BrowserInv, WireTypeOK, Numbered
<1>2. CASE ReceiveEcho
  <2>1. Receives("control") /\ UNCHANGED <<toServer, clientVars>>
    BY <1>2 DEF ReceiveEcho
  <2> QED
    BY <1>1, <2>1, QuietStepKeepsBrowser DEF clientVars, BrowserInv, ClientTypeOK, Numbered, Held
<1>3. CASE ReceiveAnswer
  <2> DEFINE s == Received.slot
  <2>1. /\ Receives("stream") /\ initializing[s] /\ Running(s) /\ cpc = "serve"
        /\ UNCHANGED <<toServer, cpc, closing, sessions, streamPaused>>
    BY <1>3 DEF ReceiveAnswer, Acceptable, Receives
  <2>2. WireTypeOK' /\ s \in Slots
    BY <1>1, <2>1 DEF Frames
  <2>3. CASE AnswerFrees(s)
    <3>1. Clear(s) /\ DropRequest(command[s])
      BY <1>3, <2>3 DEF ReceiveAnswer
    <3> QED
      BY <2>1, <2>2, <3>1, ClearKeepsBrowser
  <2>4. CASE ~AnswerFrees(s)
    <3>1. /\ initializing' = [initializing EXCEPT ![s] = FALSE]
          /\ UNCHANGED <<command, shuttingDown, senderClosed, connected, prompted, request>>
      BY <1>3, <2>4 DEF ReceiveAnswer, KeepCommand
    <3>2. /\ initializing' \in [Slots -> BOOLEAN]
          /\ \A t \in Slots : ~Running(t) => ~initializing'[t] /\ ~shuttingDown'[t]
      BY <2>2, <3>1 DEF BrowserInv, ClientTypeOK, Numbered
    <3> QED
      BY <1>1, <2>1, <3>1, <3>2, QuietStepKeepsBrowser DEF BrowserInv, ClientTypeOK, Numbered, Held
  <2> QED
    BY <2>3, <2>4
<1>4. CASE ReceiveOutput
  <2> DEFINE s == Received.slot
             gets(body) == Received.body = body /\ ~shuttingDown[s]
  <2>1. /\ Receives("stream") /\ Running(s)
        /\ connected' = [connected EXCEPT ![command[s]] = @ \/ gets("connected")]
        /\ prompted' = [prompted EXCEPT ![command[s]] = @ \/ gets("prompt")]
        /\ request' = request \/ request' = [request EXCEPT ![command[s]] = NoRequest]
        /\ UNCHANGED <<toServer, cpc, closing, command, initializing, shuttingDown,
                       sessions, senderClosed, streamPaused>>
    BY <1>4 DEF ReceiveOutput, Acceptable, Receives, DropRequest
  <2>2. WireTypeOK' /\ s \in Slots
    BY <1>1, <2>1 DEF Frames
  <2>3. command[s] \in Sessions /\ ~(command[s] > sessions)
    BY <2>1, <2>2, ClientFacts
  <2>4. /\ connected' \in [Sessions -> BOOLEAN] /\ prompted' \in [Sessions -> BOOLEAN]
        /\ \A m \in Sessions : m > sessions => ~senderClosed'[m] /\ ~connected'[m]
    BY <2>1, <2>3 DEF BrowserInv, ClientTypeOK, Numbered
  <2>5. /\ request' \in [Sessions -> Slots \cup {NoRequest}]
        /\ \A m \in Sessions : request'[m] \in {request[m], NoRequest}
    BY <2>1, NoRequestFact DEF BrowserInv, ClientTypeOK
  <2> QED
    BY <1>1, <2>1, <2>4, <2>5, QuietStepKeepsBrowser DEF BrowserInv, ClientTypeOK, Numbered, Held
<1>5. CASE ReceiveClose
  <2> DEFINE s == Received.slot
  <2>1. /\ Receives("close") /\ Running(s)
        /\ CloseStream(s)
        /\ cpc' = "completing" /\ closing' = s
        /\ UNCHANGED <<command, initializing, sessions, connected, request, prompted,
                       streamPaused, up>>
    BY <1>5 DEF ReceiveClose, Acceptable, Receives
  <2>2. toClient' \in Seq(Frames) /\ Received \in Frames /\ s \in Slots
    BY <2>1, ReadComing DEF BrowserInv, Frames
  <2>3. /\ shuttingDown' = [shuttingDown EXCEPT ![s] = TRUE]
        /\ senderClosed' = [senderClosed EXCEPT ![command[s]] = @ \/ ~shuttingDown[s]]
        /\ toServer' = toServer \/ WriteToServer(Close(s, command[s]))
    BY <2>1, <2>2, CloseStreamEffects
  <2>4. command[s] \in Sessions /\ ~(command[s] > sessions) /\ command[s] \in 1 .. sessions
    BY <2>1, <2>2, ClientFacts
  <2>5. /\ toServer' \in Seq(Frames)
        /\ \A g \in Range(toServer') : g.type # "control" => g.sess \in 1 .. sessions
    <3>1. CASE toServer' = toServer
      BY <3>1 DEF BrowserInv, WireTypeOK, Numbered
    <3>2. CASE WriteToServer(Close(s, command[s]))
      <4>1. /\ Close(s, command[s]) \in Frames
            /\ Close(s, command[s]).sess = command[s]
        BY <2>2, <2>4, NoRequestFact, FramesAreFrames DEF Bodies
      <4>2. sessions' = sessions /\ sessions \in Nat
        BY <2>1, ClientFacts
      <4> QED
        BY <2>1, <2>4, <3>2, <4>1, <4>2, ClientSends
    <3> QED
      BY <2>3, <3>1, <3>2
  <2>6. WireTypeOK'
    BY <2>1, <2>2, <2>5 DEF BrowserInv, WireTypeOK
  <2>7. /\ senderClosed' \in [Sessions -> BOOLEAN]
        /\ \A k \in Sessions : k > sessions => ~senderClosed'[k] /\ ~connected'[k]
        /\ shuttingDown' \in [Slots -> BOOLEAN]
        /\ \A t \in Slots : ~Running(t) => ~initializing'[t] /\ ~shuttingDown'[t]
    BY <2>1, <2>2, <2>3, <2>4 DEF BrowserInv, ClientTypeOK, Numbered
  <2> QED
    BY <2>1, <2>2, <2>5, <2>6, <2>7, QuietStepKeepsBrowser DEF BrowserInv, ClientTypeOK, Held
<1>6. CASE ReceiveCompleted
  <2>1. /\ Receives("completed") /\ Running(Received.slot) /\ cpc = "serve"
        /\ Clear(Received.slot) /\ DropRequest(command[Received.slot])
        /\ UNCHANGED <<toServer, cpc, closing, sessions, streamPaused>>
    BY <1>6 DEF ReceiveCompleted, Acceptable, Receives
  <2>2. WireTypeOK' /\ Received.slot \in Slots
    BY <1>1, <2>1 DEF Frames
  <2> QED
    BY <2>1, <2>2, ClearKeepsBrowser
<1>7. CASE AnswerClose
  <2>1. /\ Running(closing) /\ closing \in Slots
        /\ WriteToServer(Completed(closing, command[closing]))
        /\ cpc' = "serve" /\ closing' = 0
        /\ UNCHANGED <<toClient, up, command, initializing, shuttingDown, senderClosed,
                       connected, prompted, sessions, request, streamPaused>>
    BY <1>7 DEF AnswerClose, HoldSlot, KeepCommand, BrowserInv, ClientTypeOK, Held
  <2>2. /\ WireTypeOK'
        /\ \A g \in Range(toServer') : g.type # "control" => g.sess \in 1 .. sessions
    BY <2>1, SendsKeepWire
  <2> QED
    BY <2>1, <2>2, NoRequestFact, QuietStepKeepsBrowser
    DEF BrowserInv, ClientTypeOK, Numbered, Held
<1>8. CASE ServeFails
  BY <1>8, ClearAllKeepsBrowser DEF ServeFails
<1> QED
  BY <1>2, <1>3, <1>4, <1>5, <1>6, <1>7, <1>8 DEF ServeStep

LEMMA ClientKeepsBrowser ==
  ASSUME BrowserInv, ClientStep, UNCHANGED <<serverVars, serves>>
  PROVE  BrowserInv'
BY ServeKeepsBrowser, UserKeepsBrowser, ClearAllKeepsBrowser
DEF ClientStep, GiveUp, serverVars, machineVars

---------------------------------------------------------------------------
(* What the browser does while the connection is up.                        *)

LEMMA ServerStands ==
  ASSUME UNCHANGED <<serverVars, serves>>
  PROVE  /\ Ending' <=> Ending
         /\ \A s : SameAtServer(s)
BY DEF serverVars, handlerVars, slotVars, machineVars, Ending, SameAtServer,
       Answering, ServesClose, ServesCompleted

\* It is enough to look at the slot the step is about, and at the frames.
LEMMA ClientKeepsLink ==
  ASSUME LinkInv, UNCHANGED <<serverVars, serves>>, cpc' # "stopped",
         NEW s \in Slots, SlotInv(s)',
         \A t \in Slots \ {s} : SameInBrowser(t) /\ SameUnderWay(t),
         FramesInv', InOrder(toClient, ComingOrder)',
         ~Ending => InOrder(toServer, SentOrder)'
  PROVE  LinkInv'
<1>1. \A t \in Slots : SlotInv(t)'
  BY ServerStands, UntouchedSlot DEF LinkInv
<1>2. (~Ending)' <=> ~Ending
  BY ServerStands
<1>3. pc' = pc /\ why' = why
  BY DEF serverVars, handlerVars
<1> QED
  BY <1>1, <1>2, <1>3 DEF LinkInv

LEMMA ClientWritesOne ==
  ASSUME BrowserInv, LinkInv, up, NEW f \in Frames, WriteToServer(f),
         UNCHANGED <<serverVars, serves, toClient>>
  PROVE  /\ \A t, kinds : /\ IsSent(t, kinds)'
                               <=> IsSent(t, kinds) \/ (IsOf(f, t) /\ Kind(f) \in kinds)
                          /\ IsComing(t, kinds)' <=> IsComing(t, kinds)
         /\ \A t : ~IsOf(f, t) => SameUnderWay(t)
         /\ InOrder(toClient, ComingOrder)'
         /\ (\A g \in Range(toServer) : SameStream(g, f) => MayBeSentAfter(g, f)) /\ ~Ending
              => InOrder(toServer, SentOrder)'
         /\ SentFrame(f)' /\ (\A t \in Slots : command'[t] = command[t]) => FramesInv'
<1>1. /\ Range(toServer') = Range(toServer) \cup {f}
      /\ \A t, kinds : IsSent(t, kinds)'
                         <=> IsSent(t, kinds) \/ (IsOf(f, t) /\ Kind(f) \in kinds)
      /\ InOrder(toServer, SentOrder) /\ (\A g \in Range(toServer) : <<g, f>> \in SentOrder)
           => InOrder(toServer, SentOrder)'
  BY SendFrame DEF BrowserInv
<1>2. \A t, kinds : IsComing(t, kinds)' <=> IsComing(t, kinds)
  BY DEF IsComing, Has
<1>3. InOrder(toClient, ComingOrder)'
  BY DEF LinkInv, InOrder, ComingOrder
<1>4. ASSUME \A g \in Range(toServer) : SameStream(g, f) => MayBeSentAfter(g, f), ~Ending
      PROVE  InOrder(toServer, SentOrder)'
  <2>1. Range(toServer) \subseteq Frames
    BY DEF BrowserInv, WireTypeOK, Range
  <2>2. \A g \in Range(toServer) : <<g, f>> \in SentOrder
    BY <1>4, <2>1 DEF SentOrder
  <2> QED
    BY <1>1, <1>4, <2>2 DEF LinkInv
<1>5. ASSUME SentFrame(f)', \A t \in Slots : command'[t] = command[t]
      PROVE  FramesInv'
  <2>1. Range(toServer) \subseteq Frames /\ Range(toClient) \subseteq Frames
    BY DEF BrowserInv, WireTypeOK, Range
  <2>2. /\ Ending' <=> Ending
        /\ UNCHANGED <<fsmMachine, machines>>
    BY ServerStands DEF serverVars, slotVars, machineVars
  <2>3. ASSUME NEW g \in Range(toServer)
        PROVE  SentFrame(g)'
    <3>1. SentFrame(g) /\ g.slot \in Slots
      BY <2>1 DEF LinkInv, FramesInv, Frames
    <3> QED
      BY <1>5, <2>2, <3>1 DEF SentFrame, Vacant
  <2>4. ASSUME NEW g \in Range(toClient)
        PROVE  ComingFrame(g)'
    <3>1. ComingFrame(g) /\ g.slot \in Slots
      BY <2>1 DEF LinkInv, FramesInv, Frames
    <3> QED
      BY <1>5, <2>2, <3>1 DEF ComingFrame
  <2> QED
    BY <1>1, <1>5, <2>3, <2>4 DEF FramesInv
<1> QED
  BY <1>1, <1>2, <1>3, <1>4, <1>5 DEF SameUnderWay

\* What may still be on its way to the server in a slot whose sender is open: its
\* request and its messages, and COMPLETED of the session before it.
LEMMA BeforeClose ==
  ASSUME BrowserInv, LinkInv, ~Ending, NEW s \in Slots, Running(s), ~SenderClosed(s),
         NEW g \in Range(toServer), IsOf(g, s)
  PROVE  /\ Kind(g) \in Messages \cup {"request", "completed"}
         /\ Kind(g) = "completed" => g.sess # command[s]
         /\ Kind(g) # "completed" => g.sess = command[s]
<1>1. SentFrame(g) /\ Kind(g) # "control" /\ SlotInv(s)
  BY DEF LinkInv, FramesInv, IsOf, Kind, SentFrame, Control, Messages
<1>2. Kind(g) = "close" => IsSent(s, {"close"})
  BY DEF IsSent, Has
<1>3. Kind(g) = "completed" => IsSent(s, {"completed"})
  BY DEF IsSent, Has
<1>4. Kind(g) # "close"
  BY <1>1, <1>2 DEF SlotInv, CloseInv
<1>5. ASSUME Kind(g) = "completed"
      PROVE  g.sess # command[s]
  <2>1. ~Vacant(s) /\ (Current(s) => ShuttingDown(s))
    BY <1>1, <1>3, <1>5 DEF SlotInv, EndInv
  <2>2. ~Current(s)
    BY <1>1, <2>1 DEF SlotInv, UseInv
  <2>3. g.sess = serves[fsmMachine[s]]
    BY <1>1, <1>5, <2>1 DEF SentFrame, IsOf, Control
  <2> QED
    BY <2>1, <2>2, <2>3 DEF Current
<1> QED
  BY <1>1, <1>4, <1>5 DEF SentFrame, IsOf, Control, Messages, Kind

LEMMA SentAtoms ==
  ASSUME BrowserInv, up, NEW f \in Frames, WriteToServer(f), toClient' = toClient, NEW s
  PROVE  /\ IsSent(s, {"request"})' <=> IsSent(s, {"request"}) \/ (IsOf(f, s) /\ Kind(f) = "request")
         /\ IsSent(s, {"close"})' <=> IsSent(s, {"close"}) \/ (IsOf(f, s) /\ Kind(f) = "close")
         /\ IsSent(s, {"completed"})'
              <=> IsSent(s, {"completed"}) \/ (IsOf(f, s) /\ Kind(f) = "completed")
         /\ IsSent(s, Messages)' <=> IsSent(s, Messages) \/ (IsOf(f, s) /\ Kind(f) \in Messages)
         /\ \A kinds : IsComing(s, kinds)' <=> IsComing(s, kinds)
         /\ Quiet(s)' <=> Quiet(s)
<1>1. \A kinds : IsSent(s, kinds)' <=> IsSent(s, kinds) \/ (IsOf(f, s) /\ Kind(f) \in kinds)
  BY SendFrame DEF BrowserInv
<1>2. \A kinds : IsComing(s, kinds)' <=> IsComing(s, kinds)
  BY DEF IsComing, Has
<1> QED
  BY <1>1, <1>2 DEF Quiet

\* A frame of slot s.
LEMMA SendKeepsLink ==
  ASSUME BrowserInv, LinkInv, up, NEW s \in Slots, NEW f \in Frames, WriteToServer(f),
         UNCHANGED <<serverVars, serves, toClient, command>>,
         cpc' # "stopped",
         \A t \in Slots \ {s} : SameInBrowser(t) /\ ~IsOf(f, t),
         SlotInv(s)', SentFrame(f)',
         ~Ending => \A g \in Range(toServer) : SameStream(g, f) => MayBeSentAfter(g, f)
  PROVE  LinkInv'
<1>1. \A t \in Slots \ {s} : SameUnderWay(t)
  BY ClientWritesOne
<1>2. InOrder(toClient, ComingOrder)'
  BY ClientWritesOne
<1>3. ~Ending => InOrder(toServer, SentOrder)'
  BY ClientWritesOne
<1>4. FramesInv'
  BY ClientWritesOne
<1> QED
  BY <1>1, <1>2, <1>3, <1>4, ClientKeepsLink

\* Sender.close, for a session whose sender is open.
LEMMA CloseKeepsLink ==
  ASSUME BrowserInv, LinkInv, up, NEW s \in Slots, Running(s), ~SenderClosed(s),
         WriteToServer(Close(s, command[s])),
         senderClosed' = [senderClosed EXCEPT ![command[s]] = TRUE],
         \/ ~Opening(s) /\ shuttingDown' = shuttingDown
         \/ shuttingDown' = [shuttingDown EXCEPT ![s] = TRUE],
         UNCHANGED <<serverVars, serves, toClient, up, cpc, closing, command,
                     initializing, connected>>
  PROVE  LinkInv'
<1>1. PICK f \in Frames : /\ f = Close(s, command[s])
                          /\ Kind(f) = "close" /\ f.type = "close" /\ f.slot = s
                          /\ f.sess = command[s]
                          /\ IsOf(f, s) /\ \A t : t # s => ~IsOf(f, t)
  <2>1. command[s] \in 0 .. MaxSession /\ "none" \in Bodies
    BY ClientFacts DEF Bodies
  <2> QED
    BY <2>1, FramesAreFrames DEF IsOf
<1>2. WriteToServer(f) /\ SlotInv(s) /\ cpc' # "stopped"
  BY <1>1 DEF LinkInv
<1>3. /\ IsSent(s, {"close"})'
      /\ IsSent(s, {"request"})' <=> IsSent(s, {"request"})
      /\ IsSent(s, Messages)' <=> IsSent(s, Messages)
      /\ IsSent(s, {"completed"})' <=> IsSent(s, {"completed"})
      /\ \A kinds : IsComing(s, kinds)' <=> IsComing(s, kinds)
      /\ Quiet(s)' <=> Quiet(s)
  BY <1>1, <1>2, SentAtoms DEF Messages
<1>4. /\ Running(s)' /\ SenderClosed(s)'
      /\ Opening(s)' <=> Opening(s)
      /\ IsConnected(s)' <=> IsConnected(s)
      /\ Completing(s)' <=> Completing(s)
      /\ \/ ~Opening(s) /\ (ShuttingDown(s)' <=> ShuttingDown(s))
         \/ ShuttingDown(s)'
      /\ command'[s] = command[s]
      /\ Ending' <=> Ending
  BY ClientFacts, ServerStands
  DEF BrowserInv, ClientTypeOK, Running, SenderClosed, Opening, IsConnected, Completing,
      ShuttingDown
<1>5. SameAtServer(s)
  BY ServerStands
<1>6. ASSUME ~Ending
      PROVE  ~IsSent(s, {"close"}) /\ ~ServesClose(s) /\ ~IsComing(s, {"completed"})
  BY <1>2, <1>6 DEF SlotInv, CloseInv
<1>7. SlotInv(s)'
  <2> USE <1>2, <1>3, <1>4, <1>5, <1>6, ServerAtoms
  <2>1. OpenInv(s)' /\ UseInv(s)'
    BY DEF SlotInv, OpenInv, UseInv
  <2>2. CloseInv(s)' /\ EndInv(s)'
    BY DEF SlotInv, CloseInv, EndInv, Outlived, Vacant, Current
  <2>3. OutlivedInv(s)' /\ TalkInv(s)'
    BY DEF SlotInv, OutlivedInv, TalkInv, Outlived, Vacant, Current
  <2> QED
    BY <2>1, <2>2, <2>3 DEF SlotInv
<1>8. ASSUME NEW t \in Slots \ {s}
      PROVE  SameInBrowser(t) /\ ~IsOf(f, t)
  <2>1. Running(t) => command[t] # command[s]
    BY DEF BrowserInv, Numbered
  <2> QED
    BY <1>1, <2>1, ClientFacts
    DEF BrowserInv, ClientTypeOK, SameInBrowser, Completing
<1>9. SentFrame(f)'
  BY <1>1 DEF SentFrame, Messages
<1>10. ASSUME ~Ending, NEW g \in Range(toServer), SameStream(g, f)
       PROVE  MayBeSentAfter(g, f)
  <2>1. IsOf(g, s)
    BY <1>1, <1>10 DEF SameStream
  <2>2. /\ Kind(g) \in Messages \cup {"request", "completed"}
        /\ Kind(g) = "completed" => g.sess # command[s]
    BY <1>10, <2>1, BeforeClose
  <2> QED
    BY <1>1, <2>2 DEF MayBeSentAfter, Messages
<1> QED
  BY <1>1, <1>2, <1>7, <1>8, <1>9, <1>10, SendKeepsLink

\* Nothing changes in the slots and on the way.
LEMMA QuietStepKeepsLink ==
  ASSUME BrowserInv, LinkInv, up,
         UNCHANGED <<serverVars, serves, toServer, toClient, cpc, closing, command,
                     initializing, shuttingDown, senderClosed, connected>>
  PROVE  LinkInv'
<1>1. ASSUME NEW t \in Slots
      PROVE  SameInBrowser(t) /\ SameUnderWay(t)
  BY DEF SameInBrowser, Completing, SameUnderWay, IsSent, IsComing, Has
<1>2. \A t \in Slots : SlotInv(t)'
  BY <1>1, ServerStands, UntouchedSlot DEF LinkInv
<1>3. FramesInv'
  BY ServerStands
  DEF LinkInv, FramesInv, SentFrame, ComingFrame, Vacant, serverVars, slotVars, machineVars
<1>4. InOrder(toClient, ComingOrder)' /\ (~Ending => InOrder(toServer, SentOrder)')
  BY DEF LinkInv, InOrder, ComingOrder, SentOrder
<1> QED
  BY <1>1, <1>2, <1>3, <1>4, SlotsFacts, ClientKeepsLink DEF LinkInv

\* Stream.close, for a session whose sender is closed: only the browser knows.
LEMMA ShutDownKeepsLink ==
  ASSUME BrowserInv, LinkInv, up, NEW s \in Slots, Running(s), SenderClosed(s),
         shuttingDown' = [shuttingDown EXCEPT ![s] = TRUE],
         senderClosed' = [senderClosed EXCEPT ![command[s]] = TRUE],
         UNCHANGED <<serverVars, serves, toServer, toClient, up, cpc, closing, command,
                     initializing, connected>>
  PROVE  LinkInv'
<1>1. UNCHANGED senderClosed
  BY ClientFacts DEF BrowserInv, ClientTypeOK, SenderClosed
<1>2. ASSUME NEW t \in Slots
      PROVE  SameUnderWay(t)
  BY DEF SameUnderWay, IsSent, IsComing, Has
<1>3. ASSUME NEW t \in Slots \ {s}
      PROVE  SameInBrowser(t)
  BY <1>1 DEF BrowserInv, ClientTypeOK, SameInBrowser, Completing
<1>4. /\ Running(s)' /\ SenderClosed(s)' /\ ShuttingDown(s)'
      /\ Opening(s)' <=> Opening(s)
      /\ IsConnected(s)' <=> IsConnected(s)
      /\ Completing(s)' <=> Completing(s)
      /\ command'[s] = command[s]
  BY <1>1 DEF BrowserInv, ClientTypeOK, Running, SenderClosed, ShuttingDown, Opening,
              IsConnected, Completing
<1>5. SlotInv(s) /\ SameAtServer(s) /\ (Ending' <=> Ending) /\ SameUnderWay(s)
  BY <1>2, ServerStands DEF LinkInv
<1>6. SlotInv(s)'
  <2> USE <1>4, <1>5, ServerAtoms, UnderWayAtoms
  <2>1. OpenInv(s)' /\ UseInv(s)'
    BY DEF SlotInv, OpenInv, UseInv
  <2>2. CloseInv(s)' /\ EndInv(s)'
    BY DEF SlotInv, CloseInv, EndInv, Outlived, Vacant, Current
  <2>3. OutlivedInv(s)' /\ TalkInv(s)'
    BY DEF SlotInv, OutlivedInv, TalkInv, Outlived, Vacant, Current
  <2> QED
    BY <2>1, <2>2, <2>3 DEF SlotInv
<1>7. FramesInv'
  BY ServerStands
  DEF LinkInv, FramesInv, SentFrame, ComingFrame, Vacant, serverVars, slotVars, machineVars
<1>8. InOrder(toClient, ComingOrder)' /\ (~Ending => InOrder(toServer, SentOrder)')
  BY DEF LinkInv, InOrder, ComingOrder, SentOrder
<1> QED
  BY <1>2, <1>3, <1>6, <1>7, <1>8, ClientKeepsLink DEF LinkInv

\* A step that changes neither the slots of the browser nor what is on its way, but for
\* control frames.
LEMMA ControlKeepsLink ==
  ASSUME BrowserInv, LinkInv, up,
         WriteToServer(Control("pause")) \/ WriteToServer(Control("resume")),
         UNCHANGED <<serverVars, serves, toClient, up, cpc, closing, command, initializing,
                     shuttingDown, senderClosed, connected>>
  PROVE  LinkInv'
<1>1. PICK f \in Frames : /\ f \in {Control("pause"), Control("resume")}
                          /\ WriteToServer(f)
                          /\ f.type = "control"
  BY FramesFacts DEF ControlBodies, Control
<1>2. \A t : ~IsOf(f, t)
  BY <1>1 DEF IsOf
<1>3. ASSUME NEW t \in Slots
      PROVE  SameInBrowser(t) /\ SameUnderWay(t)
  <2>1. SameUnderWay(t)
    BY <1>1, <1>2, ClientWritesOne
  <2> QED
    BY <2>1 DEF SameInBrowser, Completing
<1>4. \A t \in Slots : SlotInv(t)'
  BY <1>3, ServerStands, UntouchedSlot DEF LinkInv
<1>5. SentFrame(f)'
  BY <1>1 DEF SentFrame
<1>6. \A g : ~SameStream(g, f)
  BY <1>1 DEF SameStream, IsOf
<1> QED
  BY <1>1, <1>2, <1>3, <1>4, <1>5, <1>6, SlotsFacts, SendKeepsLink DEF LinkInv

LEMMA SayKeepsLink ==
  ASSUME BrowserInv, LinkInv, up, NEW s \in Slots, NEW body \in {"input", "answer", "refuse"},
         Say(s, body), UNCHANGED <<serverVars, serves>>
  PROVE  LinkInv'
<1>1. /\ Running(s) /\ ~Opening(s) /\ ~SenderClosed(s)
      /\ WriteToServer(Stream(s, body, command[s]))
      /\ UNCHANGED <<toClient, up, cpc, closing, command, initializing, shuttingDown,
                     senderClosed, connected>>
  BY DEF Say, Opening, SenderClosed
<1>2. PICK f \in Frames : /\ f = Stream(s, body, command[s])
                          /\ Kind(f) = body /\ f.type = "stream" /\ f.slot = s
                          /\ f.sess = command[s]
                          /\ IsOf(f, s) /\ \A t : t # s => ~IsOf(f, t)
  <2>1. command[s] \in 0 .. MaxSession /\ body \in Bodies
    BY ClientFacts DEF Bodies, MessageBodies
  <2> QED
    BY <2>1, FramesAreFrames DEF IsOf
<1>3. WriteToServer(f) /\ SlotInv(s) /\ cpc' # "stopped"
  BY <1>1, <1>2 DEF LinkInv
<1>4. /\ IsSent(s, Messages)'
      /\ IsSent(s, {"request"})' <=> IsSent(s, {"request"})
      /\ IsSent(s, {"close"})' <=> IsSent(s, {"close"})
      /\ IsSent(s, {"completed"})' <=> IsSent(s, {"completed"})
      /\ \A kinds : IsComing(s, kinds)' <=> IsComing(s, kinds)
      /\ Quiet(s)' <=> Quiet(s)
  BY <1>1, <1>2, <1>3, SentAtoms DEF Messages
<1>5. \A t : SameInBrowser(t)
  BY <1>1 DEF SameInBrowser, Completing
<1>6. SameAtServer(s) /\ (Ending' <=> Ending)
  BY ServerStands
<1>7. command'[s] = command[s]
  BY <1>1
<1>8. SlotInv(s)'
  <2> USE <1>1, <1>3, <1>4, <1>5, <1>6, <1>7, BrowserAtoms, ServerAtoms
  <2>1. OpenInv(s)' /\ UseInv(s)'
    BY DEF SlotInv, OpenInv, UseInv
  <2>2. CloseInv(s)' /\ EndInv(s)'
    BY DEF SlotInv, CloseInv, EndInv, Outlived, Vacant, Current
  <2>3. OutlivedInv(s)' /\ TalkInv(s)'
    BY DEF SlotInv, OutlivedInv, TalkInv, Outlived, Vacant, Current
  <2> QED
    BY <2>1, <2>2, <2>3 DEF SlotInv
<1>9. SentFrame(f)'
  BY <1>2, <1>7 DEF SentFrame, Messages
<1>10. ASSUME ~Ending, NEW g \in Range(toServer), SameStream(g, f)
       PROVE  MayBeSentAfter(g, f)
  <2>1. IsOf(g, s)
    BY <1>2, <1>10 DEF SameStream
  <2>2. /\ Kind(g) \in Messages \cup {"request", "completed"}
        /\ Kind(g) = "completed" => g.sess # command[s]
    BY <1>1, <1>10, <2>1, BeforeClose
  <2>3. Kind(g) # "request"
    <3>1. Kind(g) = "request" => IsSent(s, {"request"})
      BY <2>1 DEF IsSent, Has
    <3> QED
      BY <1>1, <1>3, <3>1 DEF SlotInv, OpenInv
  <2> QED
    BY <1>2, <2>2, <2>3 DEF MayBeSentAfter, Messages
<1> QED
  BY <1>1, <1>2, <1>3, <1>5, <1>8, <1>9, <1>10, SendKeepsLink

LEMMA CancelKeepsLink ==
  ASSUME BrowserInv, LinkInv, up, NEW m \in Sessions, CancelRequest(m),
         UNCHANGED <<serverVars, serves>>
  PROVE  LinkInv'
<1>1. PICK s \in Slots : s = request[m]
  BY DEF CancelRequest
<1>2. UNCHANGED <<toClient, up, cpc, closing, command, initializing, connected>>
  BY DEF CancelRequest
<1>3. CASE UNCHANGED <<shuttingDown, senderClosed, toServer>>
  BY <1>2, <1>3, QuietStepKeepsLink
<1>4. CASE Running(s) /\ ~shuttingDown[s]
  <2>1. CloseStream(s)
    BY <1>1, <1>4 DEF CancelRequest
  <2>2. /\ shuttingDown' = [shuttingDown EXCEPT ![s] = TRUE]
        /\ senderClosed' = [senderClosed EXCEPT ![command[s]] = TRUE]
        /\ IF senderClosed[command[s]] THEN toServer' = toServer
                                       ELSE WriteToServer(Close(s, command[s]))
    BY <1>4, <2>1 DEF CloseStream, CloseSender
  <2>3. CASE ~senderClosed[command[s]]
    BY <1>2, <1>4, <2>2, <2>3, CloseKeepsLink DEF SenderClosed
  <2>4. CASE senderClosed[command[s]]
    BY <1>2, <1>4, <2>2, <2>4, ShutDownKeepsLink DEF SenderClosed
  <2> QED
    BY <2>3, <2>4
<1> QED
  BY <1>1, <1>3, <1>4 DEF CancelRequest, CloseStream

LEMMA MachinesFacts ==
  ASSUME IInv
  PROVE  /\ machines \in Nat
         /\ \A s \in Slots : ~Vacant(s) => /\ fsmMachine[s] \in Sessions
                                           /\ fsmMachine[s] <= machines
                                           /\ home[fsmMachine[s]] = s
<1>1. machines \in Nat
  BY DEF IInv, ServerTypeOK
<1>2. ASSUME NEW s \in Slots, ~Vacant(s)
      PROVE  /\ fsmMachine[s] \in Sessions
             /\ fsmMachine[s] <= machines
             /\ home[fsmMachine[s]] = s
  BY <1>1, <1>2, WireAssumption DEF IInv, ServerTypeOK, Housed, Vacant, Sessions
<1> QED
  BY <1>1, <1>2

\* A slot that is free in the browser: nothing is on its way but COMPLETED for the session
\* that had it, whose machine the server may still run.
LEMMA FreeSlotFacts ==
  ASSUME IInv, BrowserInv, LinkInv, NEW s \in Slots, ~Running(s)
  PROVE  /\ Quiet(s)
         /\ ~IsSent(s, {"request"})
         /\ ~Ending => ~IsSent(s, {"close"}) /\ ~IsSent(s, Messages)
         /\ ~Answering(s) /\ ~ServesClose(s) /\ ~Completing(s) /\ ~Current(s)
         /\ ~Vacant(s) => Outlived(s)
<1>1. SlotInv(s)
  BY DEF LinkInv
<1>2. ~Opening(s) /\ ~SenderClosed(s) /\ ~ShuttingDown(s) /\ command[s] = NoSession
  BY DEF Opening, SenderClosed, ShuttingDown, Running
<1>3. ~Current(s)
  <2>1. CASE Vacant(s)
    BY <2>1 DEF Current
  <2>2. CASE ~Vacant(s)
    <3>1. fsmMachine[s] \in Sessions /\ fsmMachine[s] <= machines
      BY <2>2, MachinesFacts
    <3>2. serves[fsmMachine[s]] \in 1 .. sessions
      BY <3>1 DEF BrowserInv, Numbered
    <3> QED
      BY <1>2, <3>2, ClientFacts DEF Current, NoSession
  <2> QED
    BY <2>1, <2>2
<1> QED
  BY <1>1, <1>2, <1>3
  DEF SlotInv, OpenInv, UseInv, CloseInv, EndInv, TalkInv, Current, Outlived

\* The frames on their way when the slot gets another session, or none.
LEMMA FramesStand ==
  ASSUME BrowserInv, LinkInv, NEW s \in Slots, NEW m, command' = [command EXCEPT ![s] = m],
         UNCHANGED <<serverVars, serves>>,
         ~IsSent(s, {"request"}),
         ~Ending => ~IsSent(s, {"close"}) /\ ~IsSent(s, Messages)
  PROVE  /\ \A g \in Range(toServer) : SentFrame(g)'
         /\ \A g \in Range(toClient) :
              ~(IsOf(g, s) /\ Kind(g) \in StreamKinds) => ComingFrame(g)'
<1>1. Range(toServer) \subseteq Frames /\ Range(toClient) \subseteq Frames
  BY DEF BrowserInv, WireTypeOK, Range
<1>2. /\ \A t \in Slots : t # s => command'[t] = command[t]
      /\ UNCHANGED <<fsmMachine, machines>>
      /\ Ending' <=> Ending
  BY ServerStands DEF BrowserInv, ClientTypeOK, serverVars, slotVars, machineVars
<1>3. ASSUME NEW g \in Range(toServer)
      PROVE  SentFrame(g)'
  <2>1. SentFrame(g) /\ g.slot \in Slots
    BY <1>1 DEF LinkInv, FramesInv, Frames
  <2>2. CASE IsOf(g, s)
    <3>1. /\ Kind(g) = "request" => IsSent(s, {"request"})
          /\ Kind(g) = "close" => IsSent(s, {"close"})
          /\ Kind(g) \in Messages => IsSent(s, Messages)
      BY <2>2 DEF IsSent, Has
    <3>2. Kind(g) # "request" /\ (Kind(g) \in Messages \cup {"close"} => Ending)
      BY <3>1
    <3> QED
      BY <1>2, <2>1, <3>2 DEF SentFrame, Vacant
  <2>3. CASE g.slot # s
    BY <1>2, <2>1, <2>3 DEF SentFrame, Vacant
  <2>4. CASE g.type = "control"
    BY <2>1, <2>4 DEF SentFrame, Kind, Messages
  <2> QED
    BY <2>2, <2>3, <2>4 DEF IsOf
<1>4. ASSUME NEW g \in Range(toClient), ~(IsOf(g, s) /\ Kind(g) \in StreamKinds)
      PROVE  ComingFrame(g)'
  <2>1. ComingFrame(g) /\ g.slot \in Slots
    BY <1>1, <1>4 DEF LinkInv, FramesInv, Frames
  <2>2. g.slot # s \/ g = Control("echo")
    BY <1>4, <2>1 DEF ComingFrame, IsOf, Kind, StreamKinds, AnswerBodies, OutputBodies
  <2> QED
    BY <1>2, <2>1, <2>2 DEF ComingFrame
<1> QED
  BY <1>3, <1>4

LEMMA RequestKeepsLink ==
  ASSUME IInv, BrowserInv, LinkInv, up, NEW s \in Slots, Request(s),
         UNCHANGED <<serverVars, serves>>
  PROVE  LinkInv'
<1>1. PICK m \in Sessions : m = sessions + 1
  BY DEF Request
<1>2. /\ ~Running(s) /\ cpc # "stopped"
      /\ command' = [command EXCEPT ![s] = m]
      /\ initializing' = [initializing EXCEPT ![s] = TRUE]
      /\ WriteToServer(Stream(s, "request", m))
      /\ UNCHANGED <<toClient, up, cpc, closing, shuttingDown, senderClosed, connected>>
  BY <1>1 DEF Request, FirstFree
<1>3. PICK f \in Frames : /\ f = Stream(s, "request", m)
                          /\ Kind(f) = "request" /\ f.type = "stream" /\ f.slot = s
                          /\ f.sess = m
                          /\ IsOf(f, s) /\ \A t : t # s => ~IsOf(f, t)
  <2>1. m \in 0 .. MaxSession /\ "request" \in Bodies
    BY SlotsFacts DEF Sessions, Bodies, RequestBodies
  <2> QED
    BY <2>1, FramesAreFrames DEF IsOf
<1>4. WriteToServer(f) /\ SlotInv(s) /\ cpc' # "stopped"
  BY <1>2, <1>3 DEF LinkInv
<1>5. /\ Quiet(s)
      /\ ~IsSent(s, {"request"})
      /\ ~Ending => ~IsSent(s, {"close"}) /\ ~IsSent(s, Messages)
      /\ ~Answering(s) /\ ~ServesClose(s) /\ ~Completing(s) /\ ~Current(s)
      /\ ~Vacant(s) => Outlived(s)
  BY <1>2, FreeSlotFacts
<1>6. /\ IsSent(s, {"request"})'
      /\ IsSent(s, {"close"})' <=> IsSent(s, {"close"})
      /\ IsSent(s, {"completed"})' <=> IsSent(s, {"completed"})
      /\ IsSent(s, Messages)' <=> IsSent(s, Messages)
      /\ \A kinds : IsComing(s, kinds)' <=> IsComing(s, kinds)
      /\ Quiet(s)'
  BY <1>2, <1>3, <1>4, <1>5, SentAtoms DEF Messages
<1>7. m > sessions /\ sessions \in Nat /\ m # NoSession
  BY <1>1, ClientFacts, NoRequestFact
<1>8. /\ Running(s)' /\ Opening(s)'
      /\ ~SenderClosed(s)' /\ ~IsConnected(s)' /\ ~ShuttingDown(s)' /\ ~Completing(s)'
  <2>1. command'[s] = m /\ initializing'[s]
    BY <1>2 DEF BrowserInv, ClientTypeOK
  <2>2. ~senderClosed[m] /\ ~connected[m] /\ ~shuttingDown[s]
    BY <1>2, <1>7 DEF BrowserInv, Numbered
  <2> QED
    BY <1>2, <1>5, <1>7, <2>1, <2>2
    DEF Running, Opening, SenderClosed, IsConnected, ShuttingDown, Completing
<1>9. ~Current(s)' /\ (Outlived(s)' <=> ~Vacant(s))
  <2>1. command'[s] = m /\ Vacant(s)' = Vacant(s) /\ UNCHANGED <<fsmMachine, serves>>
    BY <1>2 DEF BrowserInv, ClientTypeOK, Vacant, serverVars, slotVars
  <2>2. CASE Vacant(s)
    BY <2>1, <2>2 DEF Current, Outlived
  <2>3. CASE ~Vacant(s)
    <3>1. fsmMachine[s] \in Sessions /\ fsmMachine[s] <= machines
      BY <2>3, MachinesFacts
    <3>2. serves[fsmMachine[s]] \in 1 .. sessions
      BY <3>1 DEF BrowserInv, Numbered
    <3>3. serves[fsmMachine[s]] # m
      BY <1>7, <3>2
    <3> QED
      BY <2>1, <2>3, <3>3 DEF Current, Outlived
  <2> QED
    BY <2>2, <2>3
<1>10. SameAtServer(s) /\ (Ending' <=> Ending)
  BY ServerStands
<1>11. SlotInv(s)'
  <2> USE <1>4, <1>5, <1>6, <1>8, <1>9, <1>10, ServerAtoms, HasKinds
  <2>1. ~IsComing(s, AnswerBodies)' /\ ~IsComing(s, {"ok"})' /\ ~IsComing(s, {"failed"})'
        /\ ~IsComing(s, {"completed"})' /\ ~IsComing(s, {"close"})'
        /\ ~IsComing(s, {"connected", "output"})' /\ ~IsComing(s, {"output"})'
    BY DEF Quiet, IsComing
  <2> USE <2>1
  <2>2. OpenInv(s)' /\ UseInv(s)'
    BY DEF SlotInv, OpenInv, UseInv
  <2>3. CloseInv(s)' /\ EndInv(s)'
    BY DEF SlotInv, CloseInv, EndInv
  <2>4. OutlivedInv(s)' /\ TalkInv(s)'
    BY DEF SlotInv, OutlivedInv, TalkInv
  <2> QED
    BY <2>2, <2>3, <2>4 DEF SlotInv
<1>12. ASSUME NEW t \in Slots \ {s}
       PROVE  SameInBrowser(t) /\ SameUnderWay(t)
  <2>1. SameInBrowser(t)
    BY <1>2 DEF BrowserInv, ClientTypeOK, SameInBrowser, Completing
  <2>2. ~IsOf(f, t)
    BY <1>3
  <2> QED
    BY <1>4, <2>1, <2>2, <1>2, ClientWritesOne
<1>13. InOrder(toClient, ComingOrder)'
  BY <1>2, <1>4, ClientWritesOne
<1>14. ASSUME ~Ending
       PROVE  InOrder(toServer, SentOrder)'
  <2>1. ASSUME NEW g \in Range(toServer), SameStream(g, f)
        PROVE  MayBeSentAfter(g, f)
    <3>1. IsOf(g, s) /\ g.sess \in 1 .. sessions
      BY <1>3, <1>7, <2>1 DEF SameStream, IsOf, BrowserInv, Numbered
    <3>2. /\ Kind(g) = "request" => IsSent(s, {"request"})
          /\ Kind(g) = "close" => IsSent(s, {"close"})
          /\ Kind(g) = "completed" => g.sess # m
      BY <1>7, <3>1 DEF IsSent, Has
    <3> QED
      BY <1>3, <1>5, <1>14, <3>2 DEF MayBeSentAfter
  <2> QED
    BY <1>2, <1>4, <1>14, <2>1, ClientWritesOne
<1>15. FramesInv'
  <2>1. Range(toServer') = Range(toServer) \cup {f} /\ toClient' = toClient
    BY <1>2, <1>4, SendFrame DEF BrowserInv
  <2>2. SentFrame(f)'
    <3>1. command'[s] = m
      BY <1>2 DEF BrowserInv, ClientTypeOK
    <3> QED
      BY <1>3, <3>1 DEF SentFrame, Messages
  <2>3. \A g \in Range(toServer) : SentFrame(g)'
    BY <1>2, <1>5, FramesStand
  <2>4. ASSUME NEW g \in Range(toClient)
        PROVE  ComingFrame(g)'
    <3>1. ~(IsOf(g, s) /\ Kind(g) \in StreamKinds)
      BY <1>5 DEF Quiet, IsComing, Has
    <3> QED
      BY <1>2, <1>5, <3>1, FramesStand
  <2> QED
    BY <2>1, <2>2, <2>3, <2>4 DEF FramesInv
<1> QED
  BY <1>4, <1>11, <1>12, <1>13, <1>14, <1>15, ClientKeepsLink

---------------------------------------------------------------------------
(* What the browser reads.                                                  *)

LEMMA ClientReadsOne ==
  ASSUME BrowserInv, LinkInv, NEW type, Receives(type), type # "control",
         UNCHANGED <<serverVars, serves>>
  PROVE  /\ Received \in Frames /\ Received.slot \in Slots
         /\ IsOf(Received, Received.slot) /\ \A t : t # Received.slot => ~IsOf(Received, t)
         /\ Range(toClient') \subseteq Range(toClient)
         /\ ComingFrame(Received) /\ Kind(Received) \in StreamKinds
         /\ Kind(Received) = IF type = "stream" THEN Received.body ELSE type
         /\ IsComing(Received.slot, {Kind(Received)}) /\ IsComing(Received.slot, StreamKinds)
         /\ InOrder(toClient, ComingOrder)'
         /\ toServer' = toServer => /\ \A t : t # Received.slot => SameUnderWay(t)
                                    /\ ~Ending => InOrder(toServer, SentOrder)'
<1>1. /\ Received \in Frames /\ Received \in Range(toClient) /\ Received.type = type
      /\ Range(toClient') \subseteq Range(toClient)
      /\ InOrder(toClient, ComingOrder)'
  BY ReadComing DEF BrowserInv, LinkInv
<1>2. Received.slot \in Slots /\ IsOf(Received, Received.slot)
      /\ \A t : t # Received.slot => ~IsOf(Received, t)
  BY <1>1 DEF Frames, IsOf
<1>3. ComingFrame(Received) /\ Kind(Received) \in StreamKinds
  BY <1>1 DEF LinkInv, FramesInv, ComingFrame, Control
<1>4. IsComing(Received.slot, {Kind(Received)}) /\ IsComing(Received.slot, StreamKinds)
  BY <1>1, <1>2, <1>3 DEF IsComing, Has
<1>5. ASSUME toServer' = toServer
      PROVE  /\ \A t : t # Received.slot => SameUnderWay(t)
             /\ ~Ending => InOrder(toServer, SentOrder)'
  <2>1. \A t, kinds : t # Received.slot => (IsComing(t, kinds)' <=> IsComing(t, kinds))
    BY <1>2, ReadComing DEF BrowserInv
  <2>2. \A t, kinds : IsSent(t, kinds)' <=> IsSent(t, kinds)
    BY <1>5 DEF IsSent, Has
  <2>3. ~Ending => InOrder(toServer, SentOrder)'
    BY <1>5 DEF LinkInv, InOrder, SentOrder
  <2> QED
    BY <2>1, <2>2, <2>3 DEF SameUnderWay
<1> QED
  BY <1>1, <1>2, <1>3, <1>4, <1>5 DEF Kind

\* What may be on its way behind the frame that is read, in its slot.
LEMMA BehindReceived ==
  ASSUME BrowserInv, LinkInv, NEW type, Receives(type), type # "control",
         NEW s \in Slots, s = Received.slot
  PROVE  /\ ~IsComing(s, {"failed"})'
         /\ IsComing(s, AnswerBodies)' => EarlyFrames
         /\ Kind(Received) \in AnswerBodies \cup {"completed"}
              => ~IsComing(s, AnswerBodies)' /\ ~IsComing(s, {"ok"})'
         /\ Kind(Received) \in {"connected", "output"}
              => ~IsComing(s, Early)' /\ ~IsComing(s, {"connected"})'
                 /\ ~IsComing(s, Early \cup {"connected"})'
         /\ Kind(Received) \in {"failed", "close"}
              => /\ ~IsComing(s, Early)' /\ ~IsComing(s, {"connected"})'
                 /\ ~IsComing(s, {"output"})' /\ ~IsComing(s, {"close"})'
                 /\ ~IsComing(s, Early \cup {"connected"})'
                 /\ ~IsComing(s, {"connected", "output"})'
         /\ Kind(Received) = "completed" => Quiet(s)'
<1>1. \A g \in Range(toClient') : IsOf(g, s) => MayComeAfter(Received, g)
  <2>1. Received.type # "control"
    BY DEF Receives
  <2>2. \A g \in Range(toClient') : SameStream(Received, g) => MayComeAfter(Received, g)
    BY ReadComing DEF BrowserInv, LinkInv
  <2> QED
    BY <2>1, <2>2 DEF SameStream, IsOf
<1>2. \A kinds : IsComing(s, kinds)'
                   => \E k \in kinds : \E g \in Range(toClient') : IsOf(g, s) /\ Kind(g) = k
  BY DEF IsComing, Has
<1>3. ASSUME NEW kinds, IsComing(s, kinds)'
      PROVE  /\ kinds \ {"failed"} # {}
             /\ ~EarlyFrames \/ Kind(Received) \in AnswerBodies \cup {"completed"}
                  => kinds \ AnswerBodies # {}
             /\ Kind(Received) \in {"connected", "output"}
                  => kinds \ (Early \cup {"connected"}) # {}
             /\ Kind(Received) \in {"failed", "close"} => kinds \cap {"ok", "completed"} # {}
             /\ Kind(Received) # "completed"
  <2>1. PICK g \in Range(toClient') : IsOf(g, s) /\ Kind(g) \in kinds
    BY <1>2, <1>3
  <2> QED
    BY <1>1, <2>1 DEF MayComeAfter, AnswerBodies, OutputBodies
<1>4. \A kinds : IsComing(s, kinds)'
                   => /\ kinds \ {"failed"} # {}
                      /\ ~EarlyFrames \/ Kind(Received) \in AnswerBodies \cup {"completed"}
                           => kinds \ AnswerBodies # {}
                      /\ Kind(Received) \in {"connected", "output"}
                           => kinds \ (Early \cup {"connected"}) # {}
                      /\ Kind(Received) \in {"failed", "close"}
                           => kinds \cap {"ok", "completed"} # {}
                      /\ Kind(Received) # "completed"
  BY <1>3
<1>5. /\ ~IsComing(s, {"failed"})'
      /\ IsComing(s, AnswerBodies)' => EarlyFrames
      /\ Kind(Received) \in AnswerBodies \cup {"completed"}
           => ~IsComing(s, AnswerBodies)' /\ ~IsComing(s, {"ok"})'
  BY <1>4 DEF AnswerBodies
<1>6. ASSUME Kind(Received) \in {"connected", "output"}
      PROVE  ~IsComing(s, Early)' /\ ~IsComing(s, {"connected"})'
             /\ ~IsComing(s, Early \cup {"connected"})'
  BY <1>4, <1>6
<1>7. ASSUME Kind(Received) \in {"failed", "close"}
      PROVE  /\ ~IsComing(s, Early)' /\ ~IsComing(s, {"connected"})'
             /\ ~IsComing(s, {"output"})' /\ ~IsComing(s, {"close"})'
             /\ ~IsComing(s, Early \cup {"connected"})'
             /\ ~IsComing(s, {"connected", "output"})'
  BY <1>4, <1>7 DEF Early
<1>8. Kind(Received) = "completed" => Quiet(s)'
  BY <1>4 DEF Quiet
<1> QED
  BY <1>5, <1>6, <1>7, <1>8

\* What reading leaves as it is in the frame's slot.
LEMMA ReceivedAtoms ==
  ASSUME BrowserInv, NEW type, Receives(type), toServer' = toServer, NEW s
  PROVE  /\ \A kinds : IsSent(s, kinds)' <=> IsSent(s, kinds)
         /\ \A kinds : IsComing(s, kinds)' => IsComing(s, kinds)
         /\ \A kinds : Kind(Received) \notin kinds => (IsComing(s, kinds)' <=> IsComing(s, kinds))
         /\ Quiet(s) => Quiet(s)'
<1>1. \A kinds : IsSent(s, kinds)' <=> IsSent(s, kinds)
  BY DEF IsSent, Has
<1>2. \A kinds : IsComing(s, kinds)' => IsComing(s, kinds)
  BY ReadComing DEF BrowserInv
<1>3. \A kinds : Kind(Received) \notin kinds => (IsComing(s, kinds)' <=> IsComing(s, kinds))
  BY ReadComing DEF BrowserInv
<1> QED
  BY <1>1, <1>2, <1>3 DEF Quiet

\* Stream.clear: nothing is on its way to the browser any more.
LEMMA ClearKeepsLink ==
  ASSUME BrowserInv, LinkInv, NEW type, Receives(type), type # "control",
         NEW s \in Slots, s = Received.slot, Running(s), Clear(s),
         UNCHANGED <<serverVars, serves, toServer, cpc, closing>>,
         Quiet(s)', ~IsSent(s, {"request"}),
         ~Ending => ~IsSent(s, {"close"}) /\ ~IsSent(s, Messages),
         SlotInv(s)'
  PROVE  LinkInv'
<1>1. command' = [command EXCEPT ![s] = NoSession]
  BY DEF Clear
<1>2. ASSUME NEW t \in Slots \ {s}
      PROVE  SameInBrowser(t) /\ SameUnderWay(t)
  <2>1. Running(t) => command[t] # command[s]
    BY <1>2 DEF BrowserInv, Numbered
  <2>2. SameInBrowser(t)
    BY <2>1, ClientFacts DEF Clear, BrowserInv, ClientTypeOK, SameInBrowser, Completing
  <2> QED
    BY <2>2, ClientReadsOne
<1>3. FramesInv'
  <2>1. \A g \in Range(toServer) : SentFrame(g)'
    BY <1>1, FramesStand
  <2>2. ASSUME NEW g \in Range(toClient')
        PROVE  ComingFrame(g)'
    <3>1. ~(IsOf(g, s) /\ Kind(g) \in StreamKinds) /\ g \in Range(toClient)
      BY ClientReadsOne DEF Quiet, IsComing, Has
    <3> QED
      BY <1>1, <3>1, FramesStand
  <2> QED
    BY <2>1, <2>2 DEF FramesInv
<1>4. InOrder(toClient, ComingOrder)' /\ (~Ending => InOrder(toServer, SentOrder)')
  BY ClientReadsOne
<1>5. cpc' # "stopped"
  BY DEF LinkInv
<1> QED
  BY <1>2, <1>3, <1>4, <1>5, ClientKeepsLink

LEMMA ClearAtoms ==
  ASSUME BrowserInv, NEW s \in Slots, Running(s), Clear(s)
  PROVE  /\ ~Running(s)' /\ ~Opening(s)' /\ ~ShuttingDown(s)'
         /\ ~SenderClosed(s)' /\ ~IsConnected(s)'
BY DEF Clear, BrowserInv, ClientTypeOK, Running, Opening, ShuttingDown, SenderClosed, IsConnected

\* No machine serves a slot that is free in the browser.
LEMMA FreedSlot ==
  ASSUME IInv, BrowserInv, NEW s \in Slots, Running(s), Clear(s),
         UNCHANGED <<serverVars, serves>>
  PROVE  ~Current(s)' /\ (Outlived(s)' <=> ~Vacant(s))
<1>1. command'[s] = NoSession /\ UNCHANGED <<fsmMachine, serves>>
  BY DEF Clear, BrowserInv, ClientTypeOK, serverVars, slotVars
<1>2. CASE Vacant(s)
  BY <1>1, <1>2 DEF Current, Outlived, Vacant
<1>3. CASE ~Vacant(s)
  <2>1. fsmMachine[s] \in Sessions /\ fsmMachine[s] <= machines
    BY <1>3, MachinesFacts
  <2>2. serves[fsmMachine[s]] \in 1 .. sessions
    BY <2>1 DEF BrowserInv, Numbered
  <2> QED
    BY <1>1, <1>3, <2>2, ClientFacts DEF Current, Outlived, Vacant, NoSession
<1> QED
  BY <1>2, <1>3

\* Stream.initialize with a failure: the request has been the only one to be under way.
LEMMA FailureKeepsLink ==
  ASSUME IInv, BrowserInv, LinkInv, ReceiveAnswer, AnswerFrees(Received.slot),
         UNCHANGED <<serverVars, serves>>
  PROVE  LinkInv'
<1>1. PICK s \in Slots : s = Received.slot
  BY ClientReadsOne DEF ReceiveAnswer
<1>2. /\ Receives("stream") /\ Running(s) /\ Opening(s) /\ ~ShuttingDown(s)
      /\ Received.body = "failed" /\ Clear(s)
      /\ UNCHANGED <<toServer, cpc, closing>> /\ cpc = "serve"
  BY <1>1 DEF ReceiveAnswer, AnswerFrees, Acceptable, Receives, Opening, ShuttingDown
<1>3. /\ SlotInv(s) /\ IsComing(s, {"failed"}) /\ IsComing(s, AnswerBodies) /\ ~Quiet(s)
      /\ Kind(Received) = "failed"
  <2>1. Kind(Received) = "failed" /\ IsComing(s, {"failed"}) /\ IsComing(s, StreamKinds)
    BY <1>1, <1>2, ClientReadsOne
  <2> QED
    BY <2>1, HasKinds DEF LinkInv, Quiet, IsComing
<1>4. /\ ~IsComing(s, {"ok"})' /\ ~IsComing(s, {"failed"})' /\ ~IsComing(s, Early)'
      /\ ~IsComing(s, {"connected"})' /\ ~IsComing(s, {"output"})' /\ ~IsComing(s, {"close"})'
      /\ ~IsComing(s, AnswerBodies)' /\ ~IsComing(s, {"connected", "output"})'
      /\ ~IsComing(s, Early \cup {"connected"})'
  BY <1>1, <1>2, <1>3, BehindReceived DEF AnswerBodies
<1>5. /\ \A kinds : IsSent(s, kinds)' <=> IsSent(s, kinds)
      /\ IsComing(s, {"completed"})' <=> IsComing(s, {"completed"})
  BY <1>2, <1>3, ReceivedAtoms
<1>6. /\ ~IsSent(s, {"request"}) /\ ~Answering(s) /\ Vacant(s) /\ ~SenderClosed(s)
      /\ ~IsComing(s, {"completed"}) /\ ~ServesClose(s) /\ ~ServesCompleted(s)
      /\ ~Completing(s)
      /\ ~Ending => /\ ~IsSent(s, {"close"}) /\ ~IsSent(s, Messages)
                    /\ ~IsSent(s, {"completed"})
  BY <1>2, <1>3
  DEF SlotInv, OpenInv, UseInv, CloseInv, EndInv, Current
<1>7. Quiet(s)' /\ ~IsComing(s, {"completed"})'
  <2> USE <1>4, <1>5, <1>6, HasKinds
  <2> QED
    BY DEF Quiet, IsComing
<1>8. /\ ~Running(s)' /\ ~Opening(s)' /\ ~ShuttingDown(s)'
      /\ ~SenderClosed(s)' /\ ~IsConnected(s)' /\ ~Completing(s)'
  BY <1>2, <1>6, ClearAtoms DEF Completing
<1>9. ~Current(s)' /\ ~Outlived(s)'
  BY <1>2, <1>6, FreedSlot
<1>10. SameAtServer(s) /\ (Ending' <=> Ending)
  BY ServerStands
<1>11. SlotInv(s)'
  <2> USE <1>4, <1>5, <1>6, <1>7, <1>8, <1>9, <1>10, ServerAtoms
  <2>1. OpenInv(s)' /\ UseInv(s)'
    BY DEF OpenInv, UseInv
  <2>2. CloseInv(s)' /\ EndInv(s)'
    BY DEF CloseInv, EndInv
  <2>3. OutlivedInv(s)' /\ TalkInv(s)'
    BY DEF OutlivedInv, TalkInv
  <2> QED
    BY <2>1, <2>2, <2>3 DEF SlotInv
<1> QED
  BY <1>1, <1>2, <1>6, <1>7, <1>11, ClearKeepsLink

\* A read that changes no session's slot: frames of commands.
LEMMA ReadKeepsLink ==
  ASSUME BrowserInv, LinkInv, NEW type, Receives(type), type # "control",
         NEW s \in Slots, s = Received.slot,
         UNCHANGED <<serverVars, serves, toServer, command, closing>>, cpc' # "stopped",
         \A t \in Slots \ {s} : SameInBrowser(t),
         SlotInv(s)'
  PROVE  LinkInv'
<1>1. \A t \in Slots \ {s} : SameInBrowser(t) /\ SameUnderWay(t)
  BY ClientReadsOne
<1>2. FramesInv'
  <2>1. /\ Ending' <=> Ending
        /\ UNCHANGED <<fsmMachine, machines>>
    BY ServerStands DEF serverVars, slotVars, machineVars
  <2>2. \A g \in Range(toServer) : SentFrame(g)'
    BY <2>1 DEF LinkInv, FramesInv, SentFrame, Vacant
  <2>3. \A g \in Range(toClient) : ComingFrame(g)'
    BY <2>1 DEF LinkInv, FramesInv, ComingFrame
  <2> QED
    BY <2>2, <2>3, ClientReadsOne DEF FramesInv
<1>3. InOrder(toClient, ComingOrder)' /\ (~Ending => InOrder(toServer, SentOrder)')
  BY ClientReadsOne
<1> QED
  BY <1>1, <1>2, <1>3, ClientKeepsLink

LEMMA AnswerNotedKeepsLink ==
  ASSUME BrowserInv, LinkInv, ReceiveAnswer, ~AnswerFrees(Received.slot),
         UNCHANGED <<serverVars, serves>>
  PROVE  LinkInv'
<1>1. PICK s \in Slots : s = Received.slot
  BY ClientReadsOne DEF ReceiveAnswer
<1>2. /\ Receives("stream") /\ Running(s) /\ Opening(s)
      /\ Received.body \in AnswerBodies
      /\ Received.body = "failed" => ShuttingDown(s)
      /\ initializing' = [initializing EXCEPT ![s] = FALSE]
      /\ UNCHANGED <<toServer, cpc, closing, command, shuttingDown, senderClosed, connected>>
  BY <1>1 DEF ReceiveAnswer, AnswerFrees, Acceptable, Receives, Opening, ShuttingDown,
              KeepCommand
<1>3. /\ SlotInv(s) /\ IsComing(s, AnswerBodies) /\ ~Quiet(s)
      /\ Kind(Received) \in AnswerBodies
      /\ IsComing(s, {"ok"}) \/ (IsComing(s, {"failed"}) /\ ShuttingDown(s))
  <2>1. /\ Kind(Received) = Received.body /\ IsComing(s, {Kind(Received)})
        /\ IsComing(s, StreamKinds)
    BY <1>1, <1>2, ClientReadsOne
  <2>2. /\ IsComing(s, {"ok"}) \/ (IsComing(s, {"failed"}) /\ ShuttingDown(s))
        /\ Kind(Received) \in AnswerBodies
    BY <1>2, <2>1 DEF AnswerBodies
  <2>3. IsComing(s, AnswerBodies)
    BY <2>2, HasKinds DEF IsComing
  <2> QED
    BY <2>1, <2>2, <2>3 DEF LinkInv, Quiet
<1>4. /\ ~IsComing(s, {"ok"})' /\ ~IsComing(s, {"failed"})' /\ ~IsComing(s, AnswerBodies)'
  BY <1>1, <1>2, <1>3, BehindReceived
<1>5. /\ \A kinds : IsSent(s, kinds)' <=> IsSent(s, kinds)
      /\ IsComing(s, {"completed"})' <=> IsComing(s, {"completed"})
      /\ IsComing(s, {"close"})' <=> IsComing(s, {"close"})
      /\ IsComing(s, {"connected"})' <=> IsComing(s, {"connected"})
      /\ IsComing(s, {"output"})' <=> IsComing(s, {"output"})
      /\ IsComing(s, {"connected", "output"})' <=> IsComing(s, {"connected", "output"})
      /\ IsComing(s, Early \cup {"connected"})' <=> IsComing(s, Early \cup {"connected"})
  BY <1>2, <1>3, ReceivedAtoms DEF AnswerBodies, Early
<1>6. /\ Running(s)' /\ ~Opening(s)'
      /\ ShuttingDown(s)' <=> ShuttingDown(s)
      /\ SenderClosed(s)' <=> SenderClosed(s)
      /\ IsConnected(s)' <=> IsConnected(s)
      /\ Completing(s)' <=> Completing(s)
      /\ command'[s] = command[s]
  BY <1>2 DEF BrowserInv, ClientTypeOK, Running, Opening, ShuttingDown, SenderClosed,
              IsConnected, Completing
<1>7. SameAtServer(s) /\ (Ending' <=> Ending)
  BY ServerStands
<1>8. /\ ~IsSent(s, {"request"}) /\ ~Answering(s) /\ ~Outlived(s)
      /\ Current(s) \/ Ending \/ ShuttingDown(s)
  BY <1>2, <1>3 DEF SlotInv, OpenInv, OutlivedInv
<1>9. SlotInv(s)'
  <2> USE <1>3, <1>4, <1>5, <1>6, <1>7, <1>8, ServerAtoms
  <2>1. OpenInv(s)' /\ UseInv(s)'
    BY DEF SlotInv, OpenInv, UseInv
  <2>2. CloseInv(s)' /\ EndInv(s)'
    BY DEF SlotInv, CloseInv, EndInv, Outlived, Vacant, Current
  <2>3. OutlivedInv(s)' /\ TalkInv(s)'
    BY DEF SlotInv, OutlivedInv, TalkInv, Outlived, Vacant, Current
  <2> QED
    BY <2>1, <2>2, <2>3 DEF SlotInv
<1>10. \A t \in Slots \ {s} : SameInBrowser(t)
  BY <1>2 DEF BrowserInv, ClientTypeOK, SameInBrowser, Completing
<1> QED
  BY <1>1, <1>2, <1>9, <1>10, ReadKeepsLink DEF LinkInv

LEMMA OutputKeepsLink ==
  ASSUME BrowserInv, LinkInv, ReceiveOutput, UNCHANGED <<serverVars, serves>>
  PROVE  LinkInv'
<1>1. PICK s \in Slots : s = Received.slot
  BY ClientReadsOne DEF ReceiveOutput
<1> DEFINE greets == Received.body = "connected" /\ ~ShuttingDown(s)
<1>2. /\ Receives("stream") /\ Running(s) /\ ~Opening(s)
      /\ Received.body \in OutputBodies
      /\ ShuttingDown(s) \/ (Received.body = "output" <=> IsConnected(s))
      /\ connected' = [connected EXCEPT ![command[s]] = @ \/ greets]
      /\ UNCHANGED <<toServer, cpc, closing, command, shuttingDown, senderClosed, initializing>>
  BY <1>1 DEF ReceiveOutput, Acceptable, Receives, Opening, ShuttingDown, Understands,
              IsConnected, Running, BrowserInv, ClientTypeOK
<1>3. /\ SlotInv(s) /\ IsComing(s, {Received.body}) /\ ~Quiet(s)
      /\ Kind(Received) = Received.body
  <2>1. /\ Kind(Received) = Received.body /\ IsComing(s, {Kind(Received)})
        /\ IsComing(s, StreamKinds)
    BY <1>1, <1>2, ClientReadsOne
  <2> QED
    BY <2>1 DEF LinkInv, Quiet
<1>4. /\ Received.body \in {"connected", "output"}
           => ~IsComing(s, {"connected"})' /\ ~IsComing(s, Early \cup {"connected"})'
      /\ ~IsComing(s, {"ok"})' /\ ~IsComing(s, {"failed"})' /\ ~IsComing(s, AnswerBodies)'
  <2>1. ~IsComing(s, AnswerBodies)
    BY <1>2, <1>3 DEF SlotInv, OpenInv
  <2>2. ~IsComing(s, AnswerBodies)'
    BY <1>2, <1>3, <2>1, ReceivedAtoms
  <2> QED
    BY <1>1, <1>2, <1>3, <2>2, BehindReceived, HasKinds DEF IsComing, AnswerBodies
<1>5. /\ \A kinds : IsSent(s, kinds)' <=> IsSent(s, kinds)
      /\ \A kinds : IsComing(s, kinds)' => IsComing(s, kinds)
      /\ IsComing(s, {"completed"})' <=> IsComing(s, {"completed"})
      /\ IsComing(s, {"close"})' <=> IsComing(s, {"close"})
      /\ Received.body # "connected" => (IsComing(s, {"connected"})' <=> IsComing(s, {"connected"}))
  BY <1>2, <1>3, ReceivedAtoms DEF OutputBodies
<1>6. /\ Running(s)' /\ ~Opening(s)'
      /\ ShuttingDown(s)' <=> ShuttingDown(s)
      /\ SenderClosed(s)' <=> SenderClosed(s)
      /\ IsConnected(s)' <=> IsConnected(s) \/ greets
      /\ Completing(s)' <=> Completing(s)
      /\ command'[s] = command[s]
  BY <1>2, ClientFacts DEF BrowserInv, ClientTypeOK, Running, Opening, ShuttingDown,
                           SenderClosed, IsConnected, Completing
<1>7. SameAtServer(s) /\ (Ending' <=> Ending)
  BY ServerStands
<1>8. /\ ~Outlived(s)
      /\ Received.body = "connected" => IsComing(s, {"connected", "output"})
      /\ Received.body \in Early \cup {"connected"} => ~IsConnected(s)
  <2>1. /\ Received.body = "connected" => IsComing(s, {"connected", "output"})
        /\ Received.body \in Early \cup {"connected"} => IsComing(s, Early \cup {"connected"})
    BY <1>3 DEF IsComing, Has
  <2> QED
    BY <1>3, <2>1 DEF SlotInv, OutlivedInv, TalkInv
<1>9. Quiet(s)' \/ Running(s)'
  BY <1>6
<1> HIDE DEF greets
<1>10. SlotInv(s)'
  <2> USE <1>2, <1>3, <1>4, <1>5, <1>6, <1>7, <1>8, ServerAtoms
  <2>1. OpenInv(s)' /\ UseInv(s)'
    BY DEF SlotInv, OpenInv, UseInv
  <2>2. CloseInv(s)' /\ EndInv(s)'
    BY DEF SlotInv, CloseInv, EndInv, Outlived, Vacant, Current
  <2>3. OutlivedInv(s)'
    BY DEF OutlivedInv, Outlived, Vacant
  <2>4. TalkInv(s)'
    BY DEF SlotInv, TalkInv, greets, Vacant, Current
  <2> QED
    BY <2>1, <2>2, <2>3, <2>4 DEF SlotInv
<1>11. ASSUME NEW t \in Slots \ {s}
       PROVE  SameInBrowser(t)
  <2>1. Running(t) => command[t] # command[s]
    BY <1>11 DEF BrowserInv, Numbered
  <2> QED
    BY <1>2, <2>1, ClientFacts DEF BrowserInv, ClientTypeOK, SameInBrowser, Completing
<1> QED
  BY <1>1, <1>2, <1>10, <1>11, ReadKeepsLink DEF LinkInv

LEMMA EchoKeepsLink ==
  ASSUME BrowserInv, LinkInv, ReceiveEcho, UNCHANGED <<serverVars, serves>>
  PROVE  LinkInv'
<1>1. Receives("control") /\ UNCHANGED <<toServer, clientVars>>
  BY DEF ReceiveEcho
<1>2. /\ Received.type = "control" /\ Range(toClient') \subseteq Range(toClient)
      /\ \A t, kinds : ~IsOf(Received, t) => (IsComing(t, kinds)' <=> IsComing(t, kinds))
      /\ InOrder(toClient, ComingOrder)'
  BY <1>1, ReadComing DEF BrowserInv, LinkInv
<1>3. ASSUME NEW t
      PROVE  SameInBrowser(t) /\ SameUnderWay(t)
  <2>1. ~IsOf(Received, t)
    BY <1>2 DEF IsOf
  <2>2. \A kinds : IsSent(t, kinds)' <=> IsSent(t, kinds)
    BY <1>1 DEF IsSent, Has
  <2> QED
    BY <1>1, <1>2, <2>1, <2>2 DEF SameInBrowser, SameUnderWay, Completing, clientVars
<1>4. \A t \in Slots : SlotInv(t)'
  BY <1>3, ServerStands, UntouchedSlot DEF LinkInv
<1>5. FramesInv'
  <2>1. /\ Ending' <=> Ending
        /\ UNCHANGED <<fsmMachine, machines, command>>
    BY <1>1, ServerStands DEF serverVars, slotVars, machineVars, clientVars
  <2>2. \A g \in Range(toServer) : SentFrame(g)'
    BY <2>1 DEF LinkInv, FramesInv, SentFrame, Vacant
  <2>3. \A g \in Range(toClient) : ComingFrame(g)'
    BY <2>1 DEF LinkInv, FramesInv, ComingFrame
  <2> QED
    BY <1>1, <1>2, <2>2, <2>3 DEF FramesInv
<1>6. ~Ending => InOrder(toServer, SentOrder)'
  BY <1>1 DEF LinkInv, InOrder, SentOrder
<1>7. cpc' # "stopped"
  BY <1>1 DEF LinkInv, clientVars
<1> QED
  BY <1>2, <1>3, <1>4, <1>5, <1>6, <1>7, SlotsFacts, ClientKeepsLink

\* Streams.handleCompleted: the slot is free, and if the server still has a machine in it
\* the browser's COMPLETED is on its way.
LEMMA CompletedKeepsLink ==
  ASSUME IInv, BrowserInv, LinkInv, ReceiveCompleted, UNCHANGED <<serverVars, serves>>
  PROVE  LinkInv'
<1>1. PICK s \in Slots : s = Received.slot
  BY ClientReadsOne DEF ReceiveCompleted
<1>2. /\ Receives("completed") /\ Running(s) /\ ShuttingDown(s) /\ Clear(s)
      /\ UNCHANGED <<toServer, cpc, closing>> /\ cpc = "serve"
  BY <1>1 DEF ReceiveCompleted, Acceptable, Receives, ShuttingDown
<1>3. /\ SlotInv(s) /\ IsComing(s, {"completed"}) /\ ~Quiet(s)
      /\ Kind(Received) = "completed"
  <2>1. Kind(Received) = "completed" /\ IsComing(s, {"completed"}) /\ IsComing(s, StreamKinds)
    BY <1>1, <1>2, ClientReadsOne
  <2> QED
    BY <2>1 DEF LinkInv, Quiet
<1>4. Quiet(s)'
  BY <1>1, <1>2, <1>3, BehindReceived
<1>5. /\ \A kinds : IsSent(s, kinds)' <=> IsSent(s, kinds)
      /\ IsComing(s, {"close"})' <=> IsComing(s, {"close"})
  BY <1>2, <1>3, ReceivedAtoms
<1>6. /\ ~IsComing(s, {"ok"})' /\ ~IsComing(s, {"failed"})' /\ ~IsComing(s, Early)'
      /\ ~IsComing(s, {"connected"})' /\ ~IsComing(s, {"output"})' /\ ~IsComing(s, {"close"})'
      /\ ~IsComing(s, AnswerBodies)' /\ ~IsComing(s, {"connected", "output"})'
      /\ ~IsComing(s, Early \cup {"connected"})' /\ ~IsComing(s, {"completed"})'
  BY <1>4, HasKinds DEF Quiet, IsComing
<1>7. /\ ~IsSent(s, {"request"}) /\ ~Answering(s) /\ ~ServesClose(s) /\ ~Completing(s)
      /\ ~Outlived(s)
      /\ ~Vacant(s) => /\ remote[fsmMachine[s]] = "ended" /\ fsmClosed[s]
                       /\ IsSent(s, {"completed"}) \/ ServesCompleted(s)
      /\ ~Ending => ~IsSent(s, {"close"}) /\ ~IsSent(s, Messages)
  <2>1. ~Completing(s)
    BY <1>2 DEF Completing
  <2>2. /\ ~IsSent(s, {"request"}) /\ ~Answering(s) /\ ~Outlived(s)
    BY <1>3 DEF SlotInv, OpenInv, OutlivedInv
  <2>3. /\ ~ServesClose(s) /\ (~Ending => ~IsSent(s, {"close"}))
        /\ ~Vacant(s) => remote[fsmMachine[s]] = "ended" /\ fsmClosed[s]
    BY <1>3 DEF SlotInv, CloseInv
  <2>4. ~Vacant(s) => IsSent(s, {"completed"}) \/ ServesCompleted(s)
    BY <1>3, <1>5, <1>6, <2>1, <2>3 DEF SlotInv, EndInv, HasClosed
  <2>5. ~Ending => ~IsSent(s, Messages)
    BY <1>3, <2>3 DEF SlotInv, UseInv, Current
  <2> QED
    BY <2>1, <2>2, <2>3, <2>4, <2>5
<1>8. /\ ~Running(s)' /\ ~Opening(s)' /\ ~ShuttingDown(s)'
      /\ ~SenderClosed(s)' /\ ~IsConnected(s)' /\ ~Completing(s)'
  BY <1>2, <1>7, ClearAtoms DEF Completing
<1>9. ~Current(s)' /\ (Outlived(s)' <=> ~Vacant(s))
  BY <1>2, FreedSlot
<1>10. SameAtServer(s) /\ (Ending' <=> Ending)
  BY ServerStands
<1>11. SlotInv(s)'
  <2> USE <1>3, <1>4, <1>5, <1>6, <1>7, <1>8, <1>9, <1>10, ServerAtoms
  <2>1. OpenInv(s)' /\ UseInv(s)'
    BY DEF OpenInv, UseInv
  <2>2. CloseInv(s)' /\ EndInv(s)'
    BY DEF SlotInv, CloseInv, EndInv
  <2>3. OutlivedInv(s)' /\ TalkInv(s)'
    BY DEF OutlivedInv, TalkInv
  <2> QED
    BY <2>1, <2>2, <2>3 DEF SlotInv
<1> QED
  BY <1>1, <1>2, <1>4, <1>7, <1>11, ClearKeepsLink

\* Streams.handleClose after the await.
LEMMA AnswerCloseKeepsLink ==
  ASSUME IInv, BrowserInv, LinkInv, up, AnswerClose, UNCHANGED <<serverVars, serves>>
  PROVE  LinkInv'
<1>1. PICK s \in Slots : s = closing
  BY DEF BrowserInv, ClientTypeOK
<1>2. /\ Running(s) /\ Completing(s) /\ cpc' = "serve" /\ closing' = 0
      /\ WriteToServer(Completed(s, command[s]))
      /\ UNCHANGED <<toClient, up, command, initializing, shuttingDown, senderClosed,
                     connected>>
  BY <1>1 DEF AnswerClose, HoldSlot, KeepCommand, Completing, BrowserInv, Held
<1>3. PICK f \in Frames : /\ f = Completed(s, command[s])
                          /\ Kind(f) = "completed" /\ f.type = "completed" /\ f.slot = s
                          /\ f.sess = command[s]
                          /\ IsOf(f, s) /\ \A t : t # s => ~IsOf(f, t)
  <2>1. command[s] \in 0 .. MaxSession /\ "none" \in Bodies
    BY ClientFacts DEF Bodies
  <2> QED
    BY <2>1, FramesAreFrames DEF IsOf
<1>4. WriteToServer(f) /\ SlotInv(s)
  BY <1>2, <1>3 DEF LinkInv
<1>5. /\ IsSent(s, {"completed"})'
      /\ IsSent(s, {"request"})' <=> IsSent(s, {"request"})
      /\ IsSent(s, {"close"})' <=> IsSent(s, {"close"})
      /\ IsSent(s, Messages)' <=> IsSent(s, Messages)
      /\ \A kinds : IsComing(s, kinds)' <=> IsComing(s, kinds)
      /\ Quiet(s)' <=> Quiet(s)
  BY <1>2, <1>3, <1>4, SentAtoms DEF Messages
<1>6. /\ Running(s)' /\ ~Completing(s)'
      /\ Opening(s)' <=> Opening(s)
      /\ ShuttingDown(s)' <=> ShuttingDown(s)
      /\ SenderClosed(s)' <=> SenderClosed(s)
      /\ IsConnected(s)' <=> IsConnected(s)
      /\ command'[s] = command[s]
  BY <1>2 DEF Running, Opening, ShuttingDown, SenderClosed, IsConnected, Completing
<1>7. SameAtServer(s) /\ (Ending' <=> Ending)
  BY ServerStands
<1>8. /\ ShuttingDown(s) /\ (Opening(s) => EarlyFrames)
      /\ ~Vacant(s) => Current(s) /\ HasClosed(s)
      /\ ~Ending => ~Vacant(s) /\ ~ServesCompleted(s) /\ ~IsSent(s, {"completed"})
      /\ ~IsComing(s, {"close"})
  BY <1>2, <1>4 DEF SlotInv, EndInv
<1>9. ~Ending => fsmRunning[s]
  BY <1>8 DEF IInv, SlotsInStep, InRelease, HandlerAt, Vacant, ServesCompleted, Ending
<1>10. SlotInv(s)'
  <2> USE <1>4, <1>5, <1>6, <1>7, <1>8, <1>9, ServerAtoms
  <2>1. OpenInv(s)' /\ UseInv(s)'
    BY DEF SlotInv, OpenInv, UseInv
  <2>2. CloseInv(s)' /\ EndInv(s)'
    BY DEF SlotInv, CloseInv, EndInv, Outlived, Vacant, Current
  <2>3. OutlivedInv(s)' /\ TalkInv(s)'
    BY DEF SlotInv, OutlivedInv, TalkInv, Outlived, Vacant, Current
  <2> QED
    BY <2>1, <2>2, <2>3 DEF SlotInv
<1>11. \A t \in Slots \ {s} : SameInBrowser(t) /\ ~IsOf(f, t)
  BY <1>1, <1>2, <1>3 DEF SameInBrowser, Completing
<1>12. SentFrame(f)'
  <2>1. ~Vacant(s)' => Current(s)'
    BY <1>6, <1>7, <1>8, ServerAtoms
  <2>2. ~Vacant(s)' => serves'[fsmMachine'[s]] = command[s]
    BY <1>6, <2>1 DEF Current
  <2> QED
    BY <1>3, <2>2 DEF SentFrame, Messages
<1>13. ASSUME ~Ending, NEW g \in Range(toServer), SameStream(g, f)
       PROVE  MayBeSentAfter(g, f)
  <2>1. IsOf(g, s)
    BY <1>3, <1>13 DEF SameStream
  <2>2. Kind(g) # "completed"
    <3>1. Kind(g) = "completed" => IsSent(s, {"completed"})
      BY <2>1 DEF IsSent, Has
    <3> QED
      BY <1>8, <1>13, <3>1
  <2>3. g.sess = command[s]
    BY <1>13, <2>1, <2>2 DEF LinkInv, FramesInv, SentFrame, IsOf, Control
  <2> QED
    BY <1>3, <2>2, <2>3 DEF MayBeSentAfter
<1> QED
  BY <1>2, <1>4, <1>10, <1>11, <1>12, <1>13, SendKeepsLink

\* Streams.handleClose up to the await: the stream is closed if it was not, and from now on
\* the browser is to answer with COMPLETED.
LEMMA ReceiveCloseKeepsLink ==
  ASSUME BrowserInv, LinkInv, up, ReceiveClose, UNCHANGED <<serverVars, serves>>
  PROVE  LinkInv'
<1>1. PICK s \in Slots : s = Received.slot
  BY ClientReadsOne DEF ReceiveClose
<1>2. /\ Receives("close") /\ Running(s) /\ cpc = "serve" /\ up' = up
      /\ cpc' = "completing" /\ closing' = s
      /\ CloseStream(s)
      /\ UNCHANGED <<command, initializing, connected>>
  BY <1>1 DEF ReceiveClose, Acceptable, Receives
<1>3. SlotInv(s) /\ ~Quiet(s) /\ IsComing(s, {"close"}) /\ Kind(Received) = "close"
  <2>1. Kind(Received) = "close" /\ IsComing(s, {"close"}) /\ IsComing(s, StreamKinds)
    BY <1>1, <1>2, ClientReadsOne
  <2> QED
    BY <2>1 DEF LinkInv, Quiet
<1>4. /\ ~IsComing(s, {"failed"})' /\ (IsComing(s, AnswerBodies)' => EarlyFrames)
      /\ ~IsComing(s, Early \cup {"connected"})' /\ ~IsComing(s, {"connected"})'
      /\ ~IsComing(s, {"output"})' /\ ~IsComing(s, {"close"})'
      /\ ~IsComing(s, {"connected", "output"})'
  BY <1>1, <1>2, <1>3, BehindReceived
<1>5. \A kinds : Kind(Received) \notin kinds => (IsComing(s, kinds)' <=> IsComing(s, kinds))
  BY <1>2, ReadComing DEF BrowserInv
<1>6. /\ IsComing(s, {"completed"})' <=> IsComing(s, {"completed"})
      /\ IsComing(s, AnswerBodies)' <=> IsComing(s, AnswerBodies)
      /\ IsComing(s, {"ok"})' <=> IsComing(s, {"ok"})
  BY <1>3, <1>4, <1>5 DEF AnswerBodies
<1>7. /\ shuttingDown' = [shuttingDown EXCEPT ![s] = TRUE]
      /\ senderClosed' = [senderClosed EXCEPT ![command[s]] = @ \/ ~shuttingDown[s]]
      /\ IF shuttingDown[s] \/ senderClosed[command[s]]
           THEN toServer' = toServer
           ELSE WriteToServer(Close(s, command[s]))
  BY <1>2, CloseStreamEffects
<1>8. ShuttingDown(s) => SenderClosed(s)
  BY <1>3 DEF SlotInv, UseInv
<1>9. /\ Running(s)' /\ ShuttingDown(s)' /\ SenderClosed(s)' /\ Completing(s)'
      /\ Opening(s)' <=> Opening(s)
      /\ IsConnected(s)' <=> IsConnected(s)
      /\ command'[s] = command[s]
  BY <1>2, <1>7, <1>8, ClientFacts
  DEF BrowserInv, ClientTypeOK, Running, Opening, ShuttingDown, SenderClosed,
      IsConnected, Completing
<1>10. SameAtServer(s) /\ (Ending' <=> Ending)
  BY ServerStands
<1>11. /\ ~IsSent(s, {"request"}) /\ ~Outlived(s)
       /\ Opening(s) => EarlyFrames
       /\ Answering(s) => EarlyFrames /\ why = "ok"
       /\ ~Vacant(s) => Current(s) /\ HasClosed(s)
       /\ ~Ending => ~Vacant(s) /\ ~ServesCompleted(s) /\ ~IsSent(s, {"completed"})
  BY <1>3, <1>4, <1>6 DEF SlotInv, OpenInv, OutlivedInv, EndInv, Current, Outlived
<1>12. \/ \A kinds : IsSent(s, kinds)' <=> IsSent(s, kinds)
       \/ /\ ~SenderClosed(s) /\ IsSent(s, {"close"})'
          /\ IsSent(s, {"request"})' <=> IsSent(s, {"request"})
          /\ IsSent(s, {"completed"})' <=> IsSent(s, {"completed"})
          /\ IsSent(s, Messages)' <=> IsSent(s, Messages)
  <2>1. CASE toServer' = toServer
    BY <2>1 DEF IsSent, Has
  <2>2. CASE toServer' # toServer
    <3>1. ~SenderClosed(s) /\ WriteToServer(Close(s, command[s]))
      BY <1>2, <1>7, <2>2 DEF SenderClosed
    <3>2. PICK f \in Frames : /\ WriteToServer(f) /\ Kind(f) = "close" /\ IsOf(f, s)
      <4>1. command[s] \in 0 .. MaxSession /\ "none" \in Bodies
        BY <1>2, ClientFacts DEF Bodies
      <4> QED
        BY <3>1, <4>1, FramesAreFrames DEF IsOf
    <3>3. \A kinds : IsSent(s, kinds)' <=> IsSent(s, kinds) \/ Kind(f) \in kinds
      BY <3>2, SendFrame DEF BrowserInv
    <3> QED
      BY <3>1, <3>2, <3>3 DEF Messages
  <2> QED
    BY <2>1, <2>2
<1>13. SlotInv(s)'
  <2> USE <1>3, <1>4, <1>6, <1>8, <1>9, <1>10, <1>11, <1>12, ServerAtoms
  <2>1. OpenInv(s)' /\ UseInv(s)'
    BY DEF SlotInv, OpenInv, UseInv
  <2>2. CloseInv(s)'
    BY DEF SlotInv, CloseInv, Outlived, Vacant, Current
  <2>3. EndInv(s)'
    BY DEF SlotInv, EndInv, Outlived, Vacant, Current
  <2>4. OutlivedInv(s)' /\ TalkInv(s)'
    BY DEF SlotInv, OutlivedInv, TalkInv, Outlived, Vacant, Current
  <2> QED
    BY <2>1, <2>2, <2>3, <2>4 DEF SlotInv
<1>14. ASSUME NEW t \in Slots \ {s}
       PROVE  SameInBrowser(t)
  <2>1. Running(t) => command[t] # command[s]
    BY <1>14 DEF BrowserInv, Numbered
  <2> QED
    BY <1>2, <1>7, <2>1, ClientFacts DEF BrowserInv, ClientTypeOK, SameInBrowser, Completing
<1>15. /\ Range(toClient') \subseteq Range(toClient) /\ InOrder(toClient, ComingOrder)'
       /\ \A g \in Range(toClient) : ComingFrame(g)'
  <2>1. UNCHANGED <<machines, command, serves>>
    BY <1>2 DEF serverVars, machineVars
  <2>2. \A g \in Range(toClient) : ComingFrame(g)'
    BY <2>1 DEF LinkInv, FramesInv, ComingFrame
  <2> QED
    BY <1>2, <2>2, ClientReadsOne
<1>16. CASE toServer' = toServer
  <2>1. \A t \in Slots \ {s} : SameUnderWay(t)
    BY <1>1, <1>2, <1>16, ClientReadsOne
  <2>2. ~Ending => InOrder(toServer, SentOrder)'
    BY <1>2, <1>16, ClientReadsOne
  <2>3. \A g \in Range(toServer) : SentFrame(g)'
    BY <1>2, <1>10 DEF LinkInv, FramesInv, SentFrame, Vacant, serverVars, slotVars
  <2>4. FramesInv'
    BY <1>15, <1>16, <2>3 DEF FramesInv
  <2> QED
    BY <1>2, <1>13, <1>14, <1>15, <2>1, <2>2, <2>4, ClientKeepsLink
<1>17. CASE toServer' # toServer
  <2>1. ~SenderClosed(s) /\ WriteToServer(Close(s, command[s]))
    BY <1>2, <1>7, <1>17 DEF SenderClosed
  <2>2. PICK f \in Frames : /\ f = Close(s, command[s])
                            /\ Kind(f) = "close" /\ f.type = "close" /\ f.slot = s
                            /\ f.sess = command[s]
                            /\ IsOf(f, s) /\ \A t : t # s => ~IsOf(f, t)
    <3>1. command[s] \in 0 .. MaxSession /\ "none" \in Bodies
      BY <1>2, ClientFacts DEF Bodies
    <3> QED
      BY <3>1, FramesAreFrames DEF IsOf
  <2>3. /\ Range(toServer') = Range(toServer) \cup {f}
        /\ \A t, kinds : IsSent(t, kinds)'
                           <=> IsSent(t, kinds) \/ (IsOf(f, t) /\ Kind(f) \in kinds)
        /\ InOrder(toServer, SentOrder) /\ (\A g \in Range(toServer) : <<g, f>> \in SentOrder)
             => InOrder(toServer, SentOrder)'
    BY <2>1, <2>2, SendFrame DEF BrowserInv
  <2>4. ASSUME NEW t \in Slots \ {s}
        PROVE  SameUnderWay(t)
    <3>1. \A kinds : IsComing(t, kinds)' <=> IsComing(t, kinds)
      <4>1. ~IsOf(Received, t)
        BY <1>1, <2>4 DEF IsOf
      <4> QED
        BY <1>2, <4>1, ReadComing DEF BrowserInv
    <3>2. ~IsOf(f, t)
      BY <2>2
    <3> QED
      BY <2>3, <3>1, <3>2 DEF SameUnderWay
  <2>5. ASSUME ~Ending
        PROVE  InOrder(toServer, SentOrder)'
    <3>1. ASSUME NEW g \in Range(toServer)
          PROVE  <<g, f>> \in SentOrder
      <4>1. g \in Frames
        BY DEF BrowserInv, WireTypeOK, Range
      <4>2. ASSUME SameStream(g, f)
            PROVE  MayBeSentAfter(g, f)
        <5>1. IsOf(g, s)
          BY <2>2, <4>2 DEF SameStream
        <5>2. /\ Kind(g) \in Messages \cup {"request", "completed"}
              /\ Kind(g) = "completed" => g.sess # command[s]
          BY <1>2, <2>1, <2>5, <5>1, BeforeClose
        <5> QED
          BY <2>2, <5>2 DEF MayBeSentAfter, Messages
      <4> QED
        BY <4>1, <4>2 DEF SentOrder
    <3> QED
      BY <2>3, <2>5, <3>1 DEF LinkInv
  <2>6. FramesInv'
    <3>1. \A g \in Range(toServer) : SentFrame(g)'
      BY <1>2, <1>10 DEF LinkInv, FramesInv, SentFrame, Vacant, serverVars, slotVars
    <3>2. SentFrame(f)'
      BY <1>9, <2>2 DEF SentFrame, Messages
    <3> QED
      BY <1>15, <2>3, <3>1, <3>2 DEF FramesInv
  <2> QED
    BY <1>2, <1>13, <1>14, <1>15, <2>4, <2>5, <2>6, ClientKeepsLink
<1> QED
  BY <1>16, <1>17

\* Whatever the browser does while the connection is up.
LEMMA ClientStepKeepsLink ==
  ASSUME IInv, BrowserInv, up => LinkInv, ClientStep, UNCHANGED <<serverVars, serves>>, up'
  PROVE  LinkInv'
<1>1. up /\ LinkInv
  BY DEF ClientStep, ServeStep, UserStep, GiveUp, ServeFails, ClearAll, Receives, ReceiveEcho,
         ReceiveAnswer, ReceiveOutput, ReceiveClose, AnswerClose, ReceiveCompleted,
         Request, CloseTerminal, SayAnything, Say, CancelRequest, PauseServer, ResumeServer
<1>2. CASE ReceiveEcho \/ ReceiveAnswer \/ ReceiveOutput \/ ReceiveClose
  BY <1>1, <1>2, EchoKeepsLink, FailureKeepsLink, AnswerNotedKeepsLink, OutputKeepsLink,
     ReceiveCloseKeepsLink
<1>3. CASE AnswerClose \/ ReceiveCompleted
  BY <1>1, <1>3, AnswerCloseKeepsLink, CompletedKeepsLink
<1>4. CASE \E s \in Slots : Request(s) \/ SayAnything(s)
  BY <1>1, <1>4, RequestKeepsLink, SayKeepsLink DEF SayAnything
<1>5. CASE \E s \in Slots : CloseTerminal(s)
  BY <1>1, <1>5, CloseKeepsLink DEF CloseTerminal, CloseSender, SenderClosed, Opening
<1>6. CASE \E m \in Sessions : CancelRequest(m)
  BY <1>1, <1>6, CancelKeepsLink
<1>7. CASE PauseServer \/ ResumeServer
  BY <1>1, <1>7, ControlKeepsLink DEF PauseServer, ResumeServer
<1>8. ~ClearAll
  BY DEF ClearAll
<1> QED
  BY <1>2, <1>3, <1>4, <1>5, <1>6, <1>7, <1>8
  DEF ClientStep, ServeStep, UserStep, GiveUp, ServeFails

---------------------------------------------------------------------------
(* What the server does, whether the connection is up or not.               *)

\* The history of who booted a machine.
LEMMA ServesFacts ==
  ASSUME IInv, BrowserInv, ServerDoes(ServerStep)
  PROVE  \/ UNCHANGED <<serves, machines>>
         \/ /\ \E s \in Slots : HandleRequest(s)
            /\ machines + 1 \in Sessions /\ machines' = machines + 1
            /\ serves' = [serves EXCEPT ![machines + 1] = Incoming.sess]
            /\ Incoming.sess \in 1 .. sessions
<1>1. ServerStep /\ serves' = IF machines' = machines
                                THEN serves
                                ELSE [serves EXCEPT ![machines'] = Incoming.sess]
  BY DEF ServerDoes
<1>2. CASE machines' = machines
  BY <1>1, <1>2
<1>3. CASE machines' # machines
  <2>1. PICK s \in Slots : HandleRequest(s)
    BY <1>1, <1>3
    DEF ServerStep, HandlerStep, HandleFrame, RemoteStep, HandleEcho, HandlePause, HandleResume,
        HandleUnknownSignal, HandleTick, HandleClose, HandleCompleted, TickInput, TickRefuse,
        SignalAnswer, CloseReturns, Reply, Release, ShutdownSlot, HandleReturns, ReadFails,
        RemoteOutput, RemoteAsks, RemoteHears, RemoteConnects, RemoteGreets, RemoteLeaves,
        RemoteSignalsClose, RemoteEnds, RemoteWrites, machineVars
  <2>2. Reads("stream") /\ (Boot(s) \/ UNCHANGED machineVars)
    BY <2>1 DEF HandleRequest
  <2>3. machines + 1 \in Sessions /\ machines' = machines + 1
    BY <1>3, <2>2 DEF Boot, machineVars
  <2>4. Incoming \in Range(toServer) /\ Incoming.type = "stream"
    BY <2>2, ReadSent DEF BrowserInv
  <2> QED
    BY <1>1, <1>3, <2>1, <2>3, <2>4 DEF BrowserInv, Numbered
<1> QED
  BY <1>2, <1>3

LEMMA ServerReadsOrNot ==
  ASSUME BrowserInv, ServerStep
  PROVE  toServer' = toServer \/ Range(toServer') \subseteq Range(toServer)
<1>1. ASSUME NEW type, Reads(type)
      PROVE  Range(toServer') \subseteq Range(toServer)
  BY <1>1, ReadSent DEF BrowserInv
<1>2. CASE HandleFrame
  BY <1>1, <1>2
  DEF HandleFrame, HandleEcho, HandlePause, HandleResume, HandleUnknownSignal, HandleTick,
      HandleRequest, HandleClose, HandleCompleted
<1>3. CASE ~HandleFrame
  BY <1>3
  DEF ServerStep, HandlerStep, RemoteStep, TickInput, TickRefuse, SignalAnswer, CloseReturns,
      Reply, Release, ShutdownSlot, HandleReturns, ReadFails, RemoteOutput, RemoteAsks,
      RemoteHears, RemoteConnects, RemoteGreets, RemoteLeaves, RemoteSignalsClose, RemoteEnds,
      RemoteWrites, wireVars
<1> QED
  BY <1>2, <1>3

LEMMA ServerKeepsBrowser ==
  ASSUME IInv, BrowserInv, ServerDoes(ServerStep)
  PROVE  BrowserInv'
<1> USE DEF clientVars
<1>1. ServerStep /\ UNCHANGED clientVars
  BY DEF ServerDoes
<1>2. WireTypeOK'
  BY <1>1, HandlerKeepsFrames, RemoteKeepsFrames DEF ServerStep, BrowserInv
<1>3. \/ UNCHANGED <<serves, machines>>
      \/ /\ machines + 1 \in Sessions /\ machines' = machines + 1
         /\ serves' = [serves EXCEPT ![machines + 1] = Incoming.sess]
         /\ Incoming.sess \in 1 .. sessions
  BY ServesFacts
<1>4. ClientTypeOK'
  <2>1. sessions \in 0 .. MaxSession
    BY DEF BrowserInv, ClientTypeOK
  <2>2. serves' \in [Sessions -> 0 .. MaxSession]
    BY <1>3, <2>1, WireAssumption DEF BrowserInv, ClientTypeOK
  <2> QED
    BY <1>1, <2>2 DEF BrowserInv, ClientTypeOK
<1>5. Numbered'
  <2>1. ASSUME NEW k \in Sessions, k <= machines'
        PROVE  serves'[k] \in 1 .. sessions
    <3>1. CASE k <= machines /\ k # machines + 1
      BY <1>3, <3>1 DEF BrowserInv, ClientTypeOK, Numbered
    <3>2. CASE ~(k <= machines /\ k # machines + 1)
      <4>1. k \in Nat /\ machines \in Nat
        BY SlotsFacts, MachinesFacts
      <4>2. k = machines + 1 /\ machines' = machines + 1
        BY <1>3, <2>1, <3>2, <4>1
      <4> QED
        BY <1>3, <4>1, <4>2 DEF BrowserInv, ClientTypeOK
    <3> QED
      BY <3>1, <3>2
  <2>2. \A g \in Range(toServer') : g.type # "control" => g.sess \in 1 .. sessions
    BY <1>1, ServerReadsOrNot DEF BrowserInv, Numbered
  <2> QED
    BY <1>1, <2>1, <2>2 DEF BrowserInv, Numbered, Running
<1>6. Held'
  BY <1>1 DEF BrowserInv, Held, NoRequest, Running
<1> QED
  BY <1>2, <1>4, <1>5, <1>6 DEF BrowserInv

---------------------------------------------------------------------------
(* What the server does while the connection is up: what is the same for    *)
(* all of its steps.                                                        *)

\* The browser stands still, what ends goes on ending, the history of machines grows, and
\* no machine comes into a slot that the browser's COMPLETED is on its way to.
ServerMoves ==
  /\ UNCHANGED clientVars
  /\ Ending => Ending'
  /\ pc' = "reply" => why' = "close"
  /\ machines' \in Nat /\ machines <= machines'
  /\ \A k \in 1 .. machines : serves'[k] = serves[k]
  /\ \A s \in Slots : \/ fsmMachine'[s] \in {fsmMachine[s], NoSession}
                      \/ ~IsSent(s, {"completed"})

LEMMA BrowserStands ==
  ASSUME UNCHANGED clientVars
  PROVE  /\ cpc' = cpc /\ command' = command
         /\ \A s : /\ SameInBrowser(s)
                   /\ Running(s)' <=> Running(s)
                   /\ Opening(s)' <=> Opening(s)
                   /\ ShuttingDown(s)' <=> ShuttingDown(s)
                   /\ SenderClosed(s)' <=> SenderClosed(s)
                   /\ IsConnected(s)' <=> IsConnected(s)
                   /\ Completing(s)' <=> Completing(s)
<1>1. \A s : SameInBrowser(s)
  BY DEF clientVars, SameInBrowser, Completing
<1> QED
  BY <1>1, BrowserAtoms DEF clientVars

LEMMA ServerKeepsLink ==
  ASSUME LinkInv, ServerMoves,
         \A t \in Slots : SlotInv(t)' \/ (SameAtServer(t) /\ SameUnderWay(t)),
         FramesInv', InOrder(toClient, ComingOrder)', ~Ending => InOrder(toServer, SentOrder)'
  PROVE  LinkInv'
<1>1. \A t \in Slots : SlotInv(t)'
  <2> SUFFICES ASSUME NEW t \in Slots, SameAtServer(t) /\ SameUnderWay(t)
               PROVE  SlotInv(t)'
    OBVIOUS
  <2> QED
    BY BrowserStands, UntouchedSlot DEF LinkInv, ServerMoves
<1> QED
  BY <1>1, BrowserStands DEF LinkInv, ServerMoves

\* The frames under way are still right when the server has moved.
LEMMA FramesRemain ==
  ASSUME IInv, BrowserInv, LinkInv, ServerMoves
  PROVE  /\ \A g \in Range(toServer) : SentFrame(g)'
         /\ \A g \in Range(toClient) : ComingFrame(g)'
<1>1. Range(toServer) \subseteq Frames /\ Range(toClient) \subseteq Frames
  BY DEF BrowserInv, WireTypeOK, Range
<1>2. command' = command /\ (Ending => Ending')
  BY BrowserStands DEF ServerMoves
<1>3. ASSUME NEW g \in Range(toServer)
      PROVE  SentFrame(g)'
  <2>1. SentFrame(g) /\ g.slot \in Slots
    BY <1>1 DEF LinkInv, FramesInv, Frames
  <2>2. ASSUME Kind(g) = "completed", ~Vacant(g.slot)'
        PROVE  /\ ~Vacant(g.slot)
               /\ serves'[fsmMachine'[g.slot]] = serves[fsmMachine[g.slot]]
    <3>1. IsOf(g, g.slot)
      BY <2>2 DEF IsOf, Kind
    <3>2. IsSent(g.slot, {"completed"})
      BY <2>2, <3>1 DEF IsSent, Has
    <3>3. fsmMachine'[g.slot] = fsmMachine[g.slot] /\ ~Vacant(g.slot)
      BY <2>1, <2>2, <3>2 DEF ServerMoves, Vacant
    <3>4. fsmMachine[g.slot] \in 1 .. machines
      BY <2>1, <3>3, MachinesFacts DEF IInv, Housed, Vacant
    <3> QED
      BY <3>3, <3>4 DEF ServerMoves
  <2> QED
    BY <1>2, <2>1, <2>2 DEF SentFrame
<1>4. ASSUME NEW g \in Range(toClient)
      PROVE  ComingFrame(g)'
  <2>1. ComingFrame(g) /\ machines \in Nat
    BY MachinesFacts DEF LinkInv, FramesInv
  <2>2. ASSUME g.sess \in 0 .. machines
        PROVE  /\ g.sess \in 0 .. machines'
               /\ g.sess # NoSession => serves'[g.sess] = serves[g.sess]
    BY <2>1, <2>2 DEF ServerMoves, NoSession
  <2> QED
    BY <1>2, <2>1, <2>2 DEF ComingFrame
<1> QED
  BY <1>3, <1>4

\* Nothing is read or written.
LEMMA InsideKeepsLink ==
  ASSUME IInv, BrowserInv, LinkInv, ServerMoves, UNCHANGED <<toServer, toClient>>,
         \A t \in Slots : SlotInv(t)' \/ SameAtServer(t)
  PROVE  LinkInv'
<1>1. \A t : SameUnderWay(t)
  BY DEF SameUnderWay, IsSent, IsComing, Has
<1>2. FramesInv'
  BY FramesRemain DEF FramesInv
<1>3. InOrder(toClient, ComingOrder)' /\ (~Ending => InOrder(toServer, SentOrder)')
  BY DEF LinkInv, InOrder, ComingOrder, SentOrder
<1> QED
  BY <1>1, <1>2, <1>3, ServerKeepsLink
\* One frame of slot s is written to the browser.
LEMMA WriteKeepsLink ==
  ASSUME IInv, BrowserInv, LinkInv, ServerMoves, up, NEW f \in Frames, WriteToClient(f),
         toServer' = toServer, NEW s \in Slots,
         \A t \in Slots \ {s} : SameAtServer(t) /\ ~IsOf(f, t),
         SlotInv(s)', ComingFrame(f)',
         \A g \in Range(toClient) : SameStream(g, f) => MayComeAfter(g, f)
  PROVE  LinkInv'
<1>1. /\ Range(toClient') = Range(toClient) \cup {f}
      /\ \A t, kinds : IsComing(t, kinds)'
                         <=> IsComing(t, kinds) \/ (IsOf(f, t) /\ Kind(f) \in kinds)
      /\ InOrder(toClient, ComingOrder)
           /\ (\A g \in Range(toClient) : <<g, f>> \in ComingOrder)
           => InOrder(toClient, ComingOrder)'
  BY ComeFrame DEF BrowserInv
<1>2. \A t \in Slots \ {s} : SameUnderWay(t)
  BY <1>1 DEF SameUnderWay, IsSent, Has
<1>3. FramesInv'
  BY <1>1, FramesRemain DEF FramesInv
<1>4. InOrder(toClient, ComingOrder)'
  <2>1. Range(toClient) \subseteq Frames
    BY DEF BrowserInv, WireTypeOK, Range
  <2>2. \A g \in Range(toClient) : <<g, f>> \in ComingOrder
    BY <2>1 DEF ComingOrder
  <2> QED
    BY <1>1, <2>2 DEF LinkInv
<1>5. ~Ending => InOrder(toServer, SentOrder)'
  BY DEF LinkInv, InOrder, SentOrder
<1> QED
  BY <1>2, <1>3, <1>4, <1>5, ServerKeepsLink

LEMMA ComingAtoms ==
  ASSUME BrowserInv, up, NEW f \in Frames, WriteToClient(f), toServer' = toServer, NEW s
  PROVE  /\ \A kinds : IsSent(s, kinds)' <=> IsSent(s, kinds)
         /\ \A kinds : Kind(f) \in kinds /\ IsOf(f, s) => IsComing(s, kinds)'
         /\ \A kinds : Kind(f) \notin kinds => (IsComing(s, kinds)' <=> IsComing(s, kinds))
         /\ ~Quiet(s)' => ~Quiet(s) \/ IsOf(f, s)
<1>1. \A kinds : IsComing(s, kinds)' <=> IsComing(s, kinds) \/ (IsOf(f, s) /\ Kind(f) \in kinds)
  BY ComeFrame DEF BrowserInv
<1>2. \A kinds : IsSent(s, kinds)' <=> IsSent(s, kinds)
  BY DEF IsSent, Has
<1> QED
  BY <1>1, <1>2 DEF Quiet

\* One frame of slot s is read.
LEMMA IncomingFacts ==
  ASSUME IInv, BrowserInv, LinkInv, NEW type, Reads(type), type # "control"
  PROVE  /\ Incoming \in Frames /\ Incoming.slot \in Slots
         /\ IsOf(Incoming, Incoming.slot) /\ \A t : t # Incoming.slot => ~IsOf(Incoming, t)
         /\ Kind(Incoming) = IF type = "stream" THEN Incoming.body ELSE type
         /\ type = "stream" => Kind(Incoming) \in Messages \cup {"request"}
         /\ SentFrame(Incoming)
         /\ IsSent(Incoming.slot, {Kind(Incoming)})
         /\ Kind(Incoming) \in Messages => IsSent(Incoming.slot, Messages)
         /\ Kind(Incoming) # "completed" => Incoming.sess = command[Incoming.slot]
         /\ ~Ending /\ \A t : ~Answering(t) /\ ~ServesClose(t) /\ ~ServesCompleted(t)
<1>1. /\ Incoming \in Frames /\ Incoming \in Range(toServer) /\ Incoming.type = type
  BY ReadSent DEF BrowserInv
<1>2. /\ SentFrame(Incoming) /\ Incoming.slot \in Slots
  BY <1>1 DEF LinkInv, FramesInv, Frames
<1>3. ~Ending /\ \A t : ~Answering(t) /\ ~ServesClose(t) /\ ~ServesCompleted(t)
  BY DEF Reads, Ending, Answering, ServesClose, ServesCompleted
<1>4. IsOf(Incoming, Incoming.slot) /\ \A t : t # Incoming.slot => ~IsOf(Incoming, t)
  BY <1>1 DEF IsOf
<1>5. /\ Kind(Incoming) = IF type = "stream" THEN Incoming.body ELSE type
      /\ Kind(Incoming) \in Messages \cup {"request", "close", "completed"}
      /\ Kind(Incoming) # "completed" => Incoming.sess = command[Incoming.slot]
  BY <1>1, <1>2, <1>3 DEF SentFrame, Control, Kind
<1>6. /\ IsSent(Incoming.slot, {Kind(Incoming)})
      /\ Kind(Incoming) \in Messages => IsSent(Incoming.slot, Messages)
  BY <1>1, <1>4 DEF IsSent, Has
<1>7. type = "stream" => Kind(Incoming) \notin {"close", "completed"}
  <2>1. Incoming.body \in Bodies
    BY <1>1 DEF Frames
  <2> QED
    BY <1>5, <2>1
    DEF Bodies, ControlBodies, RequestBodies, MessageBodies, AnswerBodies, OutputBodies
<1> QED
  BY <1>1, <1>2, <1>3, <1>4, <1>5, <1>6, <1>7

LEMMA ServerReadKeepsLink ==
  ASSUME IInv, BrowserInv, LinkInv, ServerMoves, NEW type, Reads(type), type # "control",
         toClient' = toClient, NEW s \in Slots, s = Incoming.slot,
         \A t \in Slots \ {s} : SameAtServer(t),
         SlotInv(s)'
  PROVE  LinkInv'
<1>1. /\ Range(toServer') \subseteq Range(toServer)
      /\ \A t, kinds : ~(IsOf(Incoming, t) /\ Kind(Incoming) \in kinds)
                         => (IsSent(t, kinds)' <=> IsSent(t, kinds))
      /\ InOrder(toServer, SentOrder) => InOrder(toServer, SentOrder)'
  BY ReadSent DEF BrowserInv
<1>2. \A t \in Slots \ {s} : SameUnderWay(t)
  BY <1>1, IncomingFacts DEF SameUnderWay, IsComing, Has
<1>3. FramesInv'
  BY <1>1, FramesRemain DEF FramesInv
<1>4. InOrder(toClient, ComingOrder)'
  BY DEF LinkInv, InOrder, ComingOrder
<1>5. ~Ending => InOrder(toServer, SentOrder)'
  BY <1>1 DEF LinkInv
<1> QED
  BY <1>2, <1>3, <1>4, <1>5, ServerKeepsLink

\* What the frame that is read leaves behind it in its slot.
LEMMA BehindIncoming ==
  ASSUME IInv, BrowserInv, LinkInv, NEW type, Reads(type), type # "control",
         NEW s \in Slots, s = Incoming.slot
  PROVE  /\ Kind(Incoming) \in {"request", "close"}
              => ~IsSent(s, {"request"})' /\ ~IsSent(s, Messages)'
         /\ Kind(Incoming) = "close" => ~IsSent(s, {"close"})'
         /\ Kind(Incoming) = "completed" => ~IsSent(s, {"completed"})'
         /\ \A g \in Range(toServer') :
              IsOf(g, s) => /\ Kind(g) = "completed" => g.sess = Incoming.sess
                            /\ Kind(Incoming) = "completed" => g.sess # Incoming.sess
<1>1. /\ Range(toServer') \subseteq Range(toServer)
      /\ \A g \in Range(toServer') : SameStream(Incoming, g) => MayBeSentAfter(Incoming, g)
      /\ Incoming.type # "control"
  BY ReadSent DEF BrowserInv, LinkInv, Reads, Ending
<1>2. \A g \in Range(toServer') : IsOf(g, s) => MayBeSentAfter(Incoming, g)
  BY <1>1 DEF SameStream, IsOf
<1>3. \A g \in Range(toServer') : g.type \in {"control", "stream", "close", "completed"}
  <2>1. Range(toServer) \subseteq Frames
    BY DEF BrowserInv, WireTypeOK, Range
  <2> QED
    BY <1>1, <2>1 DEF Frames, Types
<1>4. \A kinds : IsSent(s, kinds)' => \E g \in Range(toServer') : IsOf(g, s) /\ Kind(g) \in kinds
  BY DEF IsSent, Has
<1>5. ASSUME Kind(Incoming) \in {"request", "close"}
      PROVE  ~IsSent(s, {"request"})' /\ ~IsSent(s, Messages)'
  BY <1>2, <1>3, <1>4, <1>5 DEF MayBeSentAfter, Kind, Messages
<1>6. Kind(Incoming) = "close" => ~IsSent(s, {"close"})'
  BY <1>2, <1>3, <1>4 DEF MayBeSentAfter, Kind
<1>7. Kind(Incoming) = "completed" => ~IsSent(s, {"completed"})'
  BY <1>2, <1>4 DEF MayBeSentAfter
<1>8. \A g \in Range(toServer') :
        IsOf(g, s) => /\ Kind(g) = "completed" => g.sess = Incoming.sess
                      /\ Kind(Incoming) = "completed" => g.sess # Incoming.sess
  BY <1>2 DEF MayBeSentAfter
<1> QED
  BY <1>5, <1>6, <1>7, <1>8

LEMMA IncomingAtoms ==
  ASSUME BrowserInv, NEW type, Reads(type), toClient' = toClient, NEW s
  PROVE  /\ \A kinds : IsComing(s, kinds)' <=> IsComing(s, kinds)
         /\ Quiet(s)' <=> Quiet(s)
         /\ \A kinds : IsSent(s, kinds)' => IsSent(s, kinds)
         /\ \A kinds : Kind(Incoming) \notin kinds => (IsSent(s, kinds)' <=> IsSent(s, kinds))
<1>1. \A kinds : IsComing(s, kinds)' <=> IsComing(s, kinds)
  BY DEF IsComing, Has
<1>2. /\ \A kinds : IsSent(s, kinds)' => IsSent(s, kinds)
      /\ \A kinds : Kind(Incoming) \notin kinds => (IsSent(s, kinds)' <=> IsSent(s, kinds))
  BY ReadSent DEF BrowserInv
<1> QED
  BY <1>1, <1>2 DEF Quiet
---------------------------------------------------------------------------
(* The handler goroutine, step by step.                                     *)

\* The slot of a request or CLOSE that is read next has not outlived anything: the COMPLETED
\* that would still be on its way is for the session before, and was written before it.
LEMMA NextIsOfNow ==
  ASSUME IInv, BrowserInv, LinkInv, pc = "read", toServer # <<>>, Incoming.type # "control",
         NEW s \in Slots, s = Incoming.slot, Kind(Incoming) # "completed"
  PROVE  ~Outlived(s)
<1>1. SUFFICES ASSUME Outlived(s)
               PROVE  FALSE
  OBVIOUS
<1>2. SlotInv(s) /\ ~Ending /\ ~ServesCompleted(s)
  BY DEF LinkInv, Ending, ServesCompleted
<1>3. /\ Range(toServer) = {Incoming} \cup Range(Tail(toServer))
      /\ \A g \in Range(Tail(toServer)) : <<Incoming, g>> \in SentOrder
  BY <1>2, TailFrames DEF BrowserInv, WireTypeOK, LinkInv, Incoming
<1>4. IsSent(s, {"completed"})
  BY <1>1, <1>2 DEF SlotInv, OutlivedInv
<1>5. PICK g \in Range(toServer) : IsOf(g, s) /\ Kind(g) = "completed"
  BY <1>4 DEF IsSent, Has
<1>6. SentFrame(g) /\ SentFrame(Incoming)
  BY <1>3 DEF LinkInv, FramesInv
<1>7. g.sess = serves[fsmMachine[s]]
  BY <1>1, <1>5, <1>6 DEF SentFrame, IsOf, Outlived, Control
<1>8. g.sess = Incoming.sess
  <2>1. g \in Range(Tail(toServer))
    BY <1>3, <1>5
  <2>2. SameStream(Incoming, g) => MayBeSentAfter(Incoming, g)
    BY <1>3, <2>1 DEF SentOrder
  <2> QED
    BY <1>5, <2>2 DEF SameStream, IsOf, MayBeSentAfter
<1>9. Incoming.sess = command[s]
  BY <1>2, <1>6 DEF SentFrame, Control
<1> QED
  BY <1>1, <1>7, <1>8, <1>9 DEF Outlived

LEMMA IncomingIsOfNow ==
  ASSUME IInv, BrowserInv, LinkInv, NEW type, Reads(type), type # "control",
         NEW s \in Slots, s = Incoming.slot, Kind(Incoming) # "completed"
  PROVE  ~Outlived(s)
BY NextIsOfNow DEF Reads

\* Where nothing changes but the handler's own place, and that is between two frames.
LEMMA PlaceMoves ==
  ASSUME IInv, LinkInv, UNCHANGED <<clientVars, slotVars, machines, remote, conn, serves>>,
         pc \in {"read", "tick"}, pc' \in {"read", "tick", "shutdown"}
  PROVE  ServerMoves /\ \A s : SameAtServer(s)
<1>1. ServerMoves
  BY MachinesFacts DEF ServerMoves, Ending, slotVars
<1>2. \A s : SameAtServer(s)
  BY DEF SameAtServer, Answering, ServesClose, ServesCompleted, slotVars
<1> QED
  BY <1>1, <1>2

LEMMA ControlServedKeepsLink ==
  ASSUME IInv, BrowserInv, LinkInv, up, UNCHANGED <<clientVars, serves>>,
         HandleEcho \/ HandlePause \/ HandleResume \/ HandleUnknownSignal
  PROVE  LinkInv'
<1>1. /\ Reads("control") /\ pc = "read" /\ pc' \in {"read", "shutdown"}
      /\ UNCHANGED <<slotVars, machineVars>>
      /\ toClient' = toClient \/ WriteToClient(Control("echo"))
  BY DEF HandleEcho, HandlePause, HandleResume, HandleUnknownSignal, EndConnection, Goto, Reads,
         handlerVars
<1>2. ServerMoves /\ \A s : SameAtServer(s)
  BY <1>1, PlaceMoves DEF machineVars
<1>3. /\ Range(toServer') \subseteq Range(toServer)
      /\ \A t, kinds : ~IsOf(Incoming, t) => (IsSent(t, kinds)' <=> IsSent(t, kinds))
      /\ InOrder(toServer, SentOrder) => InOrder(toServer, SentOrder)'
      /\ Incoming.type = "control"
  BY <1>1, ReadSent DEF BrowserInv
<1>4. \A t, kinds : IsSent(t, kinds)' <=> IsSent(t, kinds)
  BY <1>3 DEF IsOf
<1>5. /\ \A t, kinds : IsComing(t, kinds)' <=> IsComing(t, kinds)
      /\ \A g \in Range(toClient') : ComingFrame(g)'
      /\ InOrder(toClient, ComingOrder)'
  <2>1. CASE toClient' = toClient
    BY <1>2, <2>1, FramesRemain DEF LinkInv, IsComing, Has, InOrder, ComingOrder
  <2>2. CASE WriteToClient(Control("echo"))
    <3>1. PICK f \in Frames : f = Control("echo") /\ f.type = "control"
      <4>1. NoSession \in 0 .. MaxSession /\ 0 \in Slots /\ "echo" \in Bodies
        BY NoRequestFact DEF Bodies, ControlBodies
      <4> QED
        BY <4>1, FramesAreFrames
    <3>2. /\ Range(toClient') = Range(toClient) \cup {f}
          /\ \A t, kinds : IsComing(t, kinds)'
                             <=> IsComing(t, kinds) \/ (IsOf(f, t) /\ Kind(f) \in kinds)
          /\ InOrder(toClient, ComingOrder)
               /\ (\A g \in Range(toClient) : <<g, f>> \in ComingOrder)
               => InOrder(toClient, ComingOrder)'
      BY <2>2, <3>1, ComeFrame DEF BrowserInv
    <3>3. \A g \in Range(toClient) : <<g, f>> \in ComingOrder
      <4>1. Range(toClient) \subseteq Frames
        BY DEF BrowserInv, WireTypeOK, Range
      <4> QED
        BY <3>1, <4>1 DEF ComingOrder, SameStream
    <3>4. ComingFrame(f)'
      BY <3>1 DEF ComingFrame
    <3> QED
      BY <1>2, <3>1, <3>2, <3>3, <3>4, FramesRemain DEF LinkInv, IsOf
  <2> QED
    BY <1>1, <2>1, <2>2
<1>6. \A t : SameUnderWay(t)
  BY <1>4, <1>5 DEF SameUnderWay
<1>7. FramesInv'
  BY <1>2, <1>3, <1>5, FramesRemain DEF FramesInv
<1>8. ~Ending => InOrder(toServer, SentOrder)'
  BY <1>3 DEF LinkInv
<1> QED
  BY <1>2, <1>5, <1>6, <1>7, <1>8, ServerKeepsLink

\* A message to a command that has not been closed.
LEMMA TickKeepsLink ==
  ASSUME IInv, BrowserInv, LinkInv, UNCHANGED <<clientVars, serves>>,
         NEW s \in Slots, HandleTick(s)
  PROVE  LinkInv'
<1>1. /\ Reads("stream") /\ s = Incoming.slot /\ toClient' = toClient
      /\ pc = "read" /\ pc' \in {"read", "tick", "shutdown"}
      /\ UNCHANGED <<slotVars, machines, remote, conn>>
  BY TickEffects DEF HandleTick, handlerVars, EndConnection, Goto
<1>2. ServerMoves /\ \A t : SameAtServer(t)
  BY <1>1, PlaceMoves
<1>3. /\ SlotInv(s) /\ fsmRunning[s] /\ ~Ending
      /\ Kind(Incoming) \in Messages \cup {"request"}
  BY <1>1, IncomingFacts DEF LinkInv, HandleTick
<1>4. Kind(Incoming) # "request"
  <2>1. SUFFICES ASSUME Kind(Incoming) = "request"
                 PROVE  FALSE
    OBVIOUS
  <2>2. ~Outlived(s) /\ IsSent(s, {"request"})
    BY <1>1, <2>1, IncomingIsOfNow, IncomingFacts
  <2>3. Vacant(s)
    BY <1>3, <2>2 DEF SlotInv, OpenInv, Outlived, Current
  <2> QED
    BY <1>3, <2>3 DEF IInv, SlotsInStep, Vacant
<1>5. /\ \A kinds : IsComing(s, kinds)' <=> IsComing(s, kinds)
      /\ Quiet(s)' <=> Quiet(s)
      /\ IsSent(s, Messages)' => IsSent(s, Messages)
      /\ IsSent(s, {"request"})' <=> IsSent(s, {"request"})
      /\ IsSent(s, {"close"})' <=> IsSent(s, {"close"})
      /\ IsSent(s, {"completed"})' <=> IsSent(s, {"completed"})
  BY <1>1, <1>3, <1>4, IncomingAtoms DEF Messages
<1>6. SlotInv(s)'
  <2> USE <1>2, <1>3, <1>5, BrowserStands, ServerAtoms DEF ServerMoves
  <2>1. OpenInv(s)' /\ UseInv(s)'
    BY DEF SlotInv, OpenInv, UseInv
  <2>2. CloseInv(s)' /\ EndInv(s)'
    BY DEF SlotInv, CloseInv, EndInv, Outlived, Vacant, Current
  <2>3. OutlivedInv(s)' /\ TalkInv(s)'
    BY DEF SlotInv, OutlivedInv, TalkInv, Outlived, Vacant, Current
  <2> QED
    BY <2>1, <2>2, <2>3 DEF SlotInv
<1> QED
  BY <1>1, <1>2, <1>6, ServerReadKeepsLink

LEMMA GetRemoteKeepsLink ==
  ASSUME IInv, BrowserInv, LinkInv, UNCHANGED <<clientVars, serves>>, TickInput \/ TickRefuse
  PROVE  LinkInv'
<1>1. /\ pc = "tick" /\ pc' \in {"read", "shutdown"}
      /\ UNCHANGED <<toServer, toClient, slotVars, machines, remote, conn>>
  BY DEF TickInput, TickRefuse, NextFrame, EndConnection, Goto, wireVars
<1> QED
  BY <1>1, PlaceMoves, InsideKeepsLink
\* What a request finds: a slot that is opening, with nothing else in it at either end.
LEMMA RequestFinds ==
  ASSUME IInv, BrowserInv, LinkInv, NEW s \in Slots, HandleRequest(s)
  PROVE  /\ Reads("stream") /\ s = Incoming.slot /\ toClient' = toClient
         /\ pc' = "signal" /\ cur' = s
         /\ \/ why' = "ok" /\ Boot(s)
            \/ why' = "failed" /\ UNCHANGED <<slotVars, machineVars>>
         /\ SlotInv(s) /\ Opening(s) /\ Running(s) /\ Quiet(s) /\ ~Completing(s) /\ Vacant(s)
         /\ Incoming.sess = command[s]
         /\ ~IsSent(s, {"request"})' /\ ~IsSent(s, Messages)' /\ ~IsSent(s, {"completed"})
<1>1. /\ Reads("stream") /\ s = Incoming.slot /\ toClient' = toClient /\ ~fsmRunning[s]
      /\ pc' = "signal" /\ cur' = s
      /\ \E answer \in {"ok", "failed"} :
           /\ why' = answer
           /\ IF answer = "ok" THEN Boot(s) ELSE UNCHANGED <<slotVars, machineVars>>
  BY DEF HandleRequest, Goto, MeaningsOfRequest
<1>2. SlotInv(s) /\ ~Ending /\ ~ServesCompleted(s)
  BY <1>1, IncomingFacts DEF LinkInv
<1>3. Kind(Incoming) = "request"
  BY <1>1, <1>2, IncomingFacts DEF SlotInv, UseInv
<1>4. IsSent(s, {"request"}) /\ Incoming.sess = command[s] /\ ~Outlived(s)
  BY <1>1, <1>3, IncomingFacts, IncomingIsOfNow
<1>5. Opening(s) /\ Quiet(s) /\ Vacant(s)
  BY <1>2, <1>4 DEF SlotInv, OpenInv, Outlived, Current
<1>6. ~Completing(s) /\ ~IsSent(s, {"completed"})
  BY <1>2, <1>5 DEF SlotInv, EndInv
<1>7. ~IsSent(s, {"request"})' /\ ~IsSent(s, Messages)'
  BY <1>1, <1>3, BehindIncoming
<1> QED
  BY <1>1, <1>2, <1>4, <1>5, <1>6, <1>7 DEF Opening

LEMMA RequestServedKeepsLink ==
  ASSUME IInv, BrowserInv, LinkInv, NEW s \in Slots, HandleRequest(s), UNCHANGED clientVars,
         serves' = IF machines' = machines THEN serves
                                           ELSE [serves EXCEPT ![machines'] = Incoming.sess]
  PROVE  LinkInv'
<1>1. /\ Reads("stream") /\ s = Incoming.slot /\ toClient' = toClient /\ pc = "read"
      /\ pc' = "signal" /\ cur' = s
      /\ \/ why' = "ok" /\ Boot(s)
         \/ why' = "failed" /\ UNCHANGED <<slotVars, machineVars>>
      /\ SlotInv(s) /\ Opening(s) /\ Running(s) /\ Quiet(s) /\ ~Completing(s) /\ Vacant(s)
      /\ Incoming.sess = command[s]
      /\ ~IsSent(s, {"request"})' /\ ~IsSent(s, Messages)' /\ ~IsSent(s, {"completed"})
  BY RequestFinds DEF Reads
<1>2. /\ machines \in Nat /\ machines' \in Nat /\ machines <= machines'
      /\ \A k \in 1 .. machines : serves'[k] = serves[k]
      /\ ~Ending
  BY <1>1, MachinesFacts DEF Boot, machineVars, BrowserInv, ClientTypeOK, Sessions, Ending
<1>3. ASSUME NEW t \in Slots \ {s}
      PROVE  SameAtServer(t) /\ fsmMachine'[t] = fsmMachine[t]
  <2>1. /\ UNCHANGED <<conn>>
        /\ fsmMachine'[t] = fsmMachine[t] /\ fsmRunning'[t] = fsmRunning[t]
        /\ fsmClosed'[t] = fsmClosed[t]
        /\ \A k \in Sessions : k # machines + 1 => remote'[k] = remote[k]
    BY <1>1 DEF Boot, slotVars, machineVars, IInv, ServerTypeOK
  <2>2. ~Vacant(t) => fsmMachine[t] \in 1 .. machines /\ fsmMachine[t] \in Sessions
    BY MachinesFacts DEF IInv, Housed, Vacant
  <2> QED
    BY <1>1, <1>2, <2>1, <2>2 DEF SameAtServer, Answering, ServesClose, ServesCompleted
<1>4. ServerMoves
  BY <1>1, <1>2, <1>3 DEF ServerMoves
<1>5. /\ Answering(s)' /\ ~ServesClose(s)' /\ ~ServesCompleted(s)'
      /\ IF why' = "ok" THEN Current(s)' ELSE Vacant(s)'
      /\ Current(s)' => ~HasClosed(s)' /\ (fsmRunning[s])' /\ ~(fsmClosed[s])'
                        /\ (remote[fsmMachine[s]])' = "dialing"
      /\ ~Outlived(s)' /\ (Vacant(s)' \/ Current(s)')
  <2>1. Answering(s)' /\ ~ServesClose(s)' /\ ~ServesCompleted(s)'
    BY <1>1 DEF Answering, ServesClose, ServesCompleted
  <2>2. CASE why' = "ok" /\ Boot(s)
    <3>1. PICK k \in Sessions : k = machines + 1
      BY <2>2 DEF Boot
    <3>2. /\ machines' = k /\ serves'[k] = command[s] /\ fsmMachine'[s] = k
          /\ remote'[k] = "dialing" /\ fsmRunning'[s] /\ ~fsmClosed'[s]
          /\ command' = command
      BY <1>1, <1>2, <2>2, <3>1, BrowserStands
      DEF Boot, BrowserInv, ClientTypeOK, IInv, ServerTypeOK
    <3>3. k # NoSession
      BY SlotsFacts
    <3> QED
      BY <2>1, <2>2, <3>2, <3>3 DEF Current, Vacant, Outlived, HasClosed
  <2>3. CASE why' = "failed" /\ UNCHANGED <<slotVars, machineVars>>
    <3>1. Vacant(s)'
      BY <1>1, <2>3 DEF slotVars, Vacant
    <3> QED
      BY <2>1, <2>3, <3>1 DEF Current, Vacant, Outlived
  <2> QED
    BY <1>1, <2>2, <2>3
<1>6. /\ \A kinds : IsComing(s, kinds)' <=> IsComing(s, kinds)
      /\ Quiet(s)'
      /\ IsSent(s, {"close"})' => IsSent(s, {"close"})
      /\ ~IsSent(s, {"completed"})'
  BY <1>1, IncomingAtoms
<1>7. SlotInv(s)'
  <2>1. /\ ~IsComing(s, {"completed"}) /\ ~IsComing(s, {"close"})
        /\ ~IsComing(s, AnswerBodies) /\ ~IsComing(s, {"ok"}) /\ ~IsComing(s, {"failed"})
        /\ ~IsComing(s, {"connected", "output"}) /\ ~IsComing(s, {"output"})
        /\ ~IsComing(s, Early \cup {"connected"}) /\ ~IsComing(s, {"connected"})
    BY <1>1, HasKinds DEF Quiet, IsComing
  <2> USE <1>1, <1>2, <1>4, <1>5, <1>6, <2>1, BrowserStands DEF ServerMoves
  <2>2. OpenInv(s)' /\ UseInv(s)'
    BY DEF SlotInv, OpenInv, UseInv
  <2>3. CloseInv(s)' /\ EndInv(s)'
    BY DEF SlotInv, CloseInv, EndInv
  <2>4. OutlivedInv(s)' /\ TalkInv(s)'
    BY DEF SlotInv, OpenInv, OutlivedInv, TalkInv
  <2> QED
    BY <2>2, <2>3, <2>4 DEF SlotInv
<1> QED
  BY <1>1, <1>3, <1>4, <1>7, ServerReadKeepsLink

\* The answer to a request: nothing was written to the slot before it, unless by a machine
\* that may write early.
LEMMA AnswerKeepsLink ==
  ASSUME IInv, BrowserInv, LinkInv, up, SignalAnswer, UNCHANGED <<clientVars, serves>>
  PROVE  LinkInv'
<1>1. PICK s \in Slots : s = cur
  BY DEF SignalAnswer, IInv, HandlerAt
<1>2. /\ pc = "signal" /\ pc' = "read" /\ why \in {"ok", "failed"} /\ Answering(s)
      /\ UNCHANGED <<toServer, up, slotVars, machineVars>>
      /\ WriteToClient(Stream(s, why, IF why = "ok" THEN fsmMachine[s] ELSE NoSession))
  BY <1>1 DEF SignalAnswer, Answering, IInv, HandlerAt, NextFrame, Goto
<1>3. /\ SlotInv(s) /\ Opening(s) /\ Running(s)
      /\ Quiet(s) \/ (EarlyFrames /\ why = "ok")
      /\ ~IsComing(s, AnswerBodies) /\ ~IsComing(s, {"completed"})
      /\ IF why = "ok" THEN Current(s) ELSE Vacant(s)
  BY <1>2 DEF LinkInv, SlotInv, OpenInv, Opening
<1>4. PICK f \in Frames : /\ WriteToClient(f) /\ f.slot = s /\ f.type = "stream"
                          /\ Kind(f) = why
                          /\ f.sess = IF why = "ok" THEN fsmMachine[s] ELSE NoSession
                          /\ IsOf(f, s) /\ \A t : t # s => ~IsOf(f, t)
  <2>1. PICK k \in 0 .. MaxSession : k = IF why = "ok" THEN fsmMachine[s] ELSE NoSession
    BY NoRequestFact DEF IInv, ServerTypeOK
  <2>2. why \in Bodies
    BY <1>2 DEF Bodies, AnswerBodies
  <2>3. PICK f \in Frames : f = Stream(s, why, k)
    BY <2>1, <2>2, FramesAreFrames
  <2>4. f.slot = s /\ f.sess = k /\ f.type = "stream" /\ Kind(f) = why
    BY <2>1, <2>2, <2>3, FramesAreFrames
  <2>5. f = Stream(s, why, IF why = "ok" THEN fsmMachine[s] ELSE NoSession)
    BY <2>1, <2>3
  <2>6. WriteToClient(f)
    BY <1>2, <2>5 DEF WriteToClient
  <2> QED
    BY <2>1, <2>4, <2>6 DEF IsOf
<1>5. ASSUME NEW t \in Slots \ {s}
      PROVE  SameAtServer(t)
  BY <1>1, <1>2 DEF SameAtServer, Answering, ServesClose, ServesCompleted, slotVars, machineVars
<1>6. ServerMoves
  BY <1>2, MachinesFacts DEF ServerMoves, Ending, slotVars, machineVars
<1>7. /\ Vacant(s)' <=> Vacant(s)
      /\ Current(s)' <=> Current(s)
      /\ ~Outlived(s)' /\ ~Answering(s)' /\ ~ServesClose(s)' /\ ~ServesCompleted(s)'
      /\ ~Ending /\ ~Ending'
      /\ HasClosed(s)' <=> HasClosed(s)
      /\ UNCHANGED <<fsmRunning, fsmClosed, fsmMachine, remote>>
      /\ HasGreeted(s)' <=> HasGreeted(s)
  BY <1>2, <1>3, <1>6, BrowserStands
  DEF Vacant, Current, Outlived, Answering, ServesClose, ServesCompleted, slotVars, machineVars,
      HasClosed, HasGreeted, Ending, ServerMoves
<1>12. ~IsComing(s, {"ok"}) /\ ~IsComing(s, {"failed"})
  BY <1>3, HasKinds DEF IsComing
<1>8. /\ \A kinds : IsSent(s, kinds)' <=> IsSent(s, kinds)
      /\ IsComing(s, AnswerBodies)'
      /\ IsComing(s, {"ok"})' => why = "ok"
      /\ IsComing(s, {"failed"})' => why = "failed"
      /\ ~IsComing(s, {"completed"})'
      /\ IsComing(s, {"close"})' <=> IsComing(s, {"close"})
      /\ IsComing(s, {"connected", "output"})' <=> IsComing(s, {"connected", "output"})
      /\ IsComing(s, {"output"})' <=> IsComing(s, {"output"})
      /\ IsComing(s, Early \cup {"connected"})' <=> IsComing(s, Early \cup {"connected"})
      /\ IsComing(s, {"connected"})' <=> IsComing(s, {"connected"})
  <2>1. Kind(f) \in {"ok", "failed"} /\ Kind(f) = why
    BY <1>2, <1>4
  <2>2. /\ Kind(f) \in AnswerBodies /\ Kind(f) \notin {"completed"} /\ Kind(f) \notin {"close"}
        /\ Kind(f) \notin {"connected", "output"} /\ Kind(f) \notin {"output"}
        /\ Kind(f) \notin Early \cup {"connected"} /\ Kind(f) \notin {"connected"}
        /\ why # "ok" => Kind(f) \notin {"ok"}
        /\ why # "failed" => Kind(f) \notin {"failed"}
    BY <2>1 DEF AnswerBodies, Early
  <2>3. /\ \A kinds : IsSent(s, kinds)' <=> IsSent(s, kinds)
        /\ \A kinds : Kind(f) \in kinds => IsComing(s, kinds)'
        /\ \A kinds : Kind(f) \notin kinds => (IsComing(s, kinds)' <=> IsComing(s, kinds))
    BY <1>2, <1>4, ComingAtoms
  <2> QED
    BY <1>3, <1>12, <2>2, <2>3
<1>13. ~ServesClose(s) /\ ~ServesCompleted(s) /\ ~Outlived(s)
  BY <1>2, <1>3 DEF ServesClose, ServesCompleted, Outlived, Current
<1>9. SlotInv(s)'
  <2> USE <1>2, <1>3, <1>6, <1>7, <1>8, <1>12, <1>13, BrowserStands DEF ServerMoves
  <2>1. OpenInv(s)' /\ UseInv(s)'
    BY DEF SlotInv, OpenInv, UseInv
  <2>2. CloseInv(s)' /\ EndInv(s)'
    BY DEF SlotInv, CloseInv, EndInv
  <2>3. OutlivedInv(s)' /\ TalkInv(s)'
    BY DEF SlotInv, OpenInv, OutlivedInv, TalkInv
  <2> QED
    BY <2>1, <2>2, <2>3 DEF SlotInv
<1>10. ComingFrame(f)'
  <2>1. f.sess \in 0 .. machines /\ (f.sess # NoSession => Current(s) /\ f.sess = fsmMachine[s])
    <3>1. NoSession \in 0 .. machines
      BY MachinesFacts DEF NoSession
    <3>2. ~Vacant(s) => fsmMachine[s] \in 0 .. machines
      BY MachinesFacts DEF IInv, Housed, Vacant
    <3>3. CASE why = "ok"
      BY <1>3, <1>4, <3>2, <3>3 DEF Current
    <3>4. CASE why # "ok"
      BY <1>4, <3>1, <3>4
    <3> QED
      BY <3>3, <3>4
  <2>2. UNCHANGED <<machines, serves, command>>
    BY <1>2, BrowserStands DEF machineVars
  <2>3. Kind(f) \in StreamKinds
    BY <1>2, <1>4 DEF StreamKinds, AnswerBodies
  <2> QED
    BY <1>4, <2>1, <2>2, <2>3 DEF ComingFrame, Current
<1>11. ASSUME NEW g \in Range(toClient), SameStream(g, f)
       PROVE  MayComeAfter(g, f)
  <2>1. IsOf(g, s) /\ ComingFrame(g)
    BY <1>4, <1>11 DEF SameStream, LinkInv, FramesInv
  <2>2. Kind(g) \in StreamKinds
    BY <2>1 DEF ComingFrame, IsOf, Control
  <2>3. EarlyFrames /\ why = "ok"
    BY <1>3, <1>11, <2>1, <2>2 DEF Quiet, IsComing, Has
  <2>4. Kind(g) \in OutputBodies \cup {"close"}
    BY <1>3, <1>11, <2>1, <2>2 DEF IsComing, Has, StreamKinds
  <2> QED
    BY <1>4, <2>3, <2>4 DEF MayComeAfter, AnswerBodies, OutputBodies, Early
<1>14. \A t \in Slots \ {s} : SameAtServer(t) /\ ~IsOf(f, t)
  BY <1>4, <1>5
<1>15. toServer' = toServer /\ WriteToClient(f)
  BY <1>2, <1>4
<1> QED
  BY <1>6, <1>9, <1>10, <1>11, <1>14, <1>15, WriteKeepsLink
\* handleClose: the stream's sender is closed in the browser, and will be until COMPLETED.
LEMMA CloseServedKeepsLink ==
  ASSUME IInv, BrowserInv, LinkInv, UNCHANGED <<clientVars, serves>>,
         NEW s \in Slots, HandleClose(s)
  PROVE  LinkInv'
<1>1. /\ Reads("close") /\ s = Incoming.slot /\ toClient' = toClient /\ pc = "read"
      /\ pc' \in {"closing", "reply"} /\ cur' = s /\ why' = "close"
      /\ fsmClosed' = fsmClosed \/ fsmClosed' = [fsmClosed EXCEPT ![s] = TRUE]
      /\ UNCHANGED <<fsmMachine, fsmRunning, machines, remote, conn>>
  BY DEF HandleClose, Reads, Goto
<1>2. /\ Kind(Incoming) = "close" /\ IsSent(s, {"close"}) /\ SlotInv(s)
      /\ ~Ending /\ ~Answering(s) /\ ~ServesClose(s) /\ ~ServesCompleted(s)
      /\ ~IsSent(s, {"request"})' /\ ~IsSent(s, Messages)' /\ ~IsSent(s, {"close"})'
      /\ ~Outlived(s)
  <2>1. Kind(Incoming) = "close"
    BY <1>1, IncomingFacts
  <2> QED
    BY <1>1, <2>1, IncomingFacts, BehindIncoming, IncomingIsOfNow DEF LinkInv
<1>3. SenderClosed(s) /\ ~IsComing(s, {"completed"})
  BY <1>2 DEF SlotInv, CloseInv
<1>4. ServerMoves
  BY <1>1, MachinesFacts DEF ServerMoves, Ending
<1>5. ASSUME NEW t \in Slots \ {s}
      PROVE  SameAtServer(t)
  BY <1>1 DEF SameAtServer, Answering, ServesClose, ServesCompleted, IInv, ServerTypeOK
<1>6. /\ Vacant(s)' <=> Vacant(s)
      /\ Current(s)' <=> Current(s)
      /\ Outlived(s)' <=> Outlived(s)
      /\ HasClosed(s)' <=> HasClosed(s)
      /\ HasGreeted(s)' <=> HasGreeted(s)
      /\ ~Answering(s)' /\ ServesClose(s)' /\ ~ServesCompleted(s)'
      /\ UNCHANGED <<fsmRunning, fsmMachine, remote>>
      /\ fsmClosed[s] => fsmClosed'[s]
  BY <1>1, BrowserStands
  DEF Vacant, Current, Outlived, HasClosed, HasGreeted, Answering, ServesClose, ServesCompleted,
      IInv, ServerTypeOK
<1>7. /\ \A kinds : IsComing(s, kinds)' <=> IsComing(s, kinds)
      /\ Quiet(s)' <=> Quiet(s)
      /\ IsSent(s, {"completed"})' <=> IsSent(s, {"completed"})
      /\ IsSent(s, {"request"}) <=> IsSent(s, {"request"})'
  BY <1>1, <1>2, IncomingAtoms
<1>8. SlotInv(s)'
  <2> USE <1>2, <1>3, <1>4, <1>6, <1>7, BrowserStands DEF ServerMoves
  <2>1. OpenInv(s)' /\ UseInv(s)'
    BY DEF SlotInv, OpenInv, UseInv
  <2>2. CloseInv(s)' /\ EndInv(s)'
    BY DEF SlotInv, CloseInv, EndInv
  <2>3. OutlivedInv(s)' /\ TalkInv(s)'
    BY DEF SlotInv, OutlivedInv, TalkInv
  <2> QED
    BY <2>1, <2>2, <2>3 DEF SlotInv
<1> QED
  BY <1>1, <1>4, <1>5, <1>8, ServerReadKeepsLink

\* The machine's Close has returned: its error ends the connection.
LEMMA CloseReturnsKeepsLink ==
  ASSUME IInv, BrowserInv, LinkInv, UNCHANGED <<clientVars, serves>>, CloseReturns
  PROVE  LinkInv'
<1>1. PICK s \in Slots : s = cur
  BY DEF CloseReturns, IInv, HandlerAt
<1>2. /\ pc = "closing" /\ UNCHANGED <<toServer, toClient, slotVars, machineVars>>
      /\ \/ why = "close" /\ pc' = "reply" /\ cur' = s /\ why' = "close"
         \/ why = "close" /\ pc' = "shutdown"
         \/ why # "close" /\ pc' = "releasing" /\ cur' = s /\ why' = why
  BY <1>1 DEF CloseReturns, Goto, EndConnection, wireVars
<1>3. ServerMoves
  BY <1>2, MachinesFacts DEF ServerMoves, Ending, slotVars, machineVars
<1>4. ASSUME NEW t \in Slots \ {s}
      PROVE  SameAtServer(t)
  BY <1>1, <1>2
  DEF SameAtServer, Answering, ServesClose, ServesCompleted, slotVars, machineVars
<1>5. /\ Vacant(s)' <=> Vacant(s)
      /\ Current(s)' <=> Current(s)
      /\ Outlived(s)' <=> Outlived(s)
      /\ HasClosed(s)' <=> HasClosed(s)
      /\ HasGreeted(s)' <=> HasGreeted(s)
      /\ UNCHANGED <<fsmRunning, fsmMachine, fsmClosed, remote>>
  BY <1>2, BrowserStands
  DEF Vacant, Current, Outlived, HasClosed, HasGreeted, slotVars, machineVars
<1>6. /\ ~Answering(s) /\ ~Answering(s)'
      /\ ServesClose(s)' => ServesClose(s)
      /\ ServesCompleted(s)' <=> ServesCompleted(s)
      /\ Ending => Ending'
  BY <1>1, <1>2, <1>3 DEF Answering, ServesClose, ServesCompleted, ServerMoves
<1>7. /\ \A kinds : /\ IsSent(s, kinds)' <=> IsSent(s, kinds)
                    /\ IsComing(s, kinds)' <=> IsComing(s, kinds)
      /\ Quiet(s)' <=> Quiet(s)
  BY <1>2 DEF IsSent, IsComing, Quiet, Has
<1>8. SlotInv(s)'
  <2>1. SlotInv(s)
    BY DEF LinkInv
  <2> USE <1>5, <1>6, <1>7, <2>1, BrowserStands, <1>3 DEF ServerMoves
  <2>2. OpenInv(s)' /\ UseInv(s)'
    BY DEF SlotInv, OpenInv, UseInv
  <2>3. CloseInv(s)' /\ EndInv(s)'
    BY DEF SlotInv, CloseInv, EndInv
  <2>4. OutlivedInv(s)' /\ TalkInv(s)'
    BY DEF SlotInv, OutlivedInv, TalkInv
  <2> QED
    BY <2>2, <2>3, <2>4 DEF SlotInv
<1> QED
  BY <1>2, <1>3, <1>4, <1>8, InsideKeepsLink

\* handleClose's COMPLETED: it is the first, and the browser is shutting down or will be by
\* the time it reads it, for the machine's CLOSE comes before it.
LEMMA ReplyKeepsLink ==
  ASSUME IInv, BrowserInv, LinkInv, up, Reply, UNCHANGED <<clientVars, serves>>
  PROVE  LinkInv'
<1>1. PICK s \in Slots : s = cur
  BY DEF Reply, IInv, HandlerAt
<1>2. /\ pc = "reply" /\ pc' = "read" /\ why = "close" /\ ServesClose(s) /\ SlotInv(s)
      /\ UNCHANGED <<toServer, up, slotVars, machineVars>>
      /\ WriteToClient(Completed(s, fsmMachine[s]))
  BY <1>1 DEF Reply, NextFrame, Goto, ServesClose, LinkInv
<1>3. PICK f \in Frames : /\ WriteToClient(f) /\ f.slot = s /\ f.type = "completed"
                          /\ Kind(f) = "completed"
                          /\ f.sess = fsmMachine[s]
                          /\ IsOf(f, s) /\ \A t : t # s => ~IsOf(f, t)
  <2>1. fsmMachine[s] \in 0 .. MaxSession /\ "none" \in Bodies
    BY DEF IInv, ServerTypeOK, Bodies
  <2> QED
    BY <1>2, <2>1, FramesAreFrames DEF IsOf
<1>4. /\ ~Ending /\ ~Answering(s) /\ ~ServesCompleted(s)
      /\ SenderClosed(s) /\ Running(s) /\ ~IsComing(s, {"completed"}) /\ ~Outlived(s)
      /\ ~IsSent(s, {"close"}) /\ ~IsSent(s, {"request"})
  BY <1>2 DEF SlotInv, OpenInv, CloseInv, Ending, Answering, ServesCompleted, SenderClosed
<1>5. ~Vacant(s) => /\ fsmClosed[s] /\ remote[fsmMachine[s]] = "ended" /\ HasClosed(s)
                    /\ Current(s)
  BY <1>1, <1>2, <1>4 DEF IInv, SlotsInStep, HandlerAt, InClose, HasClosed, Vacant, Outlived, Current
<1>6. ShuttingDown(s) \/ IsComing(s, {"close"})
  <2>1. CASE Vacant(s)
    BY <1>2, <1>4, <2>1 DEF SlotInv, OpenInv, UseInv, Current
  <2>2. CASE ~Vacant(s)
    BY <1>2, <1>4, <1>5, <2>2 DEF SlotInv, EndInv
  <2> QED
    BY <2>1, <2>2
<1>7. ServerMoves
  BY <1>2, MachinesFacts DEF ServerMoves, Ending, slotVars, machineVars
<1>8. \A t \in Slots \ {s} : SameAtServer(t) /\ ~IsOf(f, t)
  BY <1>1, <1>2, <1>3
  DEF SameAtServer, Answering, ServesClose, ServesCompleted, slotVars, machineVars
<1>9. /\ Vacant(s)' <=> Vacant(s)
      /\ Current(s)' <=> Current(s)
      /\ Outlived(s)' <=> Outlived(s)
      /\ HasClosed(s)' <=> HasClosed(s)
      /\ HasGreeted(s)' <=> HasGreeted(s)
      /\ ~Answering(s)' /\ ~ServesClose(s)' /\ ~ServesCompleted(s)'
      /\ UNCHANGED <<fsmRunning, fsmClosed, fsmMachine, remote>>
      /\ ~Ending'
  BY <1>2, BrowserStands
  DEF Vacant, Current, Outlived, HasClosed, HasGreeted, Answering, ServesClose, ServesCompleted,
      slotVars, machineVars, Ending
<1>10. /\ \A kinds : IsSent(s, kinds)' <=> IsSent(s, kinds)
       /\ IsComing(s, {"completed"})'
       /\ \A kinds : "completed" \notin kinds => (IsComing(s, kinds)' <=> IsComing(s, kinds))
       /\ ~Quiet(s)'
  <2>1. "completed" \in StreamKinds
    BY DEF StreamKinds
  <2> QED
    BY <1>2, <1>3, <2>1, ComingAtoms DEF Quiet
<1>11. /\ IsComing(s, AnswerBodies)' <=> IsComing(s, AnswerBodies)
       /\ IsComing(s, {"ok"})' <=> IsComing(s, {"ok"})
       /\ IsComing(s, {"failed"})' <=> IsComing(s, {"failed"})
       /\ IsComing(s, {"close"})' <=> IsComing(s, {"close"})
       /\ IsComing(s, {"connected"})' <=> IsComing(s, {"connected"})
       /\ IsComing(s, {"output"})' <=> IsComing(s, {"output"})
       /\ IsComing(s, {"connected", "output"})' <=> IsComing(s, {"connected", "output"})
       /\ IsComing(s, Early \cup {"connected"})' <=> IsComing(s, Early \cup {"connected"})
  BY <1>10 DEF AnswerBodies, Early
<1>12. SlotInv(s)'
  <2> USE <1>2, <1>4, <1>5, <1>6, <1>7, <1>9, <1>10, <1>11, BrowserStands DEF ServerMoves
  <2>1. OpenInv(s)' /\ UseInv(s)'
    BY DEF SlotInv, OpenInv, UseInv
  <2>2. CloseInv(s)' /\ EndInv(s)'
    BY DEF SlotInv, CloseInv, EndInv
  <2>3. OutlivedInv(s)' /\ TalkInv(s)'
    BY DEF SlotInv, OutlivedInv, TalkInv
  <2> QED
    BY <2>1, <2>2, <2>3 DEF SlotInv
<1>13. ComingFrame(f)'
  <2>1. f.sess \in 0 .. machines /\ (f.sess # NoSession => serves[f.sess] = command[s])
    <3>1. CASE Vacant(s)
      BY <1>3, <3>1, MachinesFacts DEF Vacant, NoSession
    <3>2. CASE ~Vacant(s)
      BY <1>3, <1>5, <3>2, MachinesFacts DEF Current, IInv, Housed, Vacant
    <3> QED
      BY <3>1, <3>2
  <2>2. UNCHANGED <<machines, serves, command>>
    BY <1>2, BrowserStands DEF machineVars
  <2> QED
    BY <1>3, <2>1, <2>2 DEF ComingFrame, StreamKinds
<1>14. ASSUME NEW g \in Range(toClient), SameStream(g, f)
       PROVE  MayComeAfter(g, f)
  <2>1. IsOf(g, s)
    BY <1>3, <1>14 DEF SameStream
  <2>2. Kind(g) # "completed"
    BY <1>4, <2>1 DEF IsComing, Has
  <2> QED
    BY <1>3, <2>2 DEF MayComeAfter, AnswerBodies, Early
<1>15. toServer' = toServer /\ WriteToClient(f)
  BY <1>2, <1>3
<1> QED
  BY <1>7, <1>8, <1>12, <1>13, <1>14, <1>15, WriteKeepsLink
\* handleCompleted: it is for a machine that has sent CLOSE, and the session it was for is
\* over in the browser, or shutting down there.
LEMMA CompletedServedKeepsLink ==
  ASSUME IInv, BrowserInv, LinkInv, UNCHANGED <<clientVars, serves>>,
         NEW s \in Slots, HandleCompleted(s)
  PROVE  LinkInv'
<1>1. Reads("completed") /\ s = Incoming.slot /\ toClient' = toClient /\ pc = "read"
  BY DEF HandleCompleted, Reads
<1>2. /\ Kind(Incoming) = "completed" /\ IsSent(s, {"completed"}) /\ SlotInv(s)
      /\ ~Ending /\ ~Answering(s) /\ ~ServesClose(s) /\ ~ServesCompleted(s)
      /\ ~IsSent(s, {"completed"})'
      /\ SentFrame(Incoming) /\ IsOf(Incoming, s)
  <2>1. Kind(Incoming) = "completed"
    BY <1>1, IncomingFacts
  <2> QED
    BY <1>1, <2>1, IncomingFacts, BehindIncoming DEF LinkInv
<1>3. /\ ~Vacant(s) /\ fsmRunning[s] /\ HasClosed(s)
      /\ Current(s) => /\ ShuttingDown(s) /\ SenderClosed(s)
                       /\ Opening(s) => EarlyFrames
      /\ ~IsComing(s, {"close"}) /\ ~Completing(s)
  BY <1>2 DEF SlotInv, EndInv, UseInv
<1>4. /\ pc' \in {"closing", "releasing"} /\ cur' = s /\ why' = "completed"
      /\ fsmRunning' = [fsmRunning EXCEPT ![s] = FALSE]
      /\ fsmClosed' = [fsmClosed EXCEPT ![s] = TRUE]
      /\ UNCHANGED <<fsmMachine, machines, remote, conn>>
  BY <1>3 DEF HandleCompleted, StartRelease, Goto
<1>5. ServerMoves
  BY <1>1, <1>4, MachinesFacts DEF ServerMoves, Ending
<1>6. ASSUME NEW t \in Slots \ {s}
      PROVE  SameAtServer(t)
  BY <1>1, <1>4 DEF SameAtServer, Answering, ServesClose, ServesCompleted, IInv, ServerTypeOK
<1>7. /\ Vacant(s)' <=> Vacant(s)
      /\ Current(s)' <=> Current(s)
      /\ Outlived(s)' <=> Outlived(s)
      /\ HasClosed(s)' <=> HasClosed(s)
      /\ HasGreeted(s)' <=> HasGreeted(s)
      /\ ~Answering(s)' /\ ~ServesClose(s)' /\ ServesCompleted(s)'
      /\ UNCHANGED <<fsmMachine, remote>>
      /\ (fsmClosed[s])'
  BY <1>4, BrowserStands
  DEF Vacant, Current, Outlived, HasClosed, HasGreeted, Answering, ServesClose, ServesCompleted,
      IInv, ServerTypeOK
<1>8. /\ \A kinds : IsComing(s, kinds)' <=> IsComing(s, kinds)
      /\ Quiet(s)' <=> Quiet(s)
      /\ IsSent(s, {"request"})' <=> IsSent(s, {"request"})
      /\ IsSent(s, {"close"})' <=> IsSent(s, {"close"})
      /\ IsSent(s, Messages)' <=> IsSent(s, Messages)
  BY <1>1, <1>2, IncomingAtoms DEF Messages
\* The session of the frame wrote its messages before it.
<1>9. ~IsSent(s, Messages)
  <2>1. SUFFICES ASSUME IsSent(s, Messages)
                 PROVE  FALSE
    OBVIOUS
  <2>2. Current(s)
    BY <1>2, <2>1 DEF SlotInv, UseInv
  <2>3. PICK g \in Range(toServer') : IsOf(g, s) /\ Kind(g) \in Messages
    BY <1>8, <2>1 DEF IsSent, Has
  <2>4. g \in Range(toServer)
    BY <1>1, <2>3, ReadSent DEF BrowserInv
  <2>5. g.sess = command[s]
    BY <1>2, <2>3, <2>4 DEF LinkInv, FramesInv, SentFrame, IsOf, Control
  <2>6. Incoming.sess = command[s]
    BY <1>2, <2>2 DEF SentFrame, IsOf, Control, Current
  <2>7. g.sess # Incoming.sess
    BY <1>1, <1>2, <2>3, BehindIncoming
  <2> QED
    BY <2>5, <2>6, <2>7
<1>10. SlotInv(s)'
  <2> USE <1>2, <1>3, <1>5, <1>7, <1>8, <1>9, BrowserStands DEF ServerMoves
  <2>1. OpenInv(s)' /\ UseInv(s)'
    BY DEF SlotInv, OpenInv, UseInv
  <2>2. CloseInv(s)' /\ EndInv(s)'
    BY DEF SlotInv, CloseInv, EndInv
  <2>3. OutlivedInv(s)' /\ TalkInv(s)'
    BY DEF SlotInv, OutlivedInv, TalkInv
  <2> QED
    BY <2>1, <2>2, <2>3 DEF SlotInv
<1> QED
  BY <1>1, <1>5, <1>6, <1>10, ServerReadKeepsLink

\* The slot is free.
LEMMA ReleaseKeepsLink ==
  ASSUME IInv, BrowserInv, LinkInv, UNCHANGED <<clientVars, serves>>, Release
  PROVE  LinkInv'
<1>1. PICK s \in Slots : s = cur
  BY DEF Release, IInv, HandlerAt
<1>2. /\ pc = "releasing" /\ UNCHANGED <<toServer, toClient, fsmClosed, machines, remote, home>>
      /\ fsmMachine' = [fsmMachine EXCEPT ![s] = NoSession]
      /\ fsmRunning' = [fsmRunning EXCEPT ![s] = FALSE]
      /\ conn' = [conn EXCEPT ![fsmMachine[s]] = FALSE]
      /\ why \in {"completed", "shutdown"}
      /\ why = "completed" => pc' \in {"read", "shutdown"}
      /\ why = "shutdown" => pc' = "shutdown"
  BY <1>1 DEF Release, NextFrame, EndConnection, Goto, wireVars
<1>3. /\ ~Vacant(s) /\ fsmClosed[s] /\ remote[fsmMachine[s]] = "ended"
      /\ fsmMachine[s] \in Sessions /\ home[fsmMachine[s]] = s
  BY <1>1, <1>2, MachinesFacts DEF IInv, HandlerAt, SlotsInStep, InClose, Vacant
<1>4. ServerMoves
  <2>1. \A t \in Slots : fsmMachine'[t] \in {fsmMachine[t], NoSession}
    BY <1>2 DEF IInv, ServerTypeOK
  <2> QED
    BY <1>2, <2>1, MachinesFacts DEF ServerMoves, Ending
<1>5. ASSUME NEW t \in Slots \ {s}
      PROVE  SameAtServer(t)
  <2>1. ~Vacant(t) => fsmMachine[t] \in Sessions /\ fsmMachine[t] # fsmMachine[s]
    BY <1>3, MachinesFacts
  <2> QED
    BY <1>1, <1>2, <1>3, <2>1
    DEF SameAtServer, Answering, ServesClose, ServesCompleted, IInv, ServerTypeOK
<1>6. /\ Vacant(s)' /\ ~Current(s)' /\ ~Outlived(s)'
      /\ ~Answering(s)' /\ ~ServesClose(s)' /\ ~ServesCompleted(s)'
      /\ ~Answering(s) /\ ~ServesClose(s)
  BY <1>2 DEF Vacant, Current, Outlived, Answering, ServesClose, ServesCompleted, IInv, ServerTypeOK
<1>7. /\ \A kinds : /\ IsSent(s, kinds)' <=> IsSent(s, kinds)
                    /\ IsComing(s, kinds)' <=> IsComing(s, kinds)
      /\ Quiet(s)' <=> Quiet(s)
  BY <1>2 DEF IsSent, IsComing, Quiet, Has
<1>8. SlotInv(s)
  BY DEF LinkInv
<1>9. CASE why = "completed"
  <2>1. /\ ServesCompleted(s) /\ ~Ending /\ HasClosed(s)
        /\ Current(s) => ShuttingDown(s) /\ (Opening(s) => EarlyFrames)
        /\ ~IsComing(s, {"close"}) /\ ~Completing(s) /\ ~IsSent(s, {"completed"})
    BY <1>1, <1>2, <1>3, <1>8, <1>9 DEF ServesCompleted, Ending, SlotInv, EndInv, HasClosed
  <2>2. /\ IsComing(s, {"ok"}) => EarlyFrames /\ ShuttingDown(s)
        /\ ~IsSent(s, Messages)
    BY <1>3, <1>8, <2>1, HasKinds DEF SlotInv, OpenInv, UseInv, IsComing
  <2>3. Running(s) /\ ~Opening(s) => ShuttingDown(s)
    BY <1>3, <1>8, <2>1 DEF SlotInv, OpenInv, UseInv
  <2>4. SlotInv(s)'
    <3> USE <1>3, <1>4, <1>6, <1>7, <1>8, <2>1, <2>2, <2>3, BrowserStands DEF ServerMoves
    <3>1. OpenInv(s)' /\ UseInv(s)'
      BY DEF SlotInv, OpenInv, UseInv
    <3>2. CloseInv(s)' /\ EndInv(s)'
      BY DEF SlotInv, CloseInv, EndInv
    <3>3. OutlivedInv(s)' /\ TalkInv(s)'
      BY DEF SlotInv, OutlivedInv, TalkInv
    <3> QED
      BY <3>1, <3>2, <3>3 DEF SlotInv
  <2> QED
    BY <1>2, <1>4, <1>5, <2>4, InsideKeepsLink
<1>10. CASE why = "shutdown"
  <2>1. Ending /\ Ending'
    BY <1>2, <1>10 DEF Ending
  <2>2. SlotInv(s)'
    <3> USE <1>3, <1>4, <1>6, <1>7, <1>8, <2>1, BrowserStands DEF ServerMoves
    <3>1. OpenInv(s)' /\ UseInv(s)'
      BY DEF SlotInv, OpenInv, UseInv
    <3>2. CloseInv(s)' /\ EndInv(s)'
      BY DEF SlotInv, CloseInv, EndInv
    <3>3. OutlivedInv(s)' /\ TalkInv(s)'
      BY DEF SlotInv, OutlivedInv, TalkInv
    <3> QED
      BY <3>1, <3>2, <3>3 DEF SlotInv
  <2> QED
    BY <1>2, <1>4, <1>5, <2>2, InsideKeepsLink
<1> QED
  BY <1>2, <1>9, <1>10

\* streams.shutdown: the browser is owed nothing any more.
LEMMA ShutdownServedKeepsLink ==
  ASSUME IInv, BrowserInv, LinkInv, UNCHANGED <<clientVars, serves>>,
         ShutdownSlot \/ HandleReturns
  PROVE  LinkInv'
<1>1. /\ pc = "shutdown" /\ pc' \in {"shutdown", "closing", "releasing", "done"}
      /\ pc' \in {"closing", "releasing"} => why' = "shutdown"
      /\ UNCHANGED <<toServer, toClient, fsmMachine, machines, remote, conn>>
      /\ Ending /\ Ending'
  BY DEF ShutdownSlot, HandleReturns, StartRelease, Goto, Ending, wireVars, slotVars, machineVars
<1>2. \A t \in Slots : fsmClosed[t] => fsmClosed'[t]
  BY DEF ShutdownSlot, HandleReturns, StartRelease, slotVars, IInv, ServerTypeOK
<1>3. ServerMoves
  BY <1>1, MachinesFacts DEF ServerMoves
<1>4. ASSUME NEW t \in Slots
      PROVE  SlotInv(t)'
  <2>1. /\ Vacant(t)' <=> Vacant(t)
        /\ Current(t)' <=> Current(t)
        /\ Outlived(t)' <=> Outlived(t)
        /\ HasClosed(t)' <=> HasClosed(t)
        /\ HasGreeted(t)' <=> HasGreeted(t)
        /\ ~Answering(t) /\ ~ServesClose(t) /\ ~ServesCompleted(t)
        /\ ~Answering(t)' /\ ~ServesClose(t)' /\ ~ServesCompleted(t)'
        /\ UNCHANGED <<fsmMachine, remote>>
    BY <1>1, BrowserStands
    DEF Vacant, Current, Outlived, HasClosed, HasGreeted, Answering, ServesClose, ServesCompleted
  <2>2. /\ \A kinds : /\ IsSent(t, kinds)' <=> IsSent(t, kinds)
                      /\ IsComing(t, kinds)' <=> IsComing(t, kinds)
        /\ Quiet(t)' <=> Quiet(t)
    BY <1>1 DEF IsSent, IsComing, Quiet, Has
  <2>3. SlotInv(t)
    BY DEF LinkInv
  <2> USE <1>1, <1>2, <1>3, <2>1, <2>2, <2>3, BrowserStands DEF ServerMoves
  <2>4. OpenInv(t)' /\ UseInv(t)'
    BY DEF SlotInv, OpenInv, UseInv
  <2>5. CloseInv(t)' /\ EndInv(t)'
    BY DEF SlotInv, CloseInv, EndInv
  <2>6. OutlivedInv(t)' /\ TalkInv(t)'
    BY DEF SlotInv, OutlivedInv, TalkInv
  <2> QED
    BY <2>4, <2>5, <2>6 DEF SlotInv
<1> QED
  BY <1>1, <1>3, <1>4, InsideKeepsLink
---------------------------------------------------------------------------
(* The machines' goroutines, step by step.                                  *)

LEMMA ServerKeepsDelivered ==
  ASSUME IInv, Delivered, ServerStep
  PROVE  Delivered'
<1>1. CASE \E s \in Slots : HandleRequest(s) /\ machineVars' # machineVars
  <2>1. /\ machines + 1 \in Sessions /\ conn' = conn
        /\ remote' = [remote EXCEPT ![machines + 1] = "dialing"]
    BY <1>1 DEF HandleRequest, Boot
  <2> QED
    BY <2>1 DEF Delivered, IInv, ServerTypeOK
<1>2. CASE Release
  <2>1. /\ fsmMachine[cur] \in Sessions /\ remote[fsmMachine[cur]] = "ended"
        /\ conn' = [conn EXCEPT ![fsmMachine[cur]] = FALSE] /\ remote' = remote
    BY <1>2, MachinesFacts
    DEF Release, IInv, HandlerAt, SlotsInStep, InClose, Vacant
  <2> QED
    BY <2>1 DEF Delivered, IInv, ServerTypeOK
<1>3. CASE \E m \in Sessions : RemoteStep(m)
  <2>1. PICK m \in Sessions : RemoteStep(m)
    BY <1>3
  <2>2. /\ \A k \in Sessions \ {m} : remote'[k] = remote[k] /\ conn'[k] = conn[k]
        /\ conn[m] => conn'[m]
        /\ remote'[m] \in {"greeting", "connected"} /\ remote'[m] # remote[m] => conn[m] \/ conn'[m]
    BY <2>1
    DEF RemoteStep, RemoteOutput, RemoteAsks, RemoteHears, RemoteConnects, RemoteGreets,
        RemoteLeaves, RemoteSignalsClose, RemoteEnds, RemoteWrites, IInv, ServerTypeOK, Delivered
  <2> QED
    BY <2>1, <2>2 DEF Delivered
<1>4. CASE UNCHANGED <<remote, conn>>
  BY <1>4 DEF Delivered
<1>5. ASSUME HandlerStep
      PROVE  \/ UNCHANGED <<remote, conn>> \/ Release
             \/ \E s \in Slots : HandleRequest(s) /\ machineVars' # machineVars
  BY <1>5
  DEF HandlerStep, HandleFrame, HandleEcho, HandlePause, HandleResume, HandleUnknownSignal,
      HandleTick, HandleRequest, HandleClose, HandleCompleted, TickInput, TickRefuse,
      SignalAnswer, CloseReturns, Reply, ShutdownSlot, HandleReturns, ReadFails, machineVars
<1> QED
  BY <1>1, <1>2, <1>3, <1>4, <1>5 DEF ServerStep

\* A machine at work is the one of the session that has its slot.
LEMMA MachineAtWork ==
  ASSUME IInv, BrowserInv, LinkInv, NEW m \in Sessions, RemoteStep(m),
         NEW s \in Slots, s = home[m]
  PROVE  /\ SlotInv(s) /\ fsmMachine[s] = m /\ Current(s) /\ ~Vacant(s) /\ Running(s)
         /\ remote[m] \notin {"none", "ended"}
         /\ ~IsSent(s, {"request"})
         /\ ~IsComing(s, {"completed"}) /\ ~IsComing(s, {"failed"})
         /\ remote[m] # "signalled" =>
              /\ ~HasClosed(s) /\ ~IsComing(s, {"close"}) /\ ~Completing(s)
              /\ ~ServesCompleted(s)
              /\ ~Ending => ~IsSent(s, {"completed"})
<1>1. SlotInv(s) /\ remote[m] \notin {"none", "ended"}
  BY RemoteMovesOn DEF LinkInv
<1>2. fsmMachine[s] = m /\ ~Vacant(s)
  BY <1>1, MachinesFacts, SlotsFacts DEF IInv, Accounted, Unborn, Vacant
<1>3. Current(s)
  BY <1>1, <1>2 DEF SlotInv, OutlivedInv, Outlived, Current
<1>4. Running(s)
  <2>1. serves[m] \in 1 .. sessions /\ m <= machines
    BY <1>2, MachinesFacts DEF BrowserInv, Numbered
  <2> QED
    BY <1>2, <1>3, <2>1, ClientFacts DEF Current, Running, NoSession
<1>5. /\ ~IsSent(s, {"request"})
      /\ ~IsComing(s, {"completed"}) /\ ~IsComing(s, {"failed"})
  BY <1>1, <1>2, <1>3 DEF SlotInv, OpenInv, CloseInv
<1>6. remote[m] # "signalled" =>
        /\ ~HasClosed(s) /\ ~IsComing(s, {"close"}) /\ ~Completing(s)
        /\ ~ServesCompleted(s)
        /\ ~Ending => ~IsSent(s, {"completed"})
  BY <1>1, <1>2 DEF SlotInv, EndInv, HasClosed
<1> QED
  BY <1>1, <1>2, <1>3, <1>4, <1>5, <1>6

LEMMA MachineMoves ==
  ASSUME IInv, BrowserInv, LinkInv, NEW m \in Sessions, RemoteStep(m),
         UNCHANGED <<clientVars, serves>>, NEW s \in Slots, s = home[m]
  PROVE  /\ ServerMoves /\ (Ending' <=> Ending)
         /\ \A t \in Slots \ {s} : SameAtServer(t)
         /\ ~Vacant(s)' /\ Current(s)' /\ ~Outlived(s)'
         /\ Answering(s)' <=> Answering(s)
         /\ ServesClose(s)' <=> ServesClose(s)
         /\ ServesCompleted(s)' <=> ServesCompleted(s)
         /\ UNCHANGED <<fsmMachine, fsmRunning, fsmClosed, why>>
         /\ (remote[fsmMachine[s]])' = remote'[m]
         /\ HasClosed(s)' <=> remote'[m] \in {"signalled", "ended"}
         /\ HasGreeted(s)' <=> /\ remote'[m] \in {"connected", "leaving", "signalled", "ended"}
                               /\ conn'[m]
         /\ HasGreeted(s) <=> /\ remote[m] \in {"connected", "leaving", "signalled", "ended"}
                              /\ conn[m]
<1>1. /\ UNCHANGED <<handlerVars, slotVars, machines, home>>
      /\ \A k \in Sessions \ {m} : remote'[k] = remote[k]
  BY RemoteMovesOn
<1>2. \A k \in Sessions \ {m} : conn'[k] = conn[k]
  BY DEF RemoteStep, RemoteOutput, RemoteAsks, RemoteHears, RemoteConnects, RemoteGreets,
         RemoteLeaves, RemoteSignalsClose, RemoteEnds, RemoteWrites, IInv, ServerTypeOK
<1>3. fsmMachine[s] = m /\ Current(s) /\ ~Vacant(s)
  BY MachineAtWork
<1>4. ServerMoves /\ (Ending' <=> Ending)
  BY <1>1, MachinesFacts DEF ServerMoves, Ending, handlerVars, slotVars, LinkInv
<1>5. ASSUME NEW t \in Slots \ {s}
      PROVE  SameAtServer(t)
  <2>1. ~Vacant(t) => fsmMachine[t] \in Sessions \ {m}
    BY MachinesFacts
  <2> QED
    BY <1>1, <1>2, <2>1
    DEF SameAtServer, Answering, ServesClose, ServesCompleted, handlerVars, slotVars
<1>6. ~Vacant(s)' /\ Current(s)' /\ ~Outlived(s)'
  BY <1>1, <1>3, BrowserStands DEF Vacant, Current, Outlived, slotVars
<1>7. /\ Answering(s)' <=> Answering(s)
      /\ ServesClose(s)' <=> ServesClose(s)
      /\ ServesCompleted(s)' <=> ServesCompleted(s)
      /\ UNCHANGED <<fsmMachine, fsmRunning, fsmClosed, why>>
  BY <1>1 DEF Answering, ServesClose, ServesCompleted, handlerVars, slotVars
<1>8. (remote[fsmMachine[s]])' = remote'[m]
  BY <1>3, <1>7
<1> QED
  BY <1>3, <1>4, <1>5, <1>6, <1>7, <1>8 DEF HasClosed, HasGreeted

\* Steps in which nothing is written.
LEMMA SilentKeepsLink ==
  ASSUME IInv, BrowserInv, LinkInv, NEW m \in Sessions,
         RemoteHears(m) \/ RemoteConnects(m) \/ RemoteLeaves(m) \/ RemoteEnds(m),
         UNCHANGED <<clientVars, serves>>
  PROVE  LinkInv'
<1>1. PICK s \in Slots : s = home[m]
  BY DEF IInv, ServerTypeOK
<1>2. RemoteStep(m) /\ UNCHANGED <<toServer, toClient>>
  BY DEF RemoteStep, RemoteHears, RemoteConnects, RemoteLeaves, RemoteEnds, wireVars
<1>3. /\ remote'[m] # "connected"
      /\ remote[m] = "signalled" <=> remote'[m] \in {"signalled", "ended"}
      /\ remote[m] \in {"connected", "leaving", "signalled", "ended"} =>
           remote'[m] \in {"connected", "leaving", "signalled", "ended"}
      /\ conn[m] => conn'[m]
  BY DEF RemoteHears, RemoteConnects, RemoteLeaves, RemoteEnds, IInv, ServerTypeOK
<1>4. /\ SlotInv(s) /\ fsmMachine[s] = m /\ Current(s) /\ ~Vacant(s) /\ Running(s)
      /\ remote[m] \notin {"none", "ended"}
      /\ ~IsSent(s, {"request"})
      /\ ~IsComing(s, {"completed"}) /\ ~IsComing(s, {"failed"})
      /\ HasClosed(s) <=> remote[m] = "signalled"
  BY <1>1, <1>2, MachineAtWork DEF HasClosed
<1>5. /\ ServerMoves /\ (Ending' <=> Ending)
      /\ \A t \in Slots \ {s} : SameAtServer(t)
      /\ ~Vacant(s)' /\ Current(s)' /\ ~Outlived(s)'
      /\ Answering(s)' <=> Answering(s)
      /\ ServesClose(s)' <=> ServesClose(s)
      /\ ServesCompleted(s)' <=> ServesCompleted(s)
      /\ UNCHANGED <<fsmMachine, fsmRunning, fsmClosed, why>>
      /\ (remote[fsmMachine[s]])' # "connected"
      /\ HasClosed(s)' <=> HasClosed(s)
      /\ HasGreeted(s) => HasGreeted(s)'
  BY <1>1, <1>2, <1>3, <1>4, MachineMoves
<1>6. /\ \A kinds : /\ IsSent(s, kinds)' <=> IsSent(s, kinds)
                    /\ IsComing(s, kinds)' <=> IsComing(s, kinds)
      /\ Quiet(s)' <=> Quiet(s)
  BY <1>2 DEF IsSent, IsComing, Quiet, Has
<1>7. SlotInv(s)'
  <2>1. ~Outlived(s)
    BY <1>4 DEF Outlived, Current
  <2> USE <1>4, <1>5, <1>6, <2>1, BrowserStands DEF ServerMoves
  <2>2. OpenInv(s)' /\ UseInv(s)'
    BY DEF SlotInv, OpenInv, UseInv
  <2>3. CloseInv(s)' /\ EndInv(s)'
    BY DEF SlotInv, CloseInv, EndInv
  <2>4. OutlivedInv(s)' /\ TalkInv(s)'
    BY DEF SlotInv, OutlivedInv, TalkInv
  <2> QED
    BY <2>2, <2>3, <2>4 DEF SlotInv
<1> QED
  BY <1>2, <1>5, <1>7, InsideKeepsLink
\* What a machine writes comes after what it has written before, and its session has the slot.
LEMMA SpeechInOrder ==
  ASSUME IInv, BrowserInv, LinkInv, NEW m \in Sessions, RemoteStep(m), remote[m] # "signalled",
         UNCHANGED <<clientVars, serves>>, NEW s \in Slots, s = home[m],
         NEW f \in Frames, IsOf(f, s), f.sess = m, Kind(f) \in OutputBodies \cup {"close"},
         HasGreeted(s) => Kind(f) \notin Early \cup {"connected"}
  PROVE  /\ ComingFrame(f)'
         /\ \A g \in Range(toClient) : SameStream(g, f) => MayComeAfter(g, f)
<1>1. /\ SlotInv(s) /\ fsmMachine[s] = m /\ Current(s)
      /\ ~IsComing(s, {"completed"}) /\ ~IsComing(s, {"failed"}) /\ ~IsComing(s, {"close"})
  BY MachineAtWork
<1>2. ComingFrame(f)'
  <2>1. f.sess \in 0 .. machines /\ serves[f.sess] = command[s]
    BY <1>1, MachinesFacts DEF Current, IInv, Housed, Vacant
  <2>2. UNCHANGED <<machines, serves, command>>
    BY RemoteMovesOn, BrowserStands
  <2>3. Kind(f) \in StreamKinds /\ f.slot = s
    BY DEF StreamKinds, IsOf
  <2> QED
    BY <2>1, <2>2, <2>3 DEF ComingFrame
<1>3. ASSUME NEW g \in Range(toClient), SameStream(g, f)
      PROVE  MayComeAfter(g, f)
  <2>1. IsOf(g, s)
    BY <1>3 DEF SameStream, IsOf
  <2>2. Kind(g) \notin {"completed", "failed", "close"}
    BY <1>1, <2>1 DEF IsComing, Has
  <2>3. Kind(g) \in {"connected", "output"} => IsComing(s, {"connected", "output"})
    BY <2>1 DEF IsComing, Has
  <2>4. Kind(g) \in {"connected", "output"} => HasGreeted(s)
    BY <1>1, <2>3 DEF SlotInv, TalkInv
  <2> QED
    BY <2>2, <2>4 DEF MayComeAfter, AnswerBodies, OutputBodies
<1> QED
  BY <1>2, <1>3

\* The request is answered before its machine says anything, unless that may write early.
LEMMA SpeaksAnswered ==
  ASSUME IInv, BrowserInv, LinkInv, NEW m \in Sessions, RemoteStep(m),
         RemoteWrites(m), NEW s \in Slots, s = home[m]
  PROVE  Answering(s) => EarlyFrames /\ why = "ok"
<1>1. SlotInv(s) /\ fsmMachine[s] = m /\ ~Vacant(s)
  BY MachineAtWork
<1>2. Answering(s) => why = "ok"
  BY <1>1 DEF SlotInv, OpenInv
<1> QED
  BY <1>1, <1>2 DEF RemoteWrites, Unanswered, Answering

\* What is said before there is a connection, what the remote sends, and that it is there.
LEMMA SpeechKeepsLink ==
  ASSUME IInv, Delivered, BrowserInv, LinkInv, up, NEW m \in Sessions,
         RemoteOutput(m) \/ RemoteAsks(m) \/ RemoteGreets(m),
         UNCHANGED <<clientVars, serves>>
  PROVE  LinkInv'
<1>1. PICK s \in Slots : s = home[m]
  BY DEF IInv, ServerTypeOK
<1>2. RemoteStep(m) /\ RemoteWrites(m)
  BY DEF RemoteStep, RemoteOutput, RemoteAsks, RemoteGreets
<1>3. PICK body \in OutputBodies :
        /\ WriteToClient(Stream(s, body, m))
        /\ \/ body \in Early /\ remote[m] = "dialing" /\ remote'[m] \in {"dialing", "asking"}
           \/ body \in Early /\ remote[m] = "leaving" /\ ~conn[m] /\ remote'[m] = "leaving"
           \/ body = "output" /\ remote[m] = "connected" /\ remote'[m] = "connected"
           \/ body = "connected" /\ remote[m] = "greeting" /\ remote'[m] = "connected"
  <2> USE <1>1 DEF IInv, ServerTypeOK, OutputBodies, Early
  <2>1. CASE RemoteOutput(m)
    BY <2>1 DEF RemoteOutput, Says
  <2>2. CASE RemoteAsks(m)
    BY <2>2 DEF RemoteAsks
  <2>3. CASE RemoteGreets(m)
    BY <2>3 DEF RemoteGreets
  <2> QED
    BY <2>1, <2>2, <2>3
<1>4. toServer' = toServer /\ conn' = conn
  BY <1>2 DEF RemoteWrites
<1>5. PICK f \in Frames : /\ WriteToClient(f) /\ Kind(f) = body /\ f.sess = m
                          /\ IsOf(f, s) /\ \A t : t # s => ~IsOf(f, t)
  <2>1. body \in Bodies /\ m \in 0 .. MaxSession
    BY NoRequestFact DEF Bodies
  <2>2. PICK f \in Frames : f = Stream(s, body, m)
    BY <2>1, FramesAreFrames
  <2>3. f.slot = s /\ f.sess = m /\ f.type = "stream" /\ Kind(f) = body
    BY <2>1, <2>2, FramesAreFrames
  <2> QED
    BY <1>3, <2>2, <2>3 DEF IsOf
<1>6. /\ SlotInv(s) /\ fsmMachine[s] = m /\ Current(s) /\ ~Vacant(s) /\ Running(s)
      /\ ~IsSent(s, {"request"})
      /\ ~IsComing(s, {"completed"}) /\ ~IsComing(s, {"failed"})
      /\ ~HasClosed(s) /\ ~IsComing(s, {"close"}) /\ ~Completing(s)
      /\ ~ServesCompleted(s)
      /\ ~Ending => ~IsSent(s, {"completed"})
      /\ Answering(s) => EarlyFrames /\ why = "ok"
      /\ ~Outlived(s)
  BY <1>1, <1>2, <1>3, MachineAtWork, SpeaksAnswered DEF Outlived, Current
<1>7. /\ ServerMoves /\ (Ending' <=> Ending)
      /\ \A t \in Slots \ {s} : SameAtServer(t)
      /\ ~Vacant(s)' /\ Current(s)' /\ ~Outlived(s)'
      /\ (Answering(s)' <=> Answering(s)) /\ (ServesClose(s)' <=> ServesClose(s))
      /\ ~ServesCompleted(s)'
      /\ UNCHANGED <<fsmMachine, fsmRunning, fsmClosed, why>>
      /\ (remote[fsmMachine[s]])' = remote'[m]
      /\ ~HasClosed(s)'
      /\ HasGreeted(s)' <=> /\ remote'[m] \in {"connected", "leaving", "signalled", "ended"}
                            /\ conn'[m]
      /\ HasGreeted(s) <=> /\ remote[m] \in {"connected", "leaving", "signalled", "ended"}
                           /\ conn[m]
  BY <1>1, <1>2, <1>3, <1>6, MachineMoves
<1>8. /\ HasGreeted(s) => HasGreeted(s)'
      /\ body \in Early \cup {"connected"} => ~HasGreeted(s)
      /\ body \in {"connected", "output"} => HasGreeted(s)'
  BY <1>3, <1>4, <1>7 DEF Delivered, Early
<1>9. /\ \A kinds : IsSent(s, kinds)' <=> IsSent(s, kinds)
      /\ \A kinds : body \in kinds => IsComing(s, kinds)'
      /\ \A kinds : body \notin kinds => (IsComing(s, kinds)' <=> IsComing(s, kinds))
      /\ ~Quiet(s)'
  <2>1. body \in StreamKinds
    BY DEF StreamKinds
  <2> QED
    BY <1>4, <1>5, <2>1, ComingAtoms DEF Quiet
<1>10. /\ IsComing(s, AnswerBodies)' <=> IsComing(s, AnswerBodies)
       /\ IsComing(s, {"ok"})' <=> IsComing(s, {"ok"})
       /\ ~IsComing(s, {"failed"})' /\ ~IsComing(s, {"close"})' /\ ~IsComing(s, {"completed"})'
       /\ body # "connected" => (IsComing(s, {"connected"})' <=> IsComing(s, {"connected"}))
       /\ body = "connected" => IsComing(s, {"connected"})'
       /\ body # "output" => (IsComing(s, {"output"})' <=> IsComing(s, {"output"}))
       /\ body = "output" => /\ IsComing(s, Early \cup {"connected"})'
                                  <=> IsComing(s, Early \cup {"connected"})
       /\ body \in Early => /\ IsComing(s, {"connected", "output"})'
                                 <=> IsComing(s, {"connected", "output"})
       /\ body \in Early \/ body \in {"connected", "output"}
  BY <1>6, <1>9 DEF AnswerBodies, OutputBodies, Early
<1>11. IsConnected(s) => body = "output"
  BY <1>6, <1>8, <1>10 DEF SlotInv, TalkInv
<1>12. SlotInv(s)'
  <2> USE <1>6, <1>7, BrowserStands DEF ServerMoves
  <2>1. OpenInv(s)' /\ UseInv(s)'
    BY <1>9, <1>10 DEF SlotInv, OpenInv, UseInv
  <2>2. CloseInv(s)' /\ EndInv(s)'
    BY <1>9, <1>10 DEF SlotInv, CloseInv, EndInv
  <2>3. OutlivedInv(s)'
    BY DEF OutlivedInv
  <2>4. TalkInv(s)'
    <3>1. body \in Early => body # "output" /\ body # "connected"
      BY DEF Early
    <3> QED
      BY <1>3, <1>8, <1>10, <1>11, <3>1 DEF SlotInv, TalkInv
  <2> QED
    BY <2>1, <2>2, <2>3, <2>4 DEF SlotInv
<1>13. /\ ComingFrame(f)'
       /\ \A g \in Range(toClient) : SameStream(g, f) => MayComeAfter(g, f)
  BY <1>1, <1>2, <1>3, <1>5, <1>8, SpeechInOrder
<1>14. \A t \in Slots \ {s} : SameAtServer(t) /\ ~IsOf(f, t)
  BY <1>5, <1>7
<1> QED
  BY <1>4, <1>5, <1>7, <1>12, <1>13, <1>14, WriteKeepsLink

\* The deferred function's CLOSE: from now on the browser owes a COMPLETED.
LEMMA SignalKeepsLink ==
  ASSUME IInv, BrowserInv, LinkInv, up, NEW m \in Sessions,
         RemoteSignalsClose(m), UNCHANGED <<clientVars, serves>>
  PROVE  LinkInv'
<1>1. PICK s \in Slots : s = home[m]
  BY DEF IInv, ServerTypeOK
<1>2. /\ RemoteStep(m) /\ RemoteWrites(m) /\ remote[m] = "leaving" /\ remote'[m] = "signalled"
      /\ toServer' = toServer /\ conn' = conn /\ WriteToClient(Close(s, m))
  BY <1>1 DEF RemoteStep, RemoteSignalsClose, RemoteWrites, IInv, ServerTypeOK
<1>3. PICK f \in Frames : /\ WriteToClient(f) /\ Kind(f) = "close" /\ f.sess = m
                          /\ IsOf(f, s) /\ \A t : t # s => ~IsOf(f, t)
  <2>1. "none" \in Bodies /\ m \in 0 .. MaxSession
    BY NoRequestFact DEF Bodies
  <2>2. PICK f \in Frames : f = Close(s, m)
    BY <2>1, FramesAreFrames
  <2>3. f.slot = s /\ f.sess = m /\ f.type = "close" /\ Kind(f) = "close"
    BY <2>1, <2>2, FramesAreFrames
  <2> QED
    BY <1>2, <2>2, <2>3 DEF IsOf
<1>4. /\ SlotInv(s) /\ fsmMachine[s] = m /\ Current(s) /\ ~Vacant(s) /\ Running(s)
      /\ ~IsSent(s, {"request"})
      /\ ~IsComing(s, {"completed"}) /\ ~IsComing(s, {"failed"})
      /\ ~HasClosed(s) /\ ~IsComing(s, {"close"}) /\ ~Completing(s)
      /\ ~ServesCompleted(s)
      /\ ~Ending => ~IsSent(s, {"completed"})
      /\ Answering(s) => EarlyFrames /\ why = "ok"
      /\ ~Outlived(s)
  BY <1>1, <1>2, MachineAtWork, SpeaksAnswered DEF Outlived, Current
<1>5. /\ ServerMoves /\ (Ending' <=> Ending)
      /\ \A t \in Slots \ {s} : SameAtServer(t)
      /\ ~Vacant(s)' /\ Current(s)' /\ ~Outlived(s)'
      /\ (Answering(s)' <=> Answering(s)) /\ (ServesClose(s)' <=> ServesClose(s))
      /\ ~ServesCompleted(s)'
      /\ UNCHANGED <<fsmMachine, fsmRunning, fsmClosed, why>>
      /\ (remote[fsmMachine[s]])' = "signalled"
      /\ HasClosed(s)'
      /\ HasGreeted(s)' <=> HasGreeted(s)
  BY <1>1, <1>2, <1>4, MachineMoves
<1>6. /\ \A kinds : IsSent(s, kinds)' <=> IsSent(s, kinds)
      /\ IsComing(s, {"close"})'
      /\ \A kinds : "close" \notin kinds => (IsComing(s, kinds)' <=> IsComing(s, kinds))
      /\ ~Quiet(s)'
  <2>1. "close" \in StreamKinds
    BY DEF StreamKinds
  <2> QED
    BY <1>2, <1>3, <2>1, ComingAtoms DEF Quiet
<1>7. /\ IsComing(s, AnswerBodies)' <=> IsComing(s, AnswerBodies)
      /\ IsComing(s, {"ok"})' <=> IsComing(s, {"ok"})
      /\ ~IsComing(s, {"failed"})' /\ ~IsComing(s, {"completed"})'
      /\ IsComing(s, {"connected"})' <=> IsComing(s, {"connected"})
      /\ IsComing(s, {"output"})' <=> IsComing(s, {"output"})
      /\ IsComing(s, {"connected", "output"})' <=> IsComing(s, {"connected", "output"})
      /\ IsComing(s, Early \cup {"connected"})' <=> IsComing(s, Early \cup {"connected"})
  BY <1>4, <1>6 DEF AnswerBodies, Early
<1>8. SlotInv(s)'
  <2> USE <1>4, <1>5, <1>6, <1>7, BrowserStands DEF ServerMoves
  <2>1. OpenInv(s)' /\ UseInv(s)'
    BY DEF SlotInv, OpenInv, UseInv
  <2>2. CloseInv(s)' /\ EndInv(s)'
    BY DEF SlotInv, CloseInv, EndInv
  <2>3. OutlivedInv(s)' /\ TalkInv(s)'
    BY DEF SlotInv, OutlivedInv, TalkInv
  <2> QED
    BY <2>1, <2>2, <2>3 DEF SlotInv
<1>9. /\ ComingFrame(f)'
      /\ \A g \in Range(toClient) : SameStream(g, f) => MayComeAfter(g, f)
  <2>1. Kind(f) \notin Early \cup {"connected"}
    BY <1>3 DEF Early
  <2> QED
    BY <1>1, <1>2, <1>3, <2>1, SpeechInOrder
<1>10. \A t \in Slots \ {s} : SameAtServer(t) /\ ~IsOf(f, t)
  BY <1>3, <1>5
<1> QED
  BY <1>2, <1>3, <1>5, <1>8, <1>9, <1>10, WriteKeepsLink
---------------------------------------------------------------------------
(* The invariant of the connection with both its ends.                      *)

LEMMA ServerKeepsUp ==
  ASSUME ServerStep
  PROVE  up' = up
<1> USE DEF wireVars, Reads, RemoteWrites
<1>1. CASE HandleFrame
  BY <1>1
  DEF HandleFrame, HandleEcho, HandlePause, HandleResume, HandleUnknownSignal, HandleTick,
      HandleRequest, HandleClose, HandleCompleted
<1>2. CASE ~HandleFrame
  BY <1>2
  DEF ServerStep, HandlerStep, RemoteStep, TickInput, TickRefuse, SignalAnswer, CloseReturns,
      Reply, Release, ShutdownSlot, HandleReturns, ReadFails, RemoteOutput, RemoteAsks,
      RemoteHears, RemoteConnects, RemoteGreets, RemoteLeaves, RemoteSignalsClose, RemoteEnds
<1> QED
  BY <1>1, <1>2

LEMMA ServerStepKeepsLink ==
  ASSUME IInv, Delivered, BrowserInv, LinkInv, up, ServerDoes(ServerStep)
  PROVE  LinkInv'
<1>1. /\ ServerStep /\ up /\ LinkInv /\ UNCHANGED clientVars
      /\ serves' = IF machines' = machines THEN serves
                                           ELSE [serves EXCEPT ![machines'] = Incoming.sess]
  BY DEF ServerDoes
<1>2. CASE \E s \in Slots : HandleRequest(s)
  BY <1>1, <1>2, RequestServedKeepsLink
<1>3. CASE HandleEcho \/ HandlePause \/ HandleResume \/ HandleUnknownSignal
  <2>1. serves' = serves
    BY <1>1, <1>3
    DEF HandleEcho, HandlePause, HandleResume, HandleUnknownSignal, machineVars
  <2> QED
    BY <1>1, <1>3, <2>1, ControlServedKeepsLink
<1>4. ASSUME NEW s \in Slots, HandleTick(s) \/ HandleClose(s) \/ HandleCompleted(s)
      PROVE  LinkInv'
  <2>1. serves' = serves
    BY <1>1, <1>4 DEF HandleTick, HandleClose, HandleCompleted
  <2> QED
    BY <1>1, <1>4, <2>1, TickKeepsLink, CloseServedKeepsLink, CompletedServedKeepsLink
<1>5. CASE TickInput \/ TickRefuse \/ SignalAnswer \/ CloseReturns \/ Reply
  <2>1. serves' = serves
    BY <1>1, <1>5
    DEF TickInput, TickRefuse, SignalAnswer, CloseReturns, Reply, machineVars
  <2> QED
    BY <1>1, <1>5, <2>1, GetRemoteKeepsLink, AnswerKeepsLink, CloseReturnsKeepsLink,
       ReplyKeepsLink
<1>6. CASE Release \/ ShutdownSlot \/ HandleReturns
  <2>1. serves' = serves
    BY <1>1, <1>6 DEF Release, ShutdownSlot, HandleReturns, machineVars
  <2> QED
    BY <1>1, <1>6, <2>1, ReleaseKeepsLink, ShutdownServedKeepsLink
<1>7. CASE \E m \in Sessions : RemoteStep(m)
  <2>1. PICK m \in Sessions : RemoteStep(m)
    BY <1>7
  <2>2. UNCHANGED <<clientVars, serves>>
    BY <1>1, <2>1, RemoteMovesOn
  <2> QED
    BY <1>1, <2>1, <2>2, SilentKeepsLink, SpeechKeepsLink, SignalKeepsLink DEF RemoteStep
<1>8. ~ReadFails
  BY <1>1 DEF ReadFails
<1> QED
  BY <1>1, <1>2, <1>3, <1>4, <1>5, <1>6, <1>7, <1>8
  DEF ServerStep, HandlerStep, HandleFrame

LEMMA InitMuxInv ==
  ASSUME Init
  PROVE  MuxInv
<1> USE DEF Init, WireInit, HandlerInit, ClientInit
<1>1. IInv
  BY InitIInv
<1>2. Delivered
  BY DEF Delivered
<1>3. Range(toServer) = {} /\ Range(toClient) = {}
  BY EmptySeq DEF Range
<1>4. BrowserInv
  <2>1. WireTypeOK
    BY DEF WireTypeOK
  <2>2. ClientTypeOK
    BY NoRequestFact, WireAssumption DEF ClientTypeOK, NoSession
  <2>3. Numbered
    <3>1. \A s \in Slots : command[s] <= sessions /\ ~Running(s)
      BY DEF Running, NoSession
    <3>2. \A k \in Sessions : ~(k <= machines)
      BY DEF Sessions
    <3> QED
      BY <1>3, <3>1, <3>2 DEF Numbered
  <2>4. Held
    BY DEF Held
  <2> QED
    BY <2>1, <2>2, <2>3, <2>4 DEF BrowserInv
<1>5. LinkInv
  <2>1. ASSUME NEW s \in Slots
        PROVE  SlotInv(s)
    <3>1. /\ ~Running(s) /\ ~Opening(s) /\ ~SenderClosed(s) /\ ~ShuttingDown(s)
          /\ ~IsConnected(s) /\ ~Completing(s)
          /\ Vacant(s) /\ ~Current(s) /\ ~Outlived(s)
          /\ ~Answering(s) /\ ~ServesClose(s) /\ ~ServesCompleted(s)
      BY DEF Running, Opening, SenderClosed, ShuttingDown, IsConnected, Completing, Vacant,
             Current, Outlived, Answering, ServesClose, ServesCompleted
    <3>2. \A kinds : ~IsSent(s, kinds) /\ ~IsComing(s, kinds)
      BY <1>3 DEF IsSent, IsComing, Has
    <3> QED
      BY <3>1, <3>2
      DEF SlotInv, OpenInv, UseInv, CloseInv, EndInv, OutlivedInv, TalkInv, Quiet
  <2>2. FramesInv
    BY <1>3 DEF FramesInv
  <2>3. InOrder(toClient, ComingOrder) /\ InOrder(toServer, SentOrder)
    BY EmptySeq DEF InOrder
  <2> QED
    BY <2>1, <2>2, <2>3 DEF LinkInv
<1> QED
  BY <1>1, <1>2, <1>4, <1>5 DEF MuxInv

\* What does not depend on whether a machine writes before its request is answered.
BothEndsInv == IInv /\ Delivered /\ BrowserInv

LEMMA NextKeepsBothEnds ==
  ASSUME BothEndsInv, [Next]_muxVars
  PROVE  BothEndsInv'
<1> USE DEF BothEndsInv
<1>1. CASE ServerDoes(ServerStep)
  <2>1. ServerStep
    BY <1>1 DEF ServerDoes
  <2> QED
    BY <1>1, <2>1, ServerKeepsIInv, ServerKeepsDelivered, ServerKeepsBrowser
<1>2. CASE ClientDoes(ClientStep)
  <2>1. ClientStep /\ UNCHANGED <<serverVars, serves>>
    BY <1>2 DEF ClientDoes
  <2>2. Delivered'
    BY <2>1 DEF Delivered, serverVars, machineVars
  <2> QED
    BY <2>1, <2>2, StutterKeepsIInv, ClientKeepsBrowser
<1>3. CASE HangUp \/ UNCHANGED muxVars
  <2>1. UNCHANGED <<toServer, toClient, serverVars, clientVars, serves>> /\ up' \in BOOLEAN
    BY <1>3 DEF HangUp, muxVars, wireVars, BrowserInv, WireTypeOK
  <2>2. IInv' /\ Delivered'
    BY <2>1, StutterKeepsIInv DEF Delivered, serverVars, machineVars
  <2>3. BrowserInv'
    BY <2>1
    DEF BrowserInv, WireTypeOK, ClientTypeOK, Numbered, Held, Running, NoRequest, clientVars,
        serverVars, machineVars
  <2> QED
    BY <2>2, <2>3
<1> QED
  BY <1>1, <1>2, <1>3 DEF Next, Terminated

LEMMA NextKeepsMux ==
  ASSUME MuxInv, [Next]_muxVars
  PROVE  MuxInv'
<1>1. BothEndsInv'
  BY NextKeepsBothEnds DEF MuxInv, BothEndsInv
<1>2. ASSUME up'
      PROVE  LinkInv'
  <2>1. CASE ServerDoes(ServerStep)
    <3>1. up
      BY <1>2, <2>1, ServerKeepsUp DEF ServerDoes
    <3>2. IInv /\ Delivered /\ BrowserInv /\ LinkInv
      BY <3>1 DEF MuxInv
    <3> QED
      BY <2>1, <3>1, <3>2, ServerStepKeepsLink, Zenon
  <2>2. CASE ClientDoes(ClientStep)
    BY <1>2, <2>2, ClientStepKeepsLink DEF MuxInv, ClientDoes
  <2>3. CASE HangUp
    BY <1>2, <2>3 DEF HangUp
  <2>4. CASE UNCHANGED muxVars
    <3>1. LinkInv /\ ServerMoves /\ UNCHANGED <<toServer, toClient>>
      BY <1>2, <2>4, MachinesFacts
      DEF MuxInv, ServerMoves, muxVars, wireVars, serverVars, handlerVars, slotVars, machineVars,
          Ending, LinkInv
    <3>2. \A t \in Slots : SameAtServer(t)
      BY <2>4, ServerStands DEF muxVars
    <3> QED
      BY <3>1, <3>2, InsideKeepsLink DEF MuxInv
  <2> QED
    BY <2>1, <2>2, <2>3, <2>4 DEF Next, Terminated
<1> QED
  BY <1>1, <1>2 DEF MuxInv, BothEndsInv

\* Both ends are in order at any time, whether a machine may write early or not: every slot,
\* session and machine is accounted for, and what is read is a frame of the other end.
THEOREM BothEndsInvariance == Spec => []BothEndsInv
<1>1. Init => BothEndsInv
  BY InitMuxInv DEF MuxInv, BothEndsInv
<1>2. BothEndsInv /\ [Next]_muxVars => BothEndsInv'
  BY NextKeepsBothEnds
<1> QED
  BY <1>1, <1>2, PTL DEF Spec

\* While a connection is up, what is under way in a slot fits where its two ends are, and comes
\* in an order in which both understand it: for any number of slots, sessions and
\* frames, and for both values of EarlyFrames.
THEOREM MuxInvariance == Spec => []MuxInv
<1>1. Init => MuxInv
  BY InitMuxInv
<1>2. MuxInv /\ [Next]_muxVars => MuxInv'
  BY NextKeepsMux, Zenon
<1> QED
  BY <1>1, <1>2, PTL DEF Spec

---------------------------------------------------------------------------
(* The properties.                                                          *)

\* A wizard's late cancel or timeout closes its own stream or none: the slot it remembers is
\* its session's as long as it remembers one.
THEOREM CancelsAreOwn == Spec => []CancelsOnlyItsOwn
<1>1. BothEndsInv => CancelsOnlyItsOwn
  BY DEF BothEndsInv, BrowserInv, Held, CancelsOnlyItsOwn
<1> QED
  BY <1>1, BothEndsInvariance, PTL

\* When Handle has returned no command is left behind, whatever the browser was doing.
THEOREM NothingIsLeftBehind == Spec => []NothingLeftBehind
<1>1. BothEndsInv => NothingLeftBehind
  <2> SUFFICES ASSUME IInv, pc = "done", NEW m \in Sessions
               PROVE  /\ remote[m] \in {"none", "ended"}
                      /\ m <= machines => releases[m] = 1
    BY DEF BothEndsInv, NothingLeftBehind
  <2>1. home[m] \in Slots /\ fsmMachine[home[m]] = NoSession /\ m # NoSession
    BY SlotsFacts DEF IInv, ServerTypeOK, Swept
  <2>2. CASE m <= machines
    BY <2>1, <2>2 DEF IInv, Accounted
  <2>3. CASE ~(m <= machines)
    <3>1. m > machines
      BY <2>3, MachinesFacts, SlotsFacts
    <3> QED
      BY <2>3, <3>1 DEF IInv, Unborn
  <2> QED
    BY <2>2, <2>3
<1> QED
  BY <1>1, BothEndsInvariance, PTL

LEMMA MayReadComing ==
  ASSUME MuxInv, up, toClient # <<>>
  PROVE  /\ Received \in Frames /\ Received \in Range(toClient)
         /\ ComingFrame(Received)
<1>1. Received \in Frames /\ Received \in Range(toClient)
  BY TailFrames DEF MuxInv, BrowserInv, WireTypeOK, Received
<1> QED
  BY <1>1 DEF MuxInv, LinkInv, FramesInv

LEMMA MayReadSent ==
  ASSUME MuxInv, up, toServer # <<>>
  PROVE  /\ Incoming \in Frames /\ Incoming \in Range(toServer)
         /\ SentFrame(Incoming)
<1>1. Incoming \in Frames /\ Incoming \in Range(toServer)
  BY TailFrames DEF MuxInv, BrowserInv, WireTypeOK, Incoming
<1> QED
  BY <1>1 DEF MuxInv, LinkInv, FramesInv

\* What is typed into one terminal reaches only its own remote, and what a remote writes shows
\* only in its own terminal.
THEOREM TerminalsAreSeparate == Spec => []NoCrossTalk
<1>1. ASSUME MuxInv
      PROVE  NoCrossTalk
  <2>1. ASSUME up, pc = "read", toServer # <<>>, Incoming.body # "request",
               Incoming.sess # NoSession, fsmRunning[Incoming.slot]
        PROVE  serves[fsmMachine[Incoming.slot]] = Incoming.sess
    <3>1. /\ Incoming \in Range(toServer) /\ Incoming \in Frames /\ Incoming.slot \in Slots
          /\ SentFrame(Incoming)
      BY <1>1, <2>1, MayReadSent DEF Frames
    <3>2. PICK s \in Slots : s = Incoming.slot
      BY <3>1
    <3>3. /\ SlotInv(s) /\ ~Ending /\ ~Vacant(s) /\ ~ServesCompleted(s)
      BY <1>1, <2>1, <3>2
      DEF MuxInv, LinkInv, Ending, IInv, SlotsInStep, Vacant, ServesCompleted
    <3>4. /\ Incoming.type # "control" /\ Kind(Incoming) # "request"
          /\ Kind(Incoming) \in Messages \cup {"close", "completed"}
      <4>1. Incoming \notin {Control("pause"), Control("resume")}
        BY <2>1 DEF Control
      <4>2. Kind(Incoming) \in Messages \cup {"request", "close", "completed"}
        BY <3>1, <4>1 DEF SentFrame
      <4>3. Incoming.type # "control"
        BY <4>2 DEF Kind, Messages
      <4>4. Kind(Incoming) # "request"
        BY <2>1, <3>1 DEF Kind, Frames, Types
      <4> QED
        BY <4>2, <4>3, <4>4
    <3>5. CASE Kind(Incoming) = "completed"
      BY <3>1, <3>2, <3>3, <3>4, <3>5 DEF SentFrame, Control
    <3>6. CASE Kind(Incoming) \in Messages \cup {"close"}
      <4>1. Incoming.sess = command[s] /\ IsOf(Incoming, s)
        BY <3>1, <3>2, <3>3, <3>4, <3>6 DEF SentFrame, Control, IsOf, Messages
      <4>2. CASE Kind(Incoming) \in Messages
        <5>1. IsSent(s, Messages)
          BY <3>1, <4>1, <4>2 DEF IsSent, Has
        <5> QED
          BY <3>2, <3>3, <4>1, <5>1 DEF SlotInv, UseInv, Current
      <4>3. CASE Kind(Incoming) = "close"
        <5>1. ~Outlived(s)
          BY <1>1, <2>1, <3>2, <3>4, <4>3, NextIsOfNow DEF MuxInv
        <5> QED
          BY <3>2, <3>3, <4>1, <5>1 DEF Outlived
      <4> QED
        BY <3>6, <4>2, <4>3
    <3> QED
      BY <3>4, <3>5, <3>6
  <2>2. ASSUME up, cpc = "serve", toClient # <<>>, Received.sess # NoSession
        PROVE  serves[Received.sess] = command[Received.slot]
    BY <1>1, <2>2, MayReadComing DEF ComingFrame, Control
  <2> QED
    BY <2>1, <2>2 DEF NoCrossTalk
<1> QED
  BY <1>1, MuxInvariance, PTL

\* The answer to a request, connect.succeed and CLOSE are read where they are expected: what
\* comes before them is in front of them.
LEMMA NextComes ==
  ASSUME MuxInv, up, toClient # <<>>, Received.type # "control", NEW s \in Slots,
         s = Received.slot
  PROVE  /\ IsOf(Received, s) /\ Kind(Received) \in StreamKinds /\ ~Quiet(s)
         /\ SlotInv(s)
         /\ IsComing(s, AnswerBodies) => Kind(Received) \in AnswerBodies \/ EarlyFrames
         /\ Kind(Received) = "output" => ~IsComing(s, {"connected"})
         /\ Kind(Received) = "completed" => ~IsComing(s, {"close"})
<1>1. /\ Received \in Frames /\ Received \in Range(toClient) /\ SlotInv(s)
      /\ IsOf(Received, s) /\ Kind(Received) \in StreamKinds
  BY MayReadComing DEF MuxInv, LinkInv, ComingFrame, Control, IsOf
<1>2. ~Quiet(s)
  BY <1>1 DEF Quiet, IsComing, Has
<1>3. /\ Range(toClient) = {Received} \cup Range(Tail(toClient))
      /\ \A g \in Range(Tail(toClient)) : <<Received, g>> \in ComingOrder
  BY TailFrames DEF MuxInv, BrowserInv, WireTypeOK, LinkInv, Received
<1>4. ASSUME NEW g \in Range(toClient), IsOf(g, s), Kind(g) # Kind(Received)
      PROVE  MayComeAfter(Received, g)
  <2>1. g \in Range(Tail(toClient))
    BY <1>3, <1>4
  <2>2. SameStream(Received, g) => MayComeAfter(Received, g)
    BY <1>3, <2>1 DEF ComingOrder
  <2> QED
    BY <1>1, <1>4, <2>2 DEF SameStream, IsOf
<1>5. IsComing(s, AnswerBodies) => Kind(Received) \in AnswerBodies \/ EarlyFrames
  BY <1>4 DEF IsComing, Has, MayComeAfter
<1>6. Kind(Received) = "output" => ~IsComing(s, {"connected"})
  BY <1>4 DEF IsComing, Has, MayComeAfter
<1>7. Kind(Received) = "completed" => ~IsComing(s, {"close"})
  BY <1>4 DEF IsComing, Has, MayComeAfter
<1> QED
  BY <1>1, <1>2, <1>5, <1>6, <1>7

\* The server never reads a frame it does not expect, whether a machine writes early or not.
LEMMA ServerExpects ==
  ASSUME MuxInv, up, pc = "read", toServer # <<>>
  PROVE  Expected(Incoming)
<1>1. CASE Incoming.type = "control"
  BY <1>1 DEF Expected
<1>2. CASE Incoming.type # "control"
  <2>1. /\ Incoming \in Frames /\ Incoming \in Range(toServer) /\ SentFrame(Incoming)
    BY MayReadSent
  <2>2. PICK s \in Slots : s = Incoming.slot
    BY <2>1 DEF Frames
  <2>3. SlotInv(s) /\ ~Ending /\ IsOf(Incoming, s) /\ (Vacant(s) => ~fsmRunning[s])
    BY <1>2, <2>2 DEF MuxInv, LinkInv, Ending, IsOf, IInv, SlotsInStep, Vacant
  <2>4. \A kinds : Kind(Incoming) \in kinds => IsSent(s, kinds)
    BY <2>1, <2>3 DEF IsSent, Has
  <2>5. Kind(Incoming) \in Messages \cup {"request", "close", "completed"}
    BY <1>2, <2>1 DEF SentFrame, Control
  <2>6. CASE Incoming.type = "stream"
    <3>1. Incoming.body = Kind(Incoming) /\ Incoming.body \in Messages \cup {"request"}
      <4>1. Incoming.body \in Bodies
        BY <2>1 DEF Frames
      <4> QED
        BY <2>5, <2>6, <4>1
        DEF Kind, Bodies, ControlBodies, RequestBodies, MessageBodies, AnswerBodies, OutputBodies
    <3>2. CASE Incoming.body = "request"
      <4>1. ~Current(s)
        BY <2>3, <2>4, <3>1, <3>2 DEF SlotInv, OpenInv
      <4>2. ~Outlived(s)
        BY <1>2, <2>2, <3>1, <3>2, NextIsOfNow DEF MuxInv
      <4>3. ~fsmRunning[s]
        BY <2>3, <4>1, <4>2 DEF Current, Outlived
      <4> QED
        BY <2>2, <2>6, <3>2, <4>3 DEF Expected
    <3>3. CASE Incoming.body # "request"
      <4>1. fsmRunning[s] /\ ~fsmClosed[s]
        BY <2>3, <2>4, <3>1, <3>3 DEF SlotInv, UseInv
      <4> QED
        BY <2>2, <2>6, <3>3, <4>1 DEF Expected
    <3> QED
      BY <3>2, <3>3
  <2>7. CASE Incoming.type = "completed"
    <3>1. fsmRunning[s]
      BY <2>3, <2>4, <2>7 DEF SlotInv, EndInv, Kind
    <3> QED
      BY <2>2, <2>7, <3>1 DEF Expected
  <2>8. CASE Incoming.type = "close"
    BY <2>8 DEF Expected
  <2> QED
    BY <1>2, <2>1, <2>6, <2>7, <2>8 DEF Frames, Types
<1> QED
  BY <1>1, <1>2

\* No command of the browser ever meets a slot that cannot take it, even when a machine's
\* goroutine writes before the answer to its request: handleStream has no error to return.
THEOREM ServerIsNotSurprised ==
  Spec => [](up /\ pc = "read" /\ toServer # <<>> => Expected(Incoming))
<1>1. MuxInv => (up /\ pc = "read" /\ toServer # <<>> => Expected(Incoming))
  BY ServerExpects
<1> QED
  BY <1>1, MuxInvariance, PTL

\* Neither end ever reads a frame it does not expect, whatever closes, cancels and failed
\* requests have crossed: no slot's trouble resets the connection of all of them.  As long
\* as no machine writes before its request is answered, that is: with one that does, the
\* browser reads a frame of a stream it takes to be initializing.
THEOREM NoSurprises ==
  ASSUME EarlyFrames = FALSE
  PROVE  Spec => []NeverSurprised
<1>1. ASSUME MuxInv, up, cpc = "serve", toClient # <<>>
      PROVE  Acceptable(Received)
  <2>1. /\ Received \in Frames /\ ComingFrame(Received)
    BY <1>1, MayReadComing
  <2>2. CASE Received.type = "control"
    BY <2>1, <2>2 DEF ComingFrame, Acceptable, Kind, Control, StreamKinds, AnswerBodies, OutputBodies
  <2>3. CASE Received.type # "control"
    <3>1. PICK s \in Slots : s = Received.slot
      BY <2>1 DEF Frames
    <3>2. /\ Kind(Received) \in StreamKinds /\ ~Quiet(s) /\ SlotInv(s)
          /\ IsOf(Received, s)
          /\ IsComing(s, AnswerBodies) => Kind(Received) \in AnswerBodies
          /\ Kind(Received) = "output" => ~IsComing(s, {"connected"})
          /\ Kind(Received) = "completed" => ~IsComing(s, {"close"})
      BY <1>1, <2>3, <3>1, NextComes
    <3>3. Running(s)
      BY <3>2 DEF SlotInv, TalkInv
    <3>4. \A kinds : Kind(Received) \in kinds => IsComing(s, kinds)
      BY <1>1, <3>2, MayReadComing DEF IsComing, Has
    <3>5. CASE Received.type = "stream"
      <4>1. Received.body = Kind(Received) /\ Received.body \in AnswerBodies \cup OutputBodies
        <5>1. Received.body \in Bodies
          BY <2>1 DEF Frames
        <5> QED
          BY <3>2, <3>5, <5>1
          DEF Kind, StreamKinds, Bodies, ControlBodies, RequestBodies, MessageBodies,
              AnswerBodies, OutputBodies
      <4>2. CASE initializing[s]
        <5>1. IsComing(s, AnswerBodies)
          BY <3>2, <3>3, <4>2 DEF SlotInv, OpenInv, Opening
        <5> QED
          BY <3>1, <3>2, <3>3, <3>5, <4>1, <4>2, <5>1 DEF Acceptable
      <4>3. CASE ~initializing[s]
        <5>1. Received.body \in OutputBodies
          BY <3>2, <3>4, <4>1, <4>3 DEF SlotInv, OpenInv, Opening
        <5>2. shuttingDown[s] \/ ((Received.body = "output") = connected[command[s]])
          <6>1. SUFFICES ASSUME ~ShuttingDown(s)
                         PROVE  (Received.body = "output") <=> IsConnected(s)
            BY <1>1, <3>3, ClientFacts
            DEF ShuttingDown, IsConnected, MuxInv, BrowserInv, ClientTypeOK
          <6>2. CASE IsConnected(s)
            BY <3>2, <3>4, <4>1, <5>1, <6>2 DEF SlotInv, TalkInv, OutputBodies, Early
          <6>3. CASE ~IsConnected(s)
            BY <3>2, <3>4, <4>1, <6>1, <6>3 DEF SlotInv, TalkInv
          <6> QED
            BY <6>2, <6>3
        <5> QED
          BY <3>1, <3>3, <3>5, <4>3, <5>1, <5>2 DEF Acceptable, Understands
      <4> QED
        BY <4>2, <4>3
    <3>6. CASE Received.type = "close"
      BY <3>1, <3>3, <3>6 DEF Acceptable
    <3>7. CASE Received.type = "completed"
      <4>1. ShuttingDown(s)
        BY <3>2, <3>4, <3>7 DEF SlotInv, CloseInv, Kind
      <4> QED
        BY <3>1, <3>3, <3>7, <4>1 DEF Acceptable, ShuttingDown
    <3> QED
      BY <2>1, <2>3, <3>5, <3>6, <3>7 DEF Frames, Types
  <2> QED
    BY <2>2, <2>3
<1>2. ASSUME MuxInv, up, pc = "read", toServer # <<>>
      PROVE  Expected(Incoming)
  BY <1>2, ServerExpects
<1>3. MuxInv => NeverSurprised
  BY <1>1, <1>2 DEF NeverSurprised
<1> QED
  BY <1>3, MuxInvariance, PTL

\* No command runs on the server that the browser neither shows nor has written COMPLETED for.
THEOREM NoGhosts == Spec => []NoGhostCommand
<1>1. ASSUME MuxInv, up, NEW s \in Slots, fsmMachine[s] # NoSession
      PROVE  \/ command[s] = serves[fsmMachine[s]]
             \/ Completed(s, serves[fsmMachine[s]]) \in Range(toServer)
             \/ pc \in {"closing", "releasing"} /\ cur = s /\ why = "completed"
  <2>1. SUFFICES ASSUME Outlived(s), ~ServesCompleted(s)
                 PROVE  Completed(s, serves[fsmMachine[s]]) \in Range(toServer)
    BY <1>1 DEF Outlived, Vacant, ServesCompleted
  <2>2. PICK f \in Range(toServer) : IsOf(f, s) /\ Kind(f) = "completed"
    BY <1>1, <2>1 DEF MuxInv, LinkInv, SlotInv, OutlivedInv, IsSent, Has
  <2>3. SentFrame(f)
    BY <1>1 DEF MuxInv, LinkInv, FramesInv
  <2> QED
    BY <2>1, <2>2, <2>3 DEF SentFrame, IsOf, Control, Outlived
<1>2. MuxInv => NoGhostCommand
  BY <1>1 DEF NoGhostCommand
<1> QED
  BY <1>2, MuxInvariance, PTL
============================================================================
