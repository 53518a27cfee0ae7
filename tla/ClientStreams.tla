--------------------------- MODULE ClientStreams ---------------------------
(***************************************************************************)
(* The browser end of one connection: Streams, Stream and Sender of        *)
(* src/ui/stream, and what the commands of src/ui/commands and the         *)
(* terminal do with them.  Streams.serve reads frames one at a time and    *)
(* suspends at every await; the user interface runs in between.  Unlike    *)
(* the server's, a slot of the client is taken before the server has said  *)
(* anything: Stream.run marks it as initializing and the answer to the     *)
(* request ends that.                                                      *)
(*                                                                         *)
(* A session is one run of a command, numbered in the order of the         *)
(* requests.  Frames carry the session whose end wrote them.               *)
(***************************************************************************)
EXTENDS Wire

CONSTANTS Refusals,   \* do users refuse fingerprints?
          Pauses      \* does the browser ever fall behind what it receives?

ASSUME ClientAssumption == /\ Refusals \in BOOLEAN
                           /\ Pauses \in BOOLEAN

VARIABLES
  cpc,           \* serve; completing: in handleClose, after stream.close; stopped
  closing,       \* the slot handleClose works on
  command,       \* Stream.command: the session that has the slot, or NoSession
  initializing,  \* Stream.isInitializing
  shuttingDown,  \* Stream.isShuttingDown
  sessions,      \* history: how many sessions there have been
  senderClosed,  \* the session's Sender.closed
  connected,     \* the session's SSH.connected: its terminal is there
  request,       \* lifecycle.request: the slot of the session's request, as long as
                 \* its wizard holds it, or NoRequest
  prompted,      \* has it been asked something that was not answered yet?
  streamPaused   \* socket.js: has the server been asked to pause?

clientVars == <<cpc, closing, command, initializing, shuttingDown, sessions,
                senderClosed, connected, request, prompted, streamPaused>>

NoRequest == MaxSlot + 1

ClientInit ==
  /\ cpc = "serve"
  /\ closing = 0
  /\ command = [s \in Slots |-> NoSession]
  /\ initializing = [s \in Slots |-> FALSE]
  /\ shuttingDown = [s \in Slots |-> FALSE]
  /\ sessions = 0
  /\ senderClosed = [m \in Sessions |-> FALSE]
  /\ connected = [m \in Sessions |-> FALSE]
  /\ request = [m \in Sessions |-> NoRequest]
  /\ prompted = [m \in Sessions |-> FALSE]
  /\ streamPaused = FALSE

---------------------------------------------------------------------------
Running(s) == command[s] # NoSession

\* Stream.clear: the command is dropped, and what it knew with it.
Clear(s) ==
  LET m == command[s]
  IN /\ command' = [command EXCEPT ![s] = NoSession]
     /\ initializing' = [initializing EXCEPT ![s] = FALSE]
     /\ shuttingDown' = [shuttingDown EXCEPT ![s] = FALSE]
     /\ senderClosed' = [senderClosed EXCEPT ![m] = FALSE]
     /\ connected' = [connected EXCEPT ![m] = FALSE]
     /\ prompted' = [prompted EXCEPT ![m] = FALSE]

KeepCommand == UNCHANGED <<command, shuttingDown, senderClosed, connected, prompted>>

\* Sender.close: CLOSE is sent once.  What the program sends it never waits for:
\* the browser queues it.
CloseSender(m, s) ==
  /\ senderClosed' = [senderClosed EXCEPT ![m] = TRUE]
  /\ IF senderClosed[m] THEN UNCHANGED toServer ELSE WriteToServer(Close(s, m))

\* Mutant: COMPLETED is answered, but the stream is not closed.
KeepOpen(s) == UNCHANGED <<shuttingDown, senderClosed, toServer>>

\* Stream.close, for a running stream.  Closing it again has no effect but an
\* exception, which the callers avoid or catch.
CloseStream(s) ==
  IF shuttingDown[s]
    THEN UNCHANGED <<shuttingDown, senderClosed, toServer>>
    ELSE /\ shuttingDown' = [shuttingDown EXCEPT ![s] = TRUE]
         /\ CloseSender(command[s], s)

\* The user interface is not in a hurry when many frames are under way (a bound).
Uncongested == up /\ Len(toServer) < MaxInFlight

\* Mutant: the wizard is not told.
KeepRequest(m) == UNCHANGED request

\* The end of the wizard's interest in its request (lifecycle.complete).
DropRequest(m) == request' = [request EXCEPT ![m] = NoRequest]

---------------------------------------------------------------------------
(* The user interface.  It acts at any time: Streams.serve is suspended     *)
(* whenever it does.                                                        *)

FirstFree(s) == ~Running(s) /\ \A t \in Slots : t < s => Running(t)

\* Streams.request and Stream.run: the first slot that is not running.
Request(s) ==
  LET m == sessions + 1
  IN /\ cpc # "stopped" /\ Uncongested
     /\ m \in Sessions
     /\ FirstFree(s)
     /\ sessions' = m
     /\ command' = [command EXCEPT ![s] = m]
     /\ initializing' = [initializing EXCEPT ![s] = TRUE]
     /\ request' = [request EXCEPT ![m] = s]
     /\ WriteToServer(Stream(s, "request", m))
     /\ UNCHANGED <<toClient, up, cpc, closing, shuttingDown, senderClosed,
                    connected, prompted, streamPaused>>

\* The wizard is closed, or the request was not accepted within 15 seconds:
\* ConnectionRequestLifecycle.fail calls the slot's Stream.close, which throws
\* when the slot is free or shutting down (caught there).
CancelRequest(m) ==
  LET s == request[m]
  IN /\ cpc # "stopped" /\ s \in Slots
     /\ DropRequest(m)
     /\ IF Running(s) THEN CloseStream(s)
                      ELSE UNCHANGED <<shuttingDown, senderClosed, toServer>>
     /\ UNCHANGED <<toClient, up, cpc, closing, command, initializing, sessions,
                    connected, prompted, streamPaused>>

\* The terminal is closed, or the user does not want to log in: sendClose.  The
\* slot is not marked as shutting down.
CloseTerminal(s) ==
  LET m == command[s]
  IN /\ cpc # "stopped" /\ Running(s) /\ ~initializing[s] /\ ~senderClosed[m]
     /\ CloseSender(m, s)
     /\ UNCHANGED <<toClient, up, cpc, closing, command, initializing, shuttingDown,
                    sessions, connected, request, prompted, streamPaused>>

\* Sender.send: what is typed into the terminal, or the answer to a prompt.
Say(s, body) ==
  LET m == command[s]
  IN /\ cpc # "stopped" /\ Uncongested
     /\ Running(s) /\ ~initializing[s] /\ ~senderClosed[m]
     /\ body = "input" => connected[m]
     /\ body # "input" => prompted[m]
     /\ prompted' = [prompted EXCEPT ![m] = @ /\ body = "input"]
     /\ WriteToServer(Stream(s, body, m))
     /\ UNCHANGED <<toClient, up, cpc, closing, command, initializing, shuttingDown,
                    sessions, senderClosed, connected, request, streamPaused>>

SayAnything(s) == \/ Say(s, "input") \/ Say(s, "answer")
                  \/ Refusals /\ Say(s, "refuse")

\* socket.js: the server is asked to pause when much has been received that was
\* not read yet, and to resume when it has been.
PauseServer ==
  /\ cpc # "stopped" /\ Uncongested
  /\ Pauses /\ ~streamPaused /\ toClient # <<>>
  /\ streamPaused' = TRUE
  /\ WriteToServer(Control("pause"))
  /\ UNCHANGED <<toClient, up, cpc, closing, command, initializing, shuttingDown,
                 sessions, senderClosed, connected, request, prompted>>

ResumeServer ==
  /\ cpc # "stopped"
  /\ streamPaused /\ toClient = <<>>
  /\ streamPaused' = FALSE
  /\ WriteToServer(Control("resume"))
  /\ UNCHANGED <<toClient, up, cpc, closing, command, initializing, shuttingDown,
                 sessions, senderClosed, connected, request, prompted>>

---------------------------------------------------------------------------
(* Streams.serve and Streams.tick                                           *)

Received == Head(toClient)

Receives(type) == /\ cpc = "serve"
                  /\ toClient # <<>>
                  /\ Received.type = type
                  /\ toClient' = Tail(toClient)
                  /\ UNCHANGED up

\* The tick of SSH and the like: what the remote sends comes after connect.succeed,
\* all else before it.  Nothing is read that comes to a stream shutting down.
Understands(s, body) == \/ shuttingDown[s]
                        \/ (body = "output") = connected[command[s]]

\* What the handlers take without an exception.  A frame for a slot that does not
\* run "must be reset at this point because we cannot determine how many bytes
\* to read"; one whose kind is not the expected one is misread.
Acceptable(f) ==
  CASE f.type = "control" -> f.body = "echo"
    [] f.type = "stream" -> /\ Running(f.slot)
                            /\ IF initializing[f.slot]
                                 THEN f.body \in AnswerBodies
                                 ELSE f.body \in OutputBodies /\ Understands(f.slot, f.body)
    [] f.type = "close" -> Running(f.slot)
    [] f.type = "completed" -> Running(f.slot) /\ shuttingDown[f.slot]

ReceiveEcho ==
  /\ Receives("control") /\ Acceptable(Received)
  /\ UNCHANGED <<toServer, clientVars>>

\* Mutant: a stream that is shutting down is freed by the answer.
AnswerFreesClosed(s) == Received.body = "failed" \/ shuttingDown[s]
AnswerFrees(s) == Received.body = "failed" /\ ~shuttingDown[s]

\* Stream.initialize: an answer to a slot that is shutting down is only noted, a
\* failure frees the slot, and ends the wizard's interest in the request.
ReceiveAnswer ==
  LET s == Received.slot
  IN /\ Receives("stream") /\ Acceptable(Received) /\ initializing[s]
     /\ IF AnswerFrees(s)
          THEN Clear(s) /\ DropRequest(command[s])
          ELSE /\ initializing' = [initializing EXCEPT ![s] = FALSE]
               /\ KeepCommand /\ UNCHANGED request
     /\ UNCHANGED <<toServer, cpc, closing, sessions, streamPaused>>

\* Streams.handleStream and Stream.tick: dropped while the slot is shutting down.
\* Success and failure are the end of the wizard's interest in the request.
ReceiveOutput ==
  LET s == Received.slot
      m == command[s]
      gets(body) == Received.body = body /\ ~shuttingDown[s]
  IN /\ Receives("stream") /\ Acceptable(Received) /\ ~initializing[s]
     /\ connected' = [connected EXCEPT ![m] = @ \/ gets("connected")]
     /\ prompted' = [prompted EXCEPT ![m] = @ \/ gets("prompt")]
     /\ IF gets("connected") \/ gets("report") THEN DropRequest(m) ELSE UNCHANGED request
     /\ UNCHANGED <<toServer, cpc, closing, command, initializing, shuttingDown,
                    sessions, senderClosed, streamPaused>>

\* Streams.handleClose up to the await: Stream.close, unless it was called before.
ReceiveClose ==
  LET s == Received.slot
  IN /\ Receives("close") /\ Acceptable(Received)
     /\ CloseStream(s)
     /\ cpc' = "completing"
     /\ closing' = s
     /\ UNCHANGED <<command, initializing, sessions, connected, request, prompted,
                    streamPaused>>

\* Mutant: the slot is free when both sides have sent CLOSE.
FreeSlot(s) == Clear(s)
HoldSlot(s) == KeepCommand /\ UNCHANGED initializing

\* ... and after it.  The slot stays taken until the server's COMPLETED.
AnswerClose ==
  /\ cpc = "completing"
  /\ WriteToServer(Completed(closing, command[closing]))
  /\ HoldSlot(closing)
  /\ cpc' = "serve"
  /\ closing' = 0
  /\ UNCHANGED <<toClient, up, sessions, request, streamPaused>>

\* Streams.handleCompleted: the slot is free.
ReceiveCompleted ==
  /\ Receives("completed") /\ Acceptable(Received)
  /\ Clear(Received.slot)
  /\ DropRequest(command[Received.slot])
  /\ UNCHANGED <<toServer, cpc, closing, sessions, streamPaused>>

\* Streams.clear: every stream is closed and completed, and the WebSocket with
\* them.  What was not sent by then no longer matters.
ClearAll ==
  /\ cpc' = "stopped"
  /\ closing' = 0
  /\ command' = [s \in Slots |-> NoSession]
  /\ initializing' = [s \in Slots |-> FALSE]
  /\ shuttingDown' = [s \in Slots |-> FALSE]
  /\ senderClosed' = [m \in Sessions |-> FALSE]
  /\ connected' = [m \in Sessions |-> FALSE]
  /\ prompted' = [m \in Sessions |-> FALSE]
  /\ request' = [m \in Sessions |-> NoRequest]
  /\ up' = FALSE
  /\ UNCHANGED <<toServer, toClient, sessions, streamPaused>>

\* An exception in serve, or the end of the connection seen by the reader.
ServeFails ==
  /\ cpc # "stopped"
  /\ \/ cpc = "serve" /\ toClient # <<>> /\ ~Acceptable(Received)
     \/ ~up
  /\ ClearAll

\* Two heartbeats in a row go unanswered, or the socket is closed (Socket.close).
GiveUp == cpc # "stopped" /\ up /\ ClearAll

ServeStep == \/ ReceiveEcho \/ ReceiveAnswer \/ ReceiveOutput
             \/ ReceiveClose \/ AnswerClose \/ ReceiveCompleted
             \/ ServeFails

UserStep == \/ \E s \in Slots : Request(s) \/ CloseTerminal(s) \/ SayAnything(s)
            \/ \E m \in Sessions : CancelRequest(m)
            \/ PauseServer \/ ResumeServer

ClientStep == ServeStep \/ UserStep \/ GiveUp
============================================================================
