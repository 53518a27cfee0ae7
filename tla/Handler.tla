------------------------------ MODULE Handler ------------------------------
(***************************************************************************)
(* The server end of one connection: Handler, handlerSender, streams,      *)
(* stream and FSM of src/application/command.  One goroutine reads frames  *)
(* and serves them one at a time; every command it boots brings a          *)
(* goroutine of its own (FSMMachine's "remote"), which writes to the same  *)
(* connection.  A client that falls behind asks the server to pause, and   *)
(* from then on every write blocks until the handler goroutine lifts the   *)
(* pause: at the client's request, for the length of an operation on a     *)
(* slot, or when the connection ends.                                      *)
(*                                                                         *)
(* The machines are what the four commands of src/application/commands     *)
(* have in common: dial and, on the way, ask the user; deliver the         *)
(* connection on a channel, copy output, send CLOSE and end; Close cancels *)
(* and waits for that end.  They are named by the order in which they were *)
(* booted.                                                                 *)
(*                                                                         *)
(* The other end is left open: OpenHandler.tla puts any client at all      *)
(* there, Mux.tla the one of src/ui/stream.                                *)
(***************************************************************************)
EXTENDS Wire

CONSTANT EarlyFrames   \* may a new machine write before the answer to its request?

ASSUME HandlerAssumption == EarlyFrames \in BOOLEAN

VARIABLES
  pc,            \* where the handler goroutine is, see Steps
  cur,           \* the slot it works on; the loop variable of shutdown
  why,           \* what it is doing there, see Purposes
  senderPaused,  \* Handler.senderPaused
  needWait,      \* handlerSender.needWait
  fsmMachine,    \* stream.f.m: the slot's machine, NoSession for nil
  fsmRunning,    \* stream.f.s # nil
  fsmClosed,     \* stream.f.closed
  strClosed,     \* stream.closed
  machines,      \* history: how many machines have been booted
  home,          \* StreamResponder.h: the slot a machine writes to
  remote,        \* the machine's goroutine, see RemoteStates
  reply,         \* the user's answer that waits for it in a channel
  conn,          \* has it delivered its remote connection?
  cancelled,     \* has its context been cancelled or its connection closed?
  closes,        \* history: calls of the machine's Close
  releases       \* history: calls of its Release

handlerVars == <<pc, cur, why, senderPaused, needWait>>
slotVars == <<fsmMachine, fsmRunning, fsmClosed, strClosed>>
machineVars == <<machines, home, remote, reply, conn, cancelled, closes, releases>>
serverVars == <<handlerVars, slotVars, machineVars>>
vars == <<wireVars, serverVars>>

\* read:      blocked in FetchOneByte, between two frames
\* signal:    in reinit, about to write the answer to a request
\* tick:      in a command's FSMState, blocked in getRemote
\* closing:   in a machine's Close, waiting for its goroutine to end
\* releasing: about to call the machine's Release
\* reply:     in handleClose, about to write COMPLETED
\* shutdown:  in streams.shutdown, at slot cur
\* done:      Handle has returned
Steps == {"read", "signal", "tick", "closing", "releasing", "reply",
          "shutdown", "done"}

Purposes == {"none", "ok", "failed", "input", "refuse",
             "close", "completed", "shutdown"}

\* none:      not booted
\* dialing:   hooks, dial, authentication
\* asking:    has sent a question, waits for the answer
\* greeting:  has delivered the connection, about to report it
\* connected: copying the output of the remote
\* leaving:   on its way out, it may still report why
\* signalled: has written CLOSE
\* ended:     remoteCloseWait.Done has been called
RemoteStates == {"none", "dialing", "asking", "greeting", "connected", "leaving",
                 "signalled", "ended"}

Replies == {"none", "yes", "no"}

ServerTypeOK ==
  /\ pc \in Steps
  /\ cur \in 0 .. MaxSlot + 1
  /\ why \in Purposes
  /\ senderPaused \in BOOLEAN
  /\ needWait \in BOOLEAN
  /\ fsmMachine \in [Slots -> 0 .. MaxSession]
  /\ fsmRunning \in [Slots -> BOOLEAN]
  /\ fsmClosed \in [Slots -> BOOLEAN]
  /\ strClosed \in [Slots -> BOOLEAN]
  /\ machines \in 0 .. MaxSession
  /\ home \in [Sessions -> Slots]
  /\ remote \in [Sessions -> RemoteStates]
  /\ reply \in [Sessions -> Replies]
  /\ conn \in [Sessions -> BOOLEAN]
  /\ cancelled \in [Sessions -> BOOLEAN]
  /\ closes \in [Sessions -> Nat]
  /\ releases \in [Sessions -> Nat]

TypeOK == WireTypeOK /\ ServerTypeOK

HandlerInit ==
  /\ pc = "read"
  /\ cur = 0
  /\ why = "none"
  /\ senderPaused = FALSE
  /\ needWait = FALSE
  /\ fsmMachine = [s \in Slots |-> NoSession]
  /\ fsmRunning = [s \in Slots |-> FALSE]
  /\ fsmClosed = [s \in Slots |-> FALSE]
  /\ strClosed = [s \in Slots |-> FALSE]
  /\ machines = 0
  /\ home = [m \in Sessions |-> 0]
  /\ remote = [m \in Sessions |-> "none"]
  /\ reply = [m \in Sessions |-> "none"]
  /\ conn = [m \in Sessions |-> FALSE]
  /\ cancelled = [m \in Sessions |-> FALSE]
  /\ closes = [m \in Sessions |-> 0]
  /\ releases = [m \in Sessions |-> 0]

---------------------------------------------------------------------------
(* What the actions of the handler goroutine are made of.                  *)

Goto(step, s, purpose) == /\ pc' = step
                          /\ cur' = s
                          /\ why' = purpose

NextFrame == Goto("read", 0, "none")

\* Mutant: the pause is not lifted.
KeepPause == UNCHANGED needWait

\* An operation on a slot lifts the client's pause for as long as it lasts:
\*   if e.senderPaused { e.sender.resume(); defer e.sender.pause() }
LiftPause == needWait' = (IF senderPaused THEN FALSE ELSE needWait)

\* Mutant: the deferred pause is forgotten.
NoRestore == UNCHANGED needWait
RestorePause == needWait' = (IF senderPaused THEN TRUE ELSE needWait)

\* Mutant: the sender stays paused.
EndPaused == /\ Goto("shutdown", 0, "none")
             /\ UNCHANGED <<senderPaused, needWait>>

\* Handle returns an error: the deferred function resumes the sender for good
\* and goes through the slots.
EndConnection == /\ Goto("shutdown", 0, "none")
                 /\ senderPaused' = FALSE
                 /\ needWait' = FALSE

Incoming == Head(toServer)

Reads(type) == /\ pc = "read"
               /\ toServer # <<>>
               /\ Incoming.type = type
               /\ toServer' = Tail(toServer)
               /\ UNCHANGED up

\* handlerSender.Write blocks while the sender is paused.
MayWrite == ~needWait /\ CanWriteToClient

\* FSM.close up to the point where the machine's Close starts to wait: the
\* context is cancelled and the remote connection, if any, is closed.
StartClose(m) == /\ closes' = [closes EXCEPT ![m] = @ + 1]
                 /\ cancelled' = [cancelled EXCEPT ![m] = TRUE]

---------------------------------------------------------------------------
(* handleControl *)

\* An echo is answered even while the sender is paused: the handler then takes
\* the lock itself and does not wait.
HandleEcho ==
  /\ Reads("control") /\ Incoming.body = "echo"
  /\ senderPaused \/ ~needWait
  /\ CanWriteToClient
  /\ WriteToClient(Control("echo"))
  /\ IF up THEN UNCHANGED handlerVars ELSE EndConnection
  /\ UNCHANGED <<slotVars, machineVars>>

\* Only the first of several pauses, or resumes, counts.
HandlePause ==
  /\ Reads("control") /\ Incoming.body = "pause"
  /\ needWait' = (needWait \/ ~senderPaused)
  /\ senderPaused' = TRUE
  /\ UNCHANGED <<pc, cur, why, toClient, slotVars, machineVars>>

HandleResume ==
  /\ Reads("control") /\ Incoming.body = "resume"
  /\ needWait' = (needWait /\ ~senderPaused)
  /\ senderPaused' = FALSE
  /\ UNCHANGED <<pc, cur, why, toClient, slotVars, machineVars>>

HandleUnknownSignal ==
  /\ Reads("control") /\ Incoming.body \notin {"echo", "pause", "resume"}
  /\ EndConnection
  /\ UNCHANGED <<toClient, slotVars, machineVars>>

---------------------------------------------------------------------------
(* handleStream: a frame for a slot in use is a tick of its machine, any    *)
(* other is a request.  What was not written as what it is read as is       *)
(* garbage, and may have any meaning.                                       *)

MeaningsOfMessage(body) ==
  IF body \in MessageBodies THEN {body} ELSE MessageBodies

MeaningsOfRequest(body) ==
  CASE body = "request" -> {"ok", "failed"}      \* Bootup accepts it or not
    [] body = "unregistered" -> {"failed"}       \* Commands.Run knows no such id
    [] OTHER -> {"ok", "failed"}

Asked(m) == remote[m] = "asking" /\ reply[m] = "none"

\* The channel has room for the answer.  Once the dial is over no one reads it.
Answer(m, yesno) ==
  reply' = IF remote[m] \in {"dialing", "asking"} THEN [reply EXCEPT ![m] = yesno] ELSE reply

\* stream.tick and FSM.tick.  An error ends the connection.  The pause is not
\* lifted: a tick that has to wait for the remote waits with the sender paused.
\* An answer nobody has asked for may be kept for the question to come, or be one
\* too many, which is an error.  Mosh and ET do not wait: they drop the input that
\* comes too early, and leave a refusal to the goroutine.
HandleTick(s) ==
  LET m == fsmMachine[s]
      Unasked == ~Asked(m) /\ EndConnection /\ UNCHANGED reply
      Tick(message) ==
        CASE message = "bad" -> EndConnection /\ UNCHANGED reply
          [] message = "input" -> \/ /\ Goto("tick", s, "input")
                                     /\ UNCHANGED <<senderPaused, needWait, reply>>
                                  \/ UNCHANGED <<handlerVars, reply>>
          [] message = "answer" -> \/ Answer(m, "yes") /\ UNCHANGED handlerVars
                                   \/ Unasked
          [] message = "refuse" -> \/ /\ Answer(m, "no")
                                      /\ Goto("tick", s, "refuse")
                                      /\ UNCHANGED <<senderPaused, needWait>>
                                   \/ Answer(m, "no") /\ UNCHANGED handlerVars
                                   \/ Unasked
  IN /\ Reads("stream") /\ Incoming.slot = s /\ fsmRunning[s]
     /\ IF fsmClosed[s]
          THEN EndConnection /\ UNCHANGED reply
          ELSE \E message \in MeaningsOfMessage(Incoming.body) : Tick(message)
     /\ UNCHANGED <<toClient, slotVars, machines, home, remote, conn, cancelled,
                    closes, releases>>

\* getRemote has returned: the connection was delivered, now or before, or the
\* goroutine has closed the channel without delivering one.
RemoteAnswered(m) == conn[m] \/ remote[m] = "ended"

\* stdin and the like: without a connection, or when the write to it fails,
\* the tick is an error.
TickInput ==
  LET m == fsmMachine[cur]
  IN /\ pc = "tick" /\ why = "input"
     /\ RemoteAnswered(m)
     /\ IF remote[m] \in {"greeting", "connected"}
          THEN NextFrame /\ UNCHANGED <<senderPaused, needWait, cancelled>>
          ELSE /\ EndConnection
               /\ cancelled' = [cancelled EXCEPT ![m] = @ \/ conn[m]]
     /\ UNCHANGED <<wireVars, slotVars,
                    machines, home, remote, reply, conn, closes, releases>>

\* A refused fingerprint closes the connection if there is one after all.
TickRefuse ==
  LET m == fsmMachine[cur]
  IN /\ pc = "tick" /\ why = "refuse"
     /\ RemoteAnswered(m)
     /\ NextFrame
     /\ cancelled' = [cancelled EXCEPT ![m] = @ \/ conn[m]]
     /\ UNCHANGED <<wireVars, slotVars, senderPaused, needWait,
                    machines, home, remote, reply, conn, closes, releases>>

\* stream.reinit up to its answer.  Bootup has started the goroutine.
Boot(s) ==
  LET m == machines + 1
  IN /\ m \in Sessions
     /\ machines' = m
     /\ home' = [home EXCEPT ![m] = s]
     /\ remote' = [remote EXCEPT ![m] = "dialing"]
     /\ fsmMachine' = [fsmMachine EXCEPT ![s] = m]
     /\ fsmRunning' = [fsmRunning EXCEPT ![s] = TRUE]
     /\ fsmClosed' = [fsmClosed EXCEPT ![s] = FALSE]
     /\ strClosed' = [strClosed EXCEPT ![s] = FALSE]
     /\ UNCHANGED <<reply, conn, cancelled, closes, releases>>

HandleRequest(s) ==
  /\ Reads("stream") /\ Incoming.slot = s /\ ~fsmRunning[s]
  /\ LiftPause
  /\ \E answer \in MeaningsOfRequest(Incoming.body) :
       /\ Goto("signal", s, answer)
       /\ IF answer = "ok" THEN Boot(s) ELSE UNCHANGED <<slotVars, machineVars>>
  /\ UNCHANGED <<toClient, senderPaused>>

\* StreamInitialSignalSender.Signal.  Only the success signal's error counts.
SignalAnswer ==
  /\ pc = "signal"
  /\ MayWrite
  /\ WriteToClient(Stream(cur, why, IF why = "ok" THEN fsmMachine[cur] ELSE NoSession))
  /\ IF up \/ why = "failed"
       THEN NextFrame /\ RestorePause /\ UNCHANGED senderPaused
       ELSE EndConnection
  /\ UNCHANGED <<toServer, up, slotVars, machineVars>>

---------------------------------------------------------------------------
(* handleClose, handleCompleted and streams.shutdown                        *)

Closable(s) == fsmRunning[s] /\ ~strClosed[s]

\* handleClose: the machine is closed, unless the slot is free or was closed
\* before, and the client gets its COMPLETED.
HandleClose(s) ==
  /\ Reads("close") /\ Incoming.slot = s
  /\ LiftPause
  /\ IF Closable(s)
       THEN /\ Goto("closing", s, "close")
            /\ strClosed' = [strClosed EXCEPT ![s] = TRUE]
            /\ fsmClosed' = [fsmClosed EXCEPT ![s] = TRUE]
            /\ StartClose(fsmMachine[s])
       ELSE /\ Goto("reply", s, "close")
            /\ UNCHANGED <<strClosed, fsmClosed, closes, cancelled>>
  /\ UNCHANGED <<toClient, senderPaused, fsmMachine, fsmRunning,
                 machines, home, remote, reply, conn, releases>>

\* Mutant: Close returns without waiting for the goroutine.
HasClosedEarly(m) == m \in Sessions
HasEnded(m) == remote[m] = "ended"

\* The machine's Close has returned.  Its error ends the connection when
\* handleClose called it; release and shutdown drop it.
CloseReturns ==
  /\ pc = "closing"
  /\ HasEnded(fsmMachine[cur])
  /\ \/ /\ why = "close"
        /\ \/ Goto("reply", cur, why) /\ UNCHANGED <<senderPaused, needWait>>
           \/ EndConnection
     \/ /\ why # "close"
        /\ Goto("releasing", cur, why)
        /\ UNCHANGED <<senderPaused, needWait>>
  /\ UNCHANGED <<wireVars, slotVars, machineVars>>

Reply ==
  /\ pc = "reply"
  /\ MayWrite
  /\ WriteToClient(Completed(cur, fsmMachine[cur]))
  /\ IF up
       THEN NextFrame /\ RestorePause /\ UNCHANGED senderPaused
       ELSE EndConnection
  /\ UNCHANGED <<toServer, up, slotVars, machineVars>>

\* Mutant: FSM.release closes the machine whether or not it is closed.
NeverClosed(s) == s \notin Slots
AlreadyClosed(s) == fsmClosed[s]

\* FSM.release: the slot stops running, and a machine nobody has closed is
\* closed first.
StartRelease(s, purpose) ==
  /\ fsmRunning' = [fsmRunning EXCEPT ![s] = FALSE]
  /\ fsmClosed' = [fsmClosed EXCEPT ![s] = TRUE]
  /\ IF AlreadyClosed(s)
       THEN Goto("releasing", s, purpose) /\ UNCHANGED <<closes, cancelled>>
       ELSE Goto("closing", s, purpose) /\ StartClose(fsmMachine[s])
  /\ UNCHANGED <<strClosed, fsmMachine>>

HandleCompleted(s) ==
  /\ Reads("completed") /\ Incoming.slot = s
  /\ IF fsmRunning[s]
       THEN StartRelease(s, "completed") /\ LiftPause /\ UNCHANGED senderPaused
       ELSE EndConnection /\ UNCHANGED <<slotVars, closes, cancelled>>
  /\ UNCHANGED <<toClient, machines, home, remote, reply, conn, releases>>

\* The machine's Release, which may fail, and the end of FSM.release.  The machine
\* is gone, and what it knew with it.
Release ==
  LET m == fsmMachine[cur]
  IN /\ pc = "releasing"
     /\ releases' = [releases EXCEPT ![m] = @ + 1]
     /\ fsmMachine' = [fsmMachine EXCEPT ![cur] = NoSession]
     /\ fsmRunning' = [fsmRunning EXCEPT ![cur] = FALSE]
     /\ reply' = [reply EXCEPT ![m] = "none"]
     /\ conn' = [conn EXCEPT ![m] = FALSE]
     /\ cancelled' = [cancelled EXCEPT ![m] = FALSE]
     /\ \/ /\ why = "completed"
           /\ \/ NextFrame /\ RestorePause /\ UNCHANGED senderPaused
              \/ EndConnection
        \/ /\ why = "shutdown"
           /\ Goto("shutdown", cur + 1, "none")
           /\ UNCHANGED <<senderPaused, needWait>>
     /\ UNCHANGED <<wireVars, fsmClosed, strClosed, machines, home, remote, closes>>

\* Mutant: shutdown skips the streams that are closed already.
LeftOpen(s) == fsmRunning[s] /\ ~strClosed[s]
LeftRunning(s) == fsmRunning[s]

\* One turn of the loop in streams.shutdown.
ShutdownSlot ==
  /\ pc = "shutdown" /\ cur \in Slots
  /\ \/ /\ ~LeftRunning(cur)
        /\ Goto("shutdown", cur + 1, "none")
        /\ UNCHANGED <<slotVars, closes, cancelled>>
     \/ /\ Closable(cur)
        /\ Goto("closing", cur, "shutdown")
        /\ strClosed' = [strClosed EXCEPT ![cur] = TRUE]
        /\ fsmClosed' = [fsmClosed EXCEPT ![cur] = TRUE]
        /\ StartClose(fsmMachine[cur])
        /\ UNCHANGED <<fsmMachine, fsmRunning>>
     \/ /\ LeftRunning(cur) /\ strClosed[cur]
        /\ StartRelease(cur, "shutdown")
  /\ UNCHANGED <<wireVars, senderPaused, needWait,
                 machines, home, remote, reply, conn, releases>>

HandleReturns ==
  /\ pc = "shutdown" /\ cur \notin Slots
  /\ Goto("done", 0, "none")
  /\ UNCHANGED <<wireVars, senderPaused, needWait, slotVars, machineVars>>

\* FetchOneByte fails once the connection is gone.
ReadFails ==
  /\ pc = "read" /\ ~up
  /\ EndConnection
  /\ UNCHANGED <<wireVars, slotVars, machineVars>>

---------------------------------------------------------------------------
(* The machine's goroutine: remote in ssh.go, mosh.go, et.go and telnet.go  *)

\* The handler has booted m and not yet answered the request.
Unanswered(m) == pc = "signal" /\ why = "ok" /\ fsmMachine[cur] = m

RemoteWrites(m) == /\ MayWrite
                   /\ EarlyFrames \/ ~Unanswered(m)
                   /\ UNCHANGED <<toServer, up, handlerVars, slotVars, machines,
                                  home, reply, conn, cancelled, closes, releases>>

\* Hook output, what the remote sends, and the reason why there is no connection.
Says(m, body) == \/ body = "hook" /\ remote[m] = "dialing"
                 \/ body = "output" /\ remote[m] = "connected"
                 \/ body = "report" /\ remote[m] = "leaving" /\ ~conn[m]

\* The goroutine gives up when the write does.
RemoteOutput(m) ==
  /\ \E body \in OutputBodies : /\ Says(m, body)
                                /\ WriteToClient(Stream(home[m], body, m))
  /\ remote' = [remote EXCEPT ![m] = IF up THEN @ ELSE "leaving"]
  /\ RemoteWrites(m)

\* A fingerprint to verify, a credential to provide.
RemoteAsks(m) ==
  /\ remote[m] = "dialing"
  /\ WriteToClient(Stream(home[m], "prompt", m))
  /\ remote' = [remote EXCEPT ![m] = IF up THEN "asking" ELSE "leaving"]
  /\ RemoteWrites(m)

\* The answer comes from the channel; Close has closed it when there is none.
RemoteHears(m) ==
  /\ remote[m] = "asking"
  /\ reply[m] # "none" \/ cancelled[m]
  /\ remote' = [remote EXCEPT ![m] = IF reply[m] = "yes" THEN "dialing" ELSE "leaving"]
  /\ reply' = [reply EXCEPT ![m] = "none"]
  /\ UNCHANGED <<wireVars, handlerVars, slotVars, machines, home, conn, cancelled,
                 closes, releases>>

RemoteConnects(m) ==
  /\ remote[m] = "dialing"
  /\ remote' = [remote EXCEPT ![m] = "greeting"]
  /\ conn' = [conn EXCEPT ![m] = TRUE]
  /\ UNCHANGED <<wireVars, handlerVars, slotVars, machines, home, reply, cancelled,
                 closes, releases>>

RemoteGreets(m) ==
  /\ remote[m] = "greeting"
  /\ WriteToClient(Stream(home[m], "connected", m))
  /\ remote' = [remote EXCEPT ![m] = IF up THEN "connected" ELSE "leaving"]
  /\ RemoteWrites(m)

\* The dial fails or times out, the remote hangs up, or Close made it so.
RemoteLeaves(m) ==
  /\ remote[m] \in {"dialing", "connected"}
  /\ remote' = [remote EXCEPT ![m] = "leaving"]
  /\ UNCHANGED <<wireVars, handlerVars, slotVars, machines, home, reply, conn, cancelled,
                 closes, releases>>

\* The deferred function: CLOSE, whose error is dropped, ...
RemoteSignalsClose(m) ==
  /\ remote[m] = "leaving"
  /\ WriteToClient(Close(home[m], m))
  /\ remote' = [remote EXCEPT ![m] = "signalled"]
  /\ RemoteWrites(m)

\* ... then close(remoteConnReceive), baseCtxCancel and remoteCloseWait.Done.
RemoteEnds(m) ==
  /\ remote[m] = "signalled"
  /\ remote' = [remote EXCEPT ![m] = "ended"]
  /\ cancelled' = [cancelled EXCEPT ![m] = TRUE]
  /\ UNCHANGED <<wireVars, handlerVars, slotVars, machines, home, reply, conn,
                 closes, releases>>

---------------------------------------------------------------------------
HandleFrame == \/ HandleEcho \/ HandlePause \/ HandleResume \/ HandleUnknownSignal
               \/ \E s \in Slots : \/ HandleTick(s) \/ HandleRequest(s)
                                   \/ HandleClose(s) \/ HandleCompleted(s)

HandlerStep == \/ HandleFrame
               \/ TickInput \/ TickRefuse \/ SignalAnswer
               \/ CloseReturns \/ Reply \/ Release
               \/ ShutdownSlot \/ HandleReturns \/ ReadFails

RemoteStep(m) == \/ RemoteOutput(m) \/ RemoteAsks(m) \/ RemoteHears(m)
                 \/ RemoteConnects(m) \/ RemoteGreets(m)
                 \/ RemoteLeaves(m) \/ RemoteSignalsClose(m) \/ RemoteEnds(m)

ServerStep == HandlerStep \/ \E m \in Sessions : RemoteStep(m)

---------------------------------------------------------------------------
(* Properties *)

Live(m) == remote[m] \in {"dialing", "asking", "greeting", "connected", "leaving"}

\* Whatever the client sends, and whenever the connection ends, a machine's
\* Close is called at most once (ssh.go's and et.go's close their channels, and
\* stream.closed is there "so streams.shutdown won't call it"), its Release at
\* most once and only after Close, when its goroutine is over: the order that
\* FSMMachine documents (fsm.go).
ClosedThenReleasedOnce ==
  \A m \in Sessions : /\ closes[m] <= 1
                      /\ releases[m] <= closes[m]
                      /\ releases[m] = 1 => remote[m] = "ended"

\* When Handle has returned no command is left behind: each one that was booted
\* has been closed and released, and no goroutine still uses the connection
\* (the promise of streams.shutdown, also for streams that were closing).
NothingLeftBehind ==
  pc = "done" => \A m \in Sessions : /\ remote[m] \in {"none", "ended"}
                                     /\ m <= machines => releases[m] = 1

\* A machine that has not ended still owns the slot it writes to: no output of
\* a finished command can turn up in the stream that was opened after it.
WriterOwnsSlot ==
  \A m \in Sessions : remote[m] \notin {"none", "ended"} => fsmMachine[home[m]] = m

Written == toClient'[Len(toClient')]
Writes == Len(toClient') > Len(toClient)

\* While the client has paused the server, and the handler is not in the middle
\* of an operation on a slot, nothing but echoes is written: every operation
\* that lifted the pause has put it back, on every path.
PausedMeansSilent ==
  [][senderPaused /\ pc \in {"read", "tick"} /\ Writes => Written.type = "control"]_vars

\* header.go: the sender of COMPLETED sends nothing more on the stream until it
\* is opened again.  When COMPLETED is written no goroutine is left that could.
CompletedIsLast ==
  [][Writes /\ Written.type = "completed" =>
       \A m \in Sessions : Live(m) => home[m] # Written.slot]_vars

\* What a slot is to the outside, see SlotLifecycle.tla.
SlotPhase == [s \in Slots |->
                IF fsmMachine[s] = NoSession THEN "free"
                ELSE IF Live(fsmMachine[s]) THEN "open"
                ELSE "closed"]

Lifecycle == INSTANCE SlotLifecycle WITH phase <- SlotPhase

\* Every slot goes round: opened, its CLOSE sent, freed, and only then opened
\* again, however the two sides' closes cross.
ImplementsLifecycle == Lifecycle!Spec
============================================================================
