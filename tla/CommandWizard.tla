--------------------------- MODULE CommandWizard ---------------------------
(***************************************************************************)
(* What the wizards of the four protocols (src/ui/commands) are built      *)
(* from: the channel of steps, commands.Wizard, the lifecycle of the       *)
(* request (request_lifecycle.js) and the stream the request has got       *)
(* (src/ui/stream/stream.js).  All of it runs in one thread, so an         *)
(* operation is a function from a wizard to a wizard, and the actions of   *)
(* Wizards.tla apply them to the variable w.                               *)
(*                                                                         *)
(* A step is its name: a prompt, "wait", or one of the terminal steps.     *)
(***************************************************************************)
EXTENDS Naturals, Sequences

Prompts   == {"form", "fingerprint", "credential"}
Terminals == {"success", "failure"}
Steps     == Prompts \cup Terminals \cup {"wait"}

Fields == {"user", "host", "encoding", "authentication", "moshServer", "etServerPort"}

\* A value may be too long for the server, have no meaning for it, or be too big
\* for the frame of the request.
Values == {"good", "long", "wrong", "huge"}

\* What may be typed for a credential.
Credentials == {"good", "empty", "huge", "encrypted"}

NoField == "none"

\* Builder.wizard, Builder.execute and Builder.launch.
Ways == {"wizard", "execute", "launch"}

(***************************************************************************)
(* way, config: how the wizard was started, and what will be asked for     *)
(* known:       the fingerprint on record is the host's ("same"), another  *)
(*              one ("other"), or there is none                            *)
(* saves:       can an accepted fingerprint be saved into the preset?      *)
(* cached:      does the session hold a credential?                        *)
(* steps:       Subscribe.pending        outcomes: history, the terminals  *)
(* closed:      commands.Wizard.closed   started: Wizard.hasStarted        *)
(* request, failed, timer: ConnectionRequestLifecycle                      *)
(* sending:     the promise of the request's send is not settled           *)
(* running ... senderClosed: the Stream and its Sender                     *)
(* connected:   the command's           reading: the frame its tick reads  *)
(* sent:        what is on its way to the server                           *)
(* up:          Streams.serve runs                                         *)
(* misread:     history: a tick did not know what the server told it       *)
(* blamed:      history: the field an error message has named              *)
(***************************************************************************)
NewWizard(protocol, way, config, known, saves, cached) ==
  [protocol |-> protocol, way |-> way, config |-> config,
   known |-> known, saves |-> saves, cached |-> cached,
   steps |-> <<>>, outcomes |-> <<>>, closed |-> FALSE, started |-> FALSE,
   request |-> FALSE, failed |-> FALSE, timer |-> FALSE, sending |-> FALSE,
   running |-> FALSE, initializing |-> FALSE, shuttingDown |-> FALSE,
   senderClosed |-> FALSE, connected |-> FALSE, reading |-> "nothing",
   sent |-> <<>>, up |-> TRUE, misread |-> FALSE, blamed |-> NoField]

---------------------------------------------------------------------------
(* Subscribe and ConnectionRequestLifecycle                                *)

\* Subscribe.resolve.
Push(w, step) ==
  [w EXCEPT !.steps = Append(@, step),
            !.outcomes = IF step \in Terminals THEN Append(@, step) ELSE @]

Active(w) == w.request /\ ~w.failed

\* The lifecycle's own resolve: nothing is published for a request that is over.
Resolve(w, step) == IF Active(w) THEN Push(w, step) ELSE w

\* Mutant: the request is not given up.
KeepsRequest(w) == [w EXCEPT !.timer = FALSE]

Complete(w) == [w EXCEPT !.timer = FALSE, !.request = FALSE]

\* Mutant: the request is given up before the step is published.
CompleteFirst(w, step) == IF Active(w) THEN Resolve(Complete(w), step) ELSE w

\* resolveTerminalStep of every buildCommand.
ResolveTerminal(w, step) == IF Active(w) THEN Complete(Push(w, step)) ELSE w

Accepted(w) == [w EXCEPT !.timer = FALSE]

\* What is sent on a connection that is down gets nowhere.
Put(w, body) == IF w.up THEN [w EXCEPT !.sent = Append(@, body)] ELSE w

\* Sender.close: CLOSE is sent once.
CloseSender(w) ==
  IF w.senderClosed THEN w
  ELSE Put([w EXCEPT !.senderClosed = TRUE], "close")

\* Mutant: a stream whose request is not answered yet is left as it is.
CloseAnswered(w) ==
  IF w.running /\ ~w.shuttingDown /\ ~w.initializing
    THEN CloseSender([w EXCEPT !.shuttingDown = TRUE])
    ELSE w

\* Stream.close.  That it throws when there is nothing to close is caught.
CloseStream(w) ==
  IF w.running /\ ~w.shuttingDown
    THEN CloseSender([w EXCEPT !.shuttingDown = TRUE])
    ELSE w

\* Mutant: nothing is published.
FailUnseen(w) ==
  IF Active(w)
    THEN CloseStream([w EXCEPT !.failed = TRUE, !.timer = FALSE, !.request = FALSE])
    ELSE w

\* ConnectionRequestLifecycle.fail, and cancel, which is the same.
Fail(w) ==
  IF Active(w)
    THEN Push(CloseStream([w EXCEPT !.failed = TRUE, !.timer = FALSE,
                                    !.request = FALSE]), "failure")
    ELSE w

\* splitHostPort: what is neither an address nor a name is an exception.
HostParses(host) == host # "wrong"

\* Address.buffer: the length of a host name has one byte.
HostFits(host) == host # "long"

\* ConnectionRequestLifecycle.start with Streams.request and Stream.run as its
\* factory.  A command that cannot be built leaves the slot free; a request that
\* does not fit its frame leaves the slot taken by the command that was built.
Start(w, available, builds, carries) ==
  LET fresh == [w EXCEPT !.started = TRUE, !.failed = FALSE, !.timer = FALSE]
      taken == [fresh EXCEPT !.running = TRUE, !.initializing = TRUE]
  IN CASE ~(available /\ builds) -> Push(fresh, "failure")
       [] available /\ builds /\ ~carries -> Push(taken, "failure")
       [] OTHER -> Push(Put([taken EXCEPT !.request = TRUE, !.timer = TRUE,
                                          !.sending = TRUE], "request"), "wait")

---------------------------------------------------------------------------
(* Stream, Sender and the end of the connection                            *)

\* Sender.send.  It throws when the sender is closed.
Send(w, body) == Put(w, body)

\* Stream.clear.
Clear(w) == [w EXCEPT !.running = FALSE, !.initializing = FALSE,
                      !.shuttingDown = FALSE, !.reading = "nothing"]

\* Streams.clear: the stream is closed, if it was not yet, and completed, which
\* every wizard takes for a failure of its request.
Lose(w) ==
  LET over == [w EXCEPT !.up = FALSE, !.sending = FALSE, !.sent = <<>>]
  IN IF w.running
       THEN Clear(ResolveTerminal([over EXCEPT !.senderClosed = TRUE], "failure"))
       ELSE over

\* An exception in a tick ends Streams.serve, and with it the connection.
Throw(w) == Lose(w)
Misread(w) == [Lose(w) EXCEPT !.misread = TRUE]

\* The callbacks that read their frame do so only for a request that is active;
\* the reading may have to wait for the rest of the frame.
Read(w, what) == IF Active(w) THEN [w EXCEPT !.reading = what] ELSE w

---------------------------------------------------------------------------
(* commands.Wizard                                                         *)

\* Wizard.close.
CloseWizard(w) == IF w.closed THEN w ELSE Fail([w EXCEPT !.closed = TRUE])

\* Wizard.next: the step, once it is there.  The terminal ones close the wizard.
TakeStep(w) ==
  [w EXCEPT !.steps = Tail(@), !.closed = @ \/ Head(w.steps) \in Terminals]
=============================================================================
