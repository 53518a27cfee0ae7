------------------------------ MODULE Wizards ------------------------------
(***************************************************************************)
(* A connection wizard of each protocol in its modal, against a server     *)
(* that says what its machines may say (Dialogue.tla), over a connection   *)
(* that may stall or break.  The server's markers and error codes are      *)
(* those of its own source: the two tables of a protocol have to agree.    *)
(***************************************************************************)
EXTENDS Connector, FiniteSets

CONSTANT Protocols   \* the protocols of the wizards that are started

ASSUME WizardsAssumption == Protocols \subseteq {"ssh", "mosh", "et", "telnet"}

VARIABLES
  served,    \* the server's session
  asked,     \* the question it waits to be answered, "nothing", or "refused"
  unsaid,    \* what it may still say before it is connected
  refused,   \* history: the field for which it has refused the request
  stalled,   \* the server has stopped to answer
  toClient   \* its frames on their way to the browser

serverVars == <<served, asked, unsaid, refused, stalled, toClient>>
vars == <<w, connectorVars, serverVars>>

Questions == {"fingerprint", "credential"}
Live == {"open", "over", "connected"}

WizardTypeOK ==
  /\ ConnectorTypeOK
  /\ w.protocol \in Protocols /\ w.way \in Ways
  /\ \A i \in DOMAIN w.steps : w.steps[i] \in Steps
  /\ \A i \in DOMAIN w.sent :
       w.sent[i] \in {"request", "trust", "refuse", "credential", "close", "completed"}
  /\ served \in {"idle", "refused", "closed"} \cup Live
  /\ asked \in Questions \cup {"nothing", "refused"}
  /\ unsaid \subseteq Questions \cup {"hook", "output"}
  /\ Len(toClient) <= 8
  /\ w.timer => Active(w)

---------------------------------------------------------------------------
(* What the server says                                                    *)

\* The markers of its frames, by protocol.
SshMarkers    == [output |-> 0, hook |-> 2, failed |-> 3, connected |-> 4,
                  fingerprint |-> 5, credential |-> 6]
MoshMarkers   == [output |-> 0, hook |-> 1, failed |-> 2, connected |-> 3,
                  fingerprint |-> 5, credential |-> 6]
EtMarkers     == MoshMarkers
TelnetMarkers == [output |-> 0, hook |-> 1, failed |-> 2, connected |-> 3]

Marker(said) ==
  CASE w.protocol = "ssh" -> SshMarkers[said]
    [] w.protocol = "mosh" -> MoshMarkers[said]
    [] w.protocol = "et" -> EtMarkers[said]
    [] w.protocol = "telnet" -> TelnetMarkers[said]

\* The code with which Bootup refuses a request for a field, by protocol.
SshErrors    == [user |-> 1, host |-> 2]
MoshErrors   == [proxy |-> 4, user |-> 1, host |-> 2, metadata |-> 5]
EtErrors     == [proxy |-> 4, user |-> 1, host |-> 2]
TelnetErrors == [host |-> 1]

\* What Bootup finds wrong: a user that is too long, an address that is none, a
\* path for the mosh-server that is none; and Mosh and ET know no proxies.
BadFields ==
  {f \in {"user", "host"} : w.config[f] # "good"}
     \cup (IF w.config["moshServer"] # "good" THEN {"metadata"} ELSE {})

Refusals ==
  CASE w.protocol = "ssh" -> {<<f, SshErrors[f]>> : f \in BadFields \ {"metadata"}}
    [] w.protocol = "mosh" -> {<<f, MoshErrors[f]>> : f \in BadFields \cup {"proxy"}}
    [] w.protocol = "et" ->
         {<<f, EtErrors[f]>> : f \in (BadFields \ {"metadata"}) \cup {"proxy"}}
    [] w.protocol = "telnet" -> {<<f, TelnetErrors[f]>> : f \in BadFields \cap {"host"}}

MayAccept == Refusals \subseteq {<<"proxy", 4>>}

\* The name the browser has for the field that is blamed.
Named(field) == IF field = "metadata" THEN "moshServer" ELSE field

Write(frame) == toClient' = Append(toClient, frame)
Says(said) == Write([type |-> "stream", value |-> Marker(said)])

Serves == w.up /\ ~stalled

Incoming == Head(w.sent)
Reads(body) == /\ Serves /\ w.sent # <<>> /\ Incoming = body
               /\ w' = [w EXCEPT !.sent = Tail(@),
                                 !.sending = @ /\ body # "request"]

BootUp ==
  /\ Reads("request")
  /\ \/ /\ MayAccept
        /\ served' = "open"
        /\ unsaid' = {"hook", "output"} \cup (IF w.protocol = "telnet" THEN {} ELSE Questions)
        /\ Write([type |-> "answer", value |-> 0])
        /\ UNCHANGED refused
     \/ \E r \in Refusals :
        /\ served' = "refused"
        /\ refused' = Named(r[1])
        /\ Write([type |-> "answer", value |-> r[2]])
        /\ UNCHANGED unsaid
  /\ UNCHANGED <<connectorVars, asked, stalled>>

Hook ==
  /\ Serves /\ served = "open" /\ asked = "nothing" /\ "hook" \in unsaid
  /\ Says("hook")
  /\ unsaid' = unsaid \ {"hook"}
  /\ UNCHANGED <<w, connectorVars, served, asked, refused, stalled>>

\* The fingerprint comes before the credential, and without authentication there
\* is no credential.
Ask(question) ==
  /\ Serves /\ served = "open" /\ asked = "nothing" /\ question \in unsaid
  /\ question = "credential" => "fingerprint" \notin unsaid
  /\ Says(question)
  /\ asked' = question
  /\ unsaid' = unsaid \ {question}
  /\ UNCHANGED <<w, connectorVars, served, refused, stalled>>

Report ==
  /\ Serves /\ served = "open"
  /\ Says("failed")
  /\ served' = "over"
  /\ UNCHANGED <<w, connectorVars, asked, unsaid, refused, stalled>>

Connect ==
  /\ Serves /\ served = "open" /\ asked = "nothing" /\ "fingerprint" \notin unsaid
  /\ Says("connected")
  /\ served' = "connected"
  /\ UNCHANGED <<w, connectorVars, asked, unsaid, refused, stalled>>

Output ==
  /\ Serves /\ served = "connected" /\ "output" \in unsaid
  /\ Says("output")
  /\ unsaid' = unsaid \ {"output"}
  /\ UNCHANGED <<w, connectorVars, served, asked, refused, stalled>>

\* The machine ends, by itself or because the browser has sent CLOSE.
End ==
  /\ Serves /\ served \in Live
  /\ Write([type |-> "close", value |-> 0])
  /\ served' = "closed"
  /\ UNCHANGED <<w, connectorVars, asked, unsaid, refused, stalled>>

ReadAnswer ==
  /\ \E body \in {"trust", "refuse", "credential"} : Reads(body)
  /\ asked' = IF Incoming = "refuse" THEN "refused" ELSE "nothing"
  /\ UNCHANGED <<connectorVars, served, unsaid, refused, stalled, toClient>>

\* handleClose answers when the machine has ended.
ReadClose ==
  /\ served \notin Live /\ Reads("close")
  /\ Write([type |-> "completed", value |-> 0])
  /\ UNCHANGED <<connectorVars, served, asked, unsaid, refused, stalled>>

ReadCompleted ==
  /\ Reads("completed")
  /\ UNCHANGED <<connectorVars, serverVars>>

\* The server may stop to answer, for instance in a tick that waits for good.
Stall ==
  /\ Serves /\ (served \in Live \/ w.sent # <<>>)
  /\ stalled' = TRUE
  /\ UNCHANGED <<w, connectorVars, served, asked, unsaid, refused, toClient>>

\* A dial and a login have their deadlines, and what is over ends.  Nothing makes a
\* session end while it waits for an answer, nor one that is connected: its host may
\* keep it for ever.  But CLOSE does (FSMMachine.Close).
EndInTime ==
  /\ \/ served = "open" /\ asked \notin Questions
     \/ served = "over"
     \/ w.sent # <<>> /\ Incoming = "close"
  /\ Report \/ End

ServerStep == \/ BootUp \/ Hook \/ (\E q \in Questions : Ask(q)) \/ Connect \/ Output
              \/ ReadAnswer \/ ReadClose \/ ReadCompleted

---------------------------------------------------------------------------
(* Streams.serve                                                           *)

Received == Head(toClient)

Receives(type) == /\ w.up /\ w.reading = "nothing"
                  /\ toClient # <<>> /\ Received.type = type
                  /\ toClient' = Tail(toClient)
                  /\ UNCHANGED <<connectorVars, served, asked, unsaid, refused, stalled>>

Initialized(code) ==
  CASE w.protocol = "ssh" -> Ssh!Initialize(w, code)
    [] w.protocol = "mosh" -> Mosh!Initialize(w, code)
    [] w.protocol = "et" -> Et!Initialize(w, code)
    [] w.protocol = "telnet" -> Telnet!Initialize(w, code)

Ticked(marker) ==
  CASE w.protocol = "ssh" -> Ssh!Tick(w, marker)
    [] w.protocol = "mosh" -> Mosh!Tick(w, marker)
    [] w.protocol = "et" -> Et!Tick(w, marker)
    [] w.protocol = "telnet" -> Telnet!Tick(w, marker)

CompletedBy(v) ==
  CASE v.protocol = "ssh" -> Ssh!Completed(v)
    [] v.protocol = "mosh" -> Mosh!Completed(v)
    [] v.protocol = "et" -> Et!Completed(v)
    [] v.protocol = "telnet" -> Telnet!Completed(v)

\* Stream.initialize.  A stream that is shutting down only notes the answer.
ReceiveAnswer ==
  /\ Receives("answer")
  /\ LET code == Received.value
     IN w' = CASE ~(w.running /\ w.initializing) -> Misread(w)
               [] w.initializing /\ w.shuttingDown -> [w EXCEPT !.initializing = FALSE]
               [] w.initializing /\ ~w.shuttingDown /\ code # 0 -> Clear(Initialized(code))
               [] OTHER -> [Initialized(code) EXCEPT !.initializing = FALSE]

\* Streams.handleStream: what comes for a stream that is shutting down is dropped.
ReceiveStream ==
  /\ Receives("stream")
  /\ w' = CASE ~w.running \/ w.initializing -> Misread(w)
            [] w.running /\ ~w.initializing /\ w.shuttingDown -> w
            [] OTHER -> Ticked(Received.value)

ReceiveClose ==
  /\ Receives("close")
  /\ w' = IF w.running THEN Send(CloseStream(w), "completed") ELSE Misread(w)

ReceiveCompleted ==
  /\ Receives("completed")
  /\ w' = IF w.running /\ w.shuttingDown THEN Clear(CompletedBy(w)) ELSE Misread(w)

HasRead(v) ==
  CASE w.reading = "failed" /\ w.protocol = "ssh" -> Ssh!ConnectHasFailed(v)
    [] w.reading = "failed" /\ w.protocol = "mosh" -> Mosh!ConnectHasFailed(v)
    [] w.reading = "failed" /\ w.protocol = "et" -> Et!ConnectHasFailed(v)
    [] w.reading = "failed" /\ w.protocol = "telnet" -> Telnet!ConnectHasFailed(v)
    [] w.reading = "hook" /\ w.protocol = "ssh" -> Ssh!StepHookOutputPrompt(v)
    [] w.reading = "hook" /\ w.protocol = "mosh" -> Mosh!StepHookOutputPrompt(v)
    [] w.reading = "hook" /\ w.protocol = "et" -> Et!StepHookOutputPrompt(v)
    [] w.reading = "hook" /\ w.protocol = "telnet" -> Telnet!StepHookOutputPrompt(v)
    [] w.reading = "fingerprint" /\ w.protocol = "ssh" -> Ssh!StepFingerprintPrompt(v)
    [] w.reading = "fingerprint" /\ w.protocol = "mosh" -> Mosh!StepFingerprintPrompt(v)
    [] w.reading = "fingerprint" /\ w.protocol = "et" -> Et!StepFingerprintPrompt(v)

\* The rest of the frame has come.
FinishReading ==
  /\ w.up /\ w.reading # "nothing"
  /\ w' = HasRead([w EXCEPT !.reading = "nothing"])
  /\ UNCHANGED <<connectorVars, serverVars>>

ServeStep == ReceiveAnswer \/ ReceiveStream \/ ReceiveClose \/ ReceiveCompleted
             \/ FinishReading

\* The request was not accepted within 15 seconds.
TimeOut ==
  /\ w.up /\ w.timer
  /\ w' = Fail(w)
  /\ UNCHANGED <<connectorVars, serverVars>>

\* The server's sessions end with their connection (Handler.Handle), and nothing
\* that is on its way arrives.
EndsAll ==
  /\ served' = IF served \in Live THEN "closed" ELSE served
  /\ asked' = "nothing"
  /\ unsaid' = {}
  /\ stalled' = FALSE
  /\ toClient' = <<>>
  /\ UNCHANGED <<connectorVars, refused>>

\* The request cannot be sent: its promise is rejected, and serve ends.
RequestFails ==
  /\ w.up /\ w.sending
  /\ w' = Lose(Fail(w))
  /\ EndsAll

\* It was made on a connection that had ended: the sender rejects it.
RequestIsRejected ==
  /\ ~w.up /\ w.sending
  /\ w' = [Fail(w) EXCEPT !.sending = FALSE]
  /\ UNCHANGED <<connectorVars, serverVars>>

\* The connection breaks, or is closed.
Disconnect ==
  /\ w.up
  /\ w' = Lose(w)
  /\ EndsAll

\* A server that has stalled misses two heartbeats.
MissHeartbeats == stalled /\ Disconnect

---------------------------------------------------------------------------
AllGood == [f \in Fields |-> "good"]
Configs ==
  {AllGood, [AllGood EXCEPT !["encoding"] = "wrong"]}
    \cup {[AllGood EXCEPT ![f] = v] : f \in Fields \ {"encoding"}, v \in Values}

\* buildPresetExecution: a preset that lacks what the form asks for opens the form.
ExecutesPreset(protocol, config) ==
  \/ protocol = "telnet"
  \/ /\ config["authentication"] = "good"
     /\ protocol = "et" => config["etServerPort"] = "good"

\* Which fields a protocol has.
FieldsOf(protocol) ==
  CASE protocol = "ssh" -> Ssh!FormFields
    [] protocol = "mosh" -> Mosh!FormFields
    [] protocol = "et" -> Et!FormFields
    [] protocol = "telnet" -> Telnet!FormFields

MayStart(protocol, way, config) ==
  /\ \A f \in Fields \ FieldsOf(protocol) : config[f] = "good"
  /\ way = "execute" => ExecutesPreset(protocol, config)
  /\ way = "launch" =>
       CASE protocol = "ssh" -> Ssh!Launches(config)
         [] protocol = "mosh" -> Mosh!Launches(config)
         [] protocol = "et" -> Et!Launches(config)
         [] protocol = "telnet" -> Telnet!Launches(config)

Opened(v, available) ==
  CASE v.protocol = "ssh" -> Ssh!Run(v, available)
    [] v.protocol = "mosh" -> Mosh!Run(v, available)
    [] v.protocol = "et" -> Et!Run(v, available)
    [] v.protocol = "telnet" -> Telnet!Run(v, available)

Init ==
  /\ ConnectorInit
  /\ \E protocol \in Protocols, way \in Ways, config \in Configs,
        known \in {"same", "other"}, saves \in BOOLEAN, cached \in BOOLEAN,
        available \in BOOLEAN :
       /\ MayStart(protocol, way, config)
       /\ protocol = "telnet" => known = "same" /\ ~saves /\ ~cached
       /\ known = "same" => ~saves
       /\ way # "execute" => ~cached
       /\ config # AllGood => known = "same" /\ ~saves /\ ~cached /\ available
       /\ w = Opened(NewWizard(protocol, way, config, known, saves, cached), available)
  /\ served = "idle"
  /\ asked = "nothing"
  /\ unsaid = {}
  /\ refused = NoField
  /\ stalled = FALSE
  /\ toClient = <<>>

LoopStep == (ShowStep \/ SendCancel \/ Dismiss) /\ UNCHANGED serverVars
UserActs == (UserStep \/ SaveReturns) /\ UNCHANGED serverVars

Next == \/ LoopStep \/ UserActs \/ ServeStep \/ TimeOut
        \/ RequestFails \/ RequestIsRejected \/ Disconnect
        \/ ServerStep \/ Report \/ End \/ Stall

Spec == Init /\ [][Next]_vars

\* The event loop of the browser runs what is ready, timers fire, the server goes on
\* unless it stalls.  The user may do nothing at all, and the connection need not
\* break.
FairSpec == /\ Spec
            /\ WF_vars(LoopStep)
            /\ WF_vars(ServeStep)
            /\ WF_vars(TimeOut)
            /\ WF_vars(RequestIsRejected)
            /\ WF_vars(MissHeartbeats)
            /\ WF_vars(ServerStep)
            /\ WF_vars(EndInTime)

---------------------------------------------------------------------------
(* Properties                                                              *)

\* "Publishes a terminal error step once": a wizard comes to one end, whichever of
\* the answer, the timeout, the cancel, the failure and the loss of the connection
\* come together.
OneTerminalStep == Len(w.outcomes) <= 1

\* The server is answered only what it has asked, and once: a button cannot be
\* pressed twice, and a save that takes its time is not overtaken.
Answers(question) == IF question = "credential" THEN {"credential"} ELSE {"trust", "refuse"}
AnswersWereAsked ==
  LET answers == {i \in DOMAIN w.sent : w.sent[i] \in {"trust", "refuse", "credential"}}
  IN /\ Cardinality(answers) <= 1
     /\ \A i \in answers : asked \in Questions /\ w.sent[i] \in Answers(asked)

\* Whatever a server of the protocol says is taken as it was meant: no tick throws
\* at it, and the error that is shown names the field the server has refused.
ServerIsUnderstood == ~w.misread /\ w.blamed \in {NoField, refused}

\* The Cancel of the modal closes it, as soon as its loop can run.
CancelIsAnswered == cancelled ~> ~Shown

\* A session that nobody will see again does not go on at the server.
CancelledSessionEnds == emitted \in {"cancel", "editor"} ~> (served \notin Live \/ ~w.up)

\* The modal does not wait for good: there comes a question, or the end.
WaitsEnd == step = "wait" ~> (step # "wait" \/ ~Shown)
=============================================================================
