------------------------------- MODULE Wire -------------------------------
(***************************************************************************)
(* The connection between the browser and the server, as both ends of the  *)
(* stream multiplexer see it: two ordered byte streams that carry frames.  *)
(* A frame is a header (src/application/command/header.go and              *)
(* src/ui/stream/header.js: two bits of type, six bits of stream id) and,  *)
(* for a stream frame, the sub-header with its marker or command and the   *)
(* payload.  The payload is abstracted to the one word the two ends act    *)
(* on.  sess is a history field: the session whose end wrote the frame, 0  *)
(* when none did.  No guard reads it.                                      *)
(***************************************************************************)
EXTENDS Integers, Sequences

CONSTANTS MaxSlot,      \* HeaderMaxData: the stream ids are 0 .. MaxSlot
          MaxSession,   \* a bound: commands started during one connection
          MaxInFlight   \* a bound: frames in transit in one direction

ASSUME WireAssumption == /\ MaxSlot \in Nat
                         /\ MaxSession \in Nat
                         /\ MaxInFlight \in Nat \ {0}

Slots == 0 .. MaxSlot
Sessions == 1 .. MaxSession
NoSession == 0

VARIABLES toServer,   \* frames the client has written, the server not yet read
          toClient,   \* frames the server has written, the client not yet read
          up          \* FALSE once the WebSocket is gone

wireVars == <<toServer, toClient, up>>

---------------------------------------------------------------------------
\* The four header types.
Types == {"control", "stream", "close", "completed"}

\* What control frames carry; "other" is a signal neither end defines.
ControlBodies == {"echo", "pause", "resume", "other"}

\* What a client puts in a stream frame: the request that opens a stream, for
\* a registered command or not, or a message to the running command.
\*   answer: the answer to a question (a credential, an accepted fingerprint)
\*   refuse: a refused fingerprint
\*   input:  what needs the remote connection (stdin, a resize)
\*   bad:    a message the command rejects
RequestBodies == {"request", "unregistered"}
MessageBodies == {"answer", "input", "refuse", "bad"}

\* What a server puts in a stream frame: the answer to the request, and then the
\* frames of the command.
\*   hook:      what a hook prints before the connection is made
\*   prompt:    a question: is this the right fingerprint, what is the password
\*   report:    why the connection was not made
\*   connected: it was made
\*   output:    what the remote sends
AnswerBodies == {"ok", "failed"}
OutputBodies == {"hook", "prompt", "report", "connected", "output"}

Bodies == {"none"} \cup ControlBodies \cup RequestBodies \cup MessageBodies
            \cup AnswerBodies \cup OutputBodies

Frames == [type : Types, slot : Slots, body : Bodies, sess : 0 .. MaxSession]

Control(b) == [type |-> "control", slot |-> 0, body |-> b, sess |-> NoSession]
Stream(s, b, m) == [type |-> "stream", slot |-> s, body |-> b, sess |-> m]
\* Mutant: the stream id of the header is off by one.
CloseOfNext(s, m) == [type |-> "close", slot |-> s + 1, body |-> "none", sess |-> m]
Close(s, m) == [type |-> "close", slot |-> s, body |-> "none", sess |-> m]
Completed(s, m) == [type |-> "completed", slot |-> s, body |-> "none", sess |-> m]

---------------------------------------------------------------------------
\* A write returns at once with an error when the connection is gone, and
\* blocks while the peer is behind.
CanWriteToClient == up => Len(toClient) < MaxInFlight
CanWriteToServer == up => Len(toServer) < MaxInFlight

WriteToClient(f) == toClient' = IF up THEN Append(toClient, f) ELSE toClient
WriteToServer(f) == toServer' = IF up THEN Append(toServer, f) ELSE toServer

WireInit == /\ toServer = <<>>
            /\ toClient = <<>>
            /\ up = TRUE

WireTypeOK == /\ toServer \in Seq(Frames)
              /\ toClient \in Seq(Frames)
              /\ up \in BOOLEAN
============================================================================
