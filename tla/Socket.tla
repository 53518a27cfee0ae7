------------------------------- MODULE Socket -------------------------------
(***************************************************************************)
(* The connection of a page to its server (src/ui/socket.js) and the       *)
(* heartbeat on it (src/ui/stream/streams.js): one stream handler at a     *)
(* time, opened on demand by whoever asks for it first.  A dial, the       *)
(* cleanup of one that was cancelled and the clearing of a handler take    *)
(* their time, and everything else may happen meanwhile.                   *)
(*                                                                         *)
(* An attempt to open is known by its serial number; numbers are used      *)
(* again once nothing is left of the attempt.  What close makes of         *)
(* openSerial is no attempt's number.                                      *)
(***************************************************************************)
EXTENDS Naturals, FiniteSets

CONSTANT MaxOpens   \* bound: attempts and connections at the same time

ASSUME SocketAssumption == MaxOpens \in Nat \ {0}

Opens == 1 .. MaxOpens
NoOpen == 0

VARIABLES
  openSerial,  \* the last attempt, or NoOpen once it has been cancelled
  phase,       \* what has become of each attempt
  handler,     \* streamHandler
  promise,     \* streamHandlerPromise
  waiting,     \* who awaits the outcome of each attempt
  awaiting,    \* lastEchoTime # null: the probe of the handler is not answered
  missed,      \* missedEchoResponses
  stalled      \* the server has stopped to answer on the connection

socketVars == <<openSerial, phase, handler, promise, waiting, awaiting, missed, stalled>>

\* The monitor of the home page, and a command that is to be started.
Callers == {"monitor", "connect"}
Phases == {"none", "dialing", "cancelled", "serving", "clearing"}

SocketTypeOK ==
  /\ openSerial \in Opens \cup {NoOpen}
  /\ phase \in [Opens -> Phases]
  /\ handler \in Opens \cup {NoOpen}
  /\ promise \in Opens \cup {NoOpen}
  /\ waiting \in [Opens -> SUBSET Callers]
  /\ awaiting \in BOOLEAN /\ missed \in 0 .. 1 /\ stalled \in BOOLEAN

---------------------------------------------------------------------------
\* The handler's stop flag is not set.
Alive == handler # NoOpen /\ phase[handler] = "serving"

\* Socket.get finds an attempt that is under way, and awaits the same promise ...
JoinOpen(callers) ==
  /\ ~Alive /\ promise # NoOpen
  /\ waiting' = [waiting EXCEPT ![promise] = @ \cup callers]
  /\ UNCHANGED <<openSerial, phase, handler, promise, awaiting, missed, stalled>>

\* ... or starts one.
Open(callers) ==
  /\ ~Alive /\ promise = NoOpen
  /\ \E s \in Opens :
       /\ phase[s] = "none" /\ handler # s
       /\ \A t \in Opens : t < s => phase[t] # "none" \/ handler = t
       /\ openSerial' = s
       /\ promise' = s
       /\ phase' = [phase EXCEPT ![s] = "dialing"]
       /\ waiting' = [waiting EXCEPT ![s] = callers]
  /\ UNCHANGED <<handler, awaiting, missed, stalled>>

IsCancelled(s) == openSerial # s

\* The promise of an attempt is settled.
Settle(s) == /\ promise' = IF promise = s THEN NoOpen ELSE promise
             /\ waiting' = [waiting EXCEPT ![s] = {}]

\* Socket.open after the dial: the streams are installed, and served.  That the
\* handler that was there is still being cleared does not matter.
DialSucceeds(s) ==
  /\ phase[s] = "dialing" /\ ~IsCancelled(s)
  /\ phase' = [phase EXCEPT ![s] = "serving"]
  /\ handler' = s
  /\ Settle(s)
  /\ awaiting' = TRUE
  /\ missed' = 0
  /\ stalled' = FALSE
  /\ UNCHANGED openSerial

\* ... or closed again, if the socket was closed in the meantime.
DialIsCancelled(s) ==
  /\ phase[s] = "dialing" /\ IsCancelled(s)
  /\ phase' = [phase EXCEPT ![s] = "cancelled"]
  /\ UNCHANGED <<openSerial, handler, promise, waiting, awaiting, missed, stalled>>

CleanupEnds(s) ==
  /\ phase[s] = "cancelled"
  /\ phase' = [phase EXCEPT ![s] = "none"]
  /\ Settle(s)
  /\ UNCHANGED <<openSerial, handler, awaiting, missed, stalled>>

\* The WebSocket does not open, breaks, or the key is refused.
DialFails(s) ==
  /\ phase[s] = "dialing"
  /\ phase' = [phase EXCEPT ![s] = "none"]
  /\ Settle(s)
  /\ UNCHANGED <<openSerial, handler, awaiting, missed, stalled>>

\* Streams.clear up to its first await: serve has thrown, the connection is gone.
Break ==
  /\ Alive
  /\ phase' = [phase EXCEPT ![handler] = "clearing"]
  /\ UNCHANGED <<openSerial, handler, promise, waiting, awaiting, missed, stalled>>

\* Mutant: a handler that was replaced still speaks for the socket.
AlwaysActive(s) == TRUE
IsActive(s) == handler = s

\* ... and its end: the cleared callback closes the WebSocket.  The state of the
\* heartbeat is the handler's, and goes with it.
ClearEnds(s) ==
  /\ phase[s] = "clearing"
  /\ phase' = [phase EXCEPT ![s] = "none"]
  /\ IF IsActive(s)
     THEN handler' = NoOpen /\ awaiting' = FALSE /\ missed' = 0 /\ stalled' = FALSE
     ELSE UNCHANGED <<handler, awaiting, missed, stalled>>
  /\ UNCHANGED <<openSerial, promise, waiting>>

\* Mutant: an attempt that is under way is left alone.
CloseHandlerOnly == /\ openSerial' = openSerial
                    /\ promise' = NoOpen

\* The first half of Socket.close: attempts that are under way are cancelled.
CancelOpens == /\ openSerial' = NoOpen
               /\ promise' = NoOpen

\* Socket.close.
CloseSocket ==
  /\ CancelOpens
  /\ phase' = IF Alive THEN [phase EXCEPT ![handler] = "clearing"] ELSE phase
  /\ UNCHANGED <<handler, waiting, awaiting, missed, stalled>>

---------------------------------------------------------------------------
(* The heartbeat                                                           *)

MaxMissed == 2

CountMiss == IF awaiting THEN missed + 1 ELSE missed

\* Streams.sendEcho, every interval, with the probe sent.
Probe ==
  /\ Alive /\ CountMiss < MaxMissed
  /\ awaiting' = TRUE
  /\ missed' = CountMiss
  /\ UNCHANGED <<openSerial, phase, handler, promise, waiting, stalled>>

\* The second probe in a row has not been answered.
MissesHeartbeat ==
  /\ Alive /\ CountMiss >= MaxMissed
  /\ phase' = [phase EXCEPT ![handler] = "clearing"]
  /\ awaiting' = FALSE
  /\ UNCHANGED <<openSerial, handler, promise, waiting, missed, stalled>>

\* Streams.handleControl: an answer to an older probe is not taken for one.  The
\* answer is read in a handler that is being cleared as well.
EchoAnswered ==
  /\ handler # NoOpen /\ ~stalled /\ awaiting
  /\ awaiting' = FALSE
  /\ missed' = 0
  /\ UNCHANGED <<openSerial, phase, handler, promise, waiting, stalled>>

Stall ==
  /\ Alive /\ ~stalled
  /\ stalled' = TRUE
  /\ UNCHANGED <<openSerial, phase, handler, promise, waiting, awaiting, missed>>
=============================================================================
