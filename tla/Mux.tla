-------------------------------- MODULE Mux --------------------------------
(***************************************************************************)
(* One connection with both its ends: the server's Handler and the         *)
(* browser's Streams, with the frames between them.  Every slot is a pair  *)
(* of slots that are opened and closed on their own; a session is right    *)
(* when the two agree on whose frames they exchange, whatever crosses on   *)
(* the way.                                                                *)
(***************************************************************************)
EXTENDS Handler, ClientStreams, Functions

VARIABLE serves   \* history: the session whose request booted a machine

muxVars == <<wireVars, serverVars, clientVars, serves>>

Init == /\ WireInit
        /\ HandlerInit
        /\ ClientInit
        /\ serves = [m \in Sessions |-> NoSession]

\* A step of one end.  The request that boots a machine is the one being read.
ServerDoes(step) == /\ step
                    /\ serves' = IF machines' = machines
                                   THEN serves
                                   ELSE [serves EXCEPT ![machines'] = Incoming.sess]
                    /\ UNCHANGED clientVars

ClientDoes(step) == step /\ UNCHANGED <<serverVars, serves>>

\* The controller closes the WebSocket when Handle returns, and any network
\* fails.
HangUp == /\ up
          /\ up' = FALSE
          /\ UNCHANGED <<toServer, toClient, serverVars, clientVars, serves>>

Terminated == pc = "done" /\ cpc = "stopped" /\ UNCHANGED muxVars

Next == ServerDoes(ServerStep) \/ ClientDoes(ClientStep) \/ HangUp \/ Terminated

Spec == Init /\ [][Next]_muxVars

\* The step of a machine's goroutine that ends its dial.
Dials(m) == remote[m] = "dialing" /\ (RemoteConnects(m) \/ RemoteLeaves(m))

\* The handler is one goroutine that goes on while it is not blocked.  So is
\* every machine's: a dial is over within DialTimeout, but for the time it waits
\* for the user, and it asks a question or two at most; a cancelled machine has
\* its context done or its connection closed and leaves, and the deferred
\* function runs to its end.  Who waits to write gets his turn when the pause is
\* lifted time and again: sync.Mutex does not starve its waiters.
\* The browser goes on reading, asks for more when it has read everything, and
\* notices that the connection is gone; a connection whose Handle has returned is
\* closed.  Nothing makes a user act, or a remote hang up.
Fairness ==
  /\ WF_muxVars(ServerDoes(HandlerStep))
  /\ \A m \in Sessions : /\ SF_muxVars(ServerDoes(Dials(m)))
                         /\ WF_muxVars(ServerDoes(RemoteHears(m)))
                         /\ WF_muxVars(ServerDoes(cancelled[m] /\ RemoteLeaves(m)))
                         /\ SF_muxVars(ServerDoes(RemoteGreets(m)))
                         /\ SF_muxVars(ServerDoes(RemoteSignalsClose(m)))
                         /\ WF_muxVars(ServerDoes(RemoteEnds(m)))
  /\ WF_muxVars(ClientDoes(ServeStep))
  /\ WF_muxVars(ClientDoes(ResumeServer))
  /\ WF_muxVars(pc = "done" /\ HangUp)

FairSpec == Spec /\ Fairness

---------------------------------------------------------------------------
(* Properties *)

\* The same for the server: requests come for free slots, messages for commands
\* that have not been closed, COMPLETED for running ones.
Expected(f) ==
  CASE f.type = "stream" /\ f.body = "request" -> ~fsmRunning[f.slot]
    [] f.type = "stream" /\ f.body # "request" -> fsmRunning[f.slot] /\ ~fsmClosed[f.slot]
    [] f.type = "completed" -> fsmRunning[f.slot]
    [] OTHER -> TRUE

\* Whatever closes, cancels and failed requests cross on the way, the browser
\* never gets a frame it has no slot for or takes for something else (Acceptable),
\* nor does the server: such a frame throws in Streams.serve, or is an error of
\* handleStream, and resets the connection, every terminal on it.
NeverSurprised ==
  /\ up /\ cpc = "serve" /\ toClient # <<>> => Acceptable(Received)
  /\ up /\ pc = "read" /\ toServer # <<>> => Expected(Incoming)

\* What is typed into one terminal never reaches another one's remote, and what
\* a remote writes never shows in another one's terminal: the slot's previous
\* user, its CLOSE or its COMPLETED included, is over when the next one is there.
NoCrossTalk ==
  /\ up /\ pc = "read" /\ toServer # <<>> /\ Incoming.body # "request"
       /\ Incoming.sess # NoSession /\ fsmRunning[Incoming.slot]
       => serves[fsmMachine[Incoming.slot]] = Incoming.sess
  /\ up /\ cpc = "serve" /\ toClient # <<>> /\ Received.sess # NoSession
       => serves[Received.sess] = command[Received.slot]

\* The request a wizard holds is the one in its slot, so a late cancel or timeout
\* cannot close somebody else's stream.
CancelsOnlyItsOwn ==
  \A m \in Sessions : request[m] # NoRequest => command[request[m]] = m

\* Where a slot is taken on the server it is taken in the browser, or the
\* browser's COMPLETED is on its way: no command runs that no one can see or end.
NoGhostCommand ==
  up /\ cpc # "stopped" =>
    \A s \in Slots : fsmMachine[s] # NoSession =>
      LET m == serves[fsmMachine[s]]
      IN \/ command[s] = m
         \/ Completed(s, m) \in Range(toServer)
         \/ pc \in {"closing", "releasing"} /\ cur = s /\ why = "completed"

\* A stream one side has closed ends on both, however the closes cross, paused or
\* not: the slot can be used again, or the connection is gone.
CloseFinishes ==
  \A m \in Sessions :
    senderClosed[m] ~> \/ ~up
                       \/ \A s \in Slots : /\ command[s] # m
                                           /\ \/ fsmMachine[s] = NoSession
                                              \/ serves[fsmMachine[s]] # m

\* When the connection is gone both sides come to their end.
BothEnd == ~up ~> pc = "done" /\ cpc = "stopped"

============================================================================
