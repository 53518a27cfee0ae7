---------------------------- MODULE OpenHandler ----------------------------
(***************************************************************************)
(* The server end against any client: one that writes whatever frame it    *)
(* likes, whenever it likes, reads what it is sent or does not, and goes   *)
(* away at any moment.  The server must not rely on its manners.           *)
(***************************************************************************)
EXTENDS Handler

CONSTANT Sends   \* what the client may put in control and stream frames

ASSUME OpenHandlerAssumption ==
  Sends \subseteq ControlBodies \cup RequestBodies \cup MessageBodies

ClientFrames ==
  {Control(b) : b \in Sends \cap ControlBodies}
    \cup {Stream(s, b, NoSession) : s \in Slots, b \in Sends \ ControlBodies}
    \cup {Close(s, NoSession) : s \in Slots}
    \cup {Completed(s, NoSession) : s \in Slots}

ClientWrites ==
  /\ up /\ Len(toServer) < MaxInFlight
  /\ \E f \in ClientFrames : toServer' = Append(toServer, f)
  /\ UNCHANGED <<toClient, up, serverVars>>

ClientReads ==
  /\ toClient # <<>>
  /\ toClient' = Tail(toClient)
  /\ UNCHANGED <<toServer, up, serverVars>>

ConnectionLost ==
  /\ up
  /\ up' = FALSE
  /\ UNCHANGED <<toServer, toClient, serverVars>>

---------------------------------------------------------------------------
OpenInit == WireInit /\ HandlerInit

OpenNext == \/ ServerStep
            \/ ClientWrites \/ ClientReads \/ ConnectionLost

OpenSpec == OpenInit /\ [][OpenNext]_vars
============================================================================
