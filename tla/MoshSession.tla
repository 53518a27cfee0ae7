---------------------------- MODULE MoshSession ----------------------------
(***************************************************************************)
(* mosh.go and mosh_session.go: the login starts a mosh-server, the        *)
(* session itself goes over UDP.  The login's connection stays, to see     *)
(* when that server exits.                                                 *)
(***************************************************************************)
EXTENDS Session

VARIABLES
  session,   \* the moshSession: none, open, closed
  monitor    \* the goroutines that watch the mosh-server: none, watching,
             \* closing, done

moshVars == <<session, monitor>>

Mosh == protocol = "mosh"

\* bootstrapRemoteMoshServer, the deadline cleared whether it works or not, and
\* parseMoshConnectLine.
Bootstrap ==
  /\ Mosh /\ At("setup")
  /\ ClearDeadline
  /\ (conn = "open" /\ Goto("build")) \/ Goto("report")
  /\ UNCHANGED <<wireVars, callVars, cancelled, conn, delivered, alive, timedOut, moshVars>>

\* The session is cached for Close and the ticks, then its server watched, if
\* its process is known.
BuildSession ==
  /\ Mosh /\ At("build")
  /\ \/ /\ session' = "open"
        /\ monitor' \in {"watching", "none"}
        /\ Goto("ready")
     \/ Goto("report") /\ UNCHANGED moshVars
  /\ UNCHANGED <<wireVars, callVars, cancelled, netVars>>

\* AwaitReady: until something is heard, the context done, the session closed or
\* the time over.
AwaitReady ==
  /\ Mosh /\ At("ready")
  /\ (session = "open" /\ Goto("deliver")) \/ Goto("report")
  /\ UNCHANGED <<wireVars, callVars, cancelled, netVars, moshVars>>

MoshDeliver == Mosh /\ Deliver("greet") /\ UNCHANGED moshVars

MoshGreet ==
  /\ Mosh /\ At("greet")
  /\ Tell("connected")
  /\ Goto(IF up THEN "flush" ELSE "cleanup")
  /\ UNCHANGED <<protocol, up, callVars, cancelled, netVars, moshVars>>

\* What AwaitReady has heard, if it was output.
MoshFlush ==
  /\ Mosh /\ At("flush")
  /\ \/ Tell("output") /\ Goto(IF up THEN "stream" ELSE "cleanup")
     \/ Goto("stream") /\ UNCHANGED said
  /\ UNCHANGED <<protocol, up, callVars, cancelled, netVars, moshVars>>

\* Recv returns output, nothing within its timeout, or that the session is closed.
Received == /\ Tell("output")
            /\ Goto(IF up THEN "stream" ELSE "cleanup")

MoshOver == cancelled \/ session = "closed"

MoshReceive ==
  /\ Mosh /\ At("stream")
  /\ \/ ~cancelled /\ Received
     \/ MoshOver /\ Goto("cleanup") /\ UNCHANGED said
  /\ UNCHANGED <<protocol, up, callVars, cancelled, netVars, moshVars>>

\* The deferred functions: the connection, then the session.
MoshCleanup ==
  /\ Mosh /\ At("cleanup")
  /\ cancelled' = (cancelled \/ conn # "none")
  /\ CloseConn
  /\ session' = IF session = "none" THEN "none" ELSE "closed"
  /\ Goto("signal")
  /\ UNCHANGED <<wireVars, callVars, delivered, alive, retry, force, monitor>>

\* Mutant: the end of the mosh-server passes for a failure to watch it.
ExitUnseen == conn = "none"
ExitSeen == ~alive /\ conn = "open"

\* closeSessionWhenRemoteMoshServerExits
MonitorSees ==
  /\ monitor = "watching" /\ ExitSeen
  /\ monitor' = "closing"
  /\ cancelled' = TRUE
  /\ UNCHANGED <<wireVars, callVars, rpc, netVars, session>>

MonitorCloses ==
  /\ monitor = "closing"
  /\ monitor' = "done"
  /\ session' = "closed"
  /\ UNCHANGED sessionVars

MonitorStops ==
  /\ monitor = "watching" /\ (cancelled \/ conn # "open")
  /\ monitor' = "done"
  /\ UNCHANGED <<sessionVars, session>>

\* The login's connection is lost; nobody but the monitor minds.
LoginBreaks ==
  /\ session # "none" /\ conn = "open"
  /\ conn' = "broken"
  /\ deadline' = "none"
  /\ timedOut' = FALSE
  /\ UNCHANGED <<wireVars, callVars, cancelled, rpc, delivered, alive, retry, force, moshVars>>

MoshStep == \/ Bootstrap \/ BuildSession \/ AwaitReady \/ MoshDeliver \/ MoshGreet
            \/ MoshFlush \/ MoshReceive \/ MoshCleanup
            \/ MonitorSees \/ MonitorCloses \/ MonitorStops \/ LoginBreaks

---------------------------------------------------------------------------
(* The handler goroutine *)

\* What comes before there is a session is dropped; a closed one fails the tick,
\* a new size excepted.
MoshInput ==
  /\ Mosh /\ hpc = "idle"
  /\ hpc' \in (IF session = "closed" THEN {"failing", "idle"} ELSE {"idle"})
  /\ UNCHANGED <<wireVars, answer, processed, cancelled, rpc, netVars, moshVars>>

\* closeSession
MoshClose ==
  /\ Mosh /\ hpc = "closing"
  /\ hpc' = "waiting"
  /\ session' = IF session = "open" THEN "closed" ELSE session
  /\ UNCHANGED <<wireVars, answer, processed, cancelled, rpc, netVars, monitor>>

MoshCall == MoshInput \/ MoshClose
============================================================================
